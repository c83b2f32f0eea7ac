------------------------------ MODULE Parallel ------------------------------
(***************************************************************************)
(* parallel() of both step engines: a step of the root flow whose branches *)
(* are flows of their own ("items"), SubAsyncSteps in                      *)
(* src/src/asyncsteps.cpp and NitroSteps<IsRoot<false>> in                 *)
(* include/futoin/ri/nitrosteps.hpp.  What the steps of an item do is      *)
(* abstracted to what its engine reports: it is scheduled, it waits, it    *)
(* ends or it fails.                                                       *)
(***************************************************************************)
EXTENDS Integers, FiniteSets

CONSTANTS
    Item,       \* memory of the items
    Code,       \* error codes of items
    Engines,    \* the engines to check: "AsyncSteps", "NitroSteps"
    Allow       \* what clients do, see Features

(* "late_steps" the on_error handler of a parallel step of NitroSteps adds   *)
(*              steps                                                        *)
(* "reuse"      execute() of a NitroSteps that was left with an error code   *)
(* "empty"      a parallel step without items                                *)
Features == {"late_steps", "reuse", "empty"}

ASSUME ParallelAssumption ==
    /\ IsFiniteSet(Item)
    /\ "" \notin Code
    /\ {"none", "running", "success", "canceled"} \cap Code = {}
    /\ Engines \subseteq {"AsyncSteps", "NitroSteps"}
    /\ Allow \subseteq Features

VARIABLES
    engine,
    phase,      \* of the parallel step: "none", "queued", "waiting" or, when
                \* its on_error handler has added sub-steps, "handled"
    items,      \* items_, parallel_items
    item,       \* what each of them does
    completed,  \* completed_, parallel_completed
    error_code, \* error_code_, error_code_cache_ of the root flow
    calls,      \* final operator()() calls the reactor has still to make
    outcome     \* history: what the step's client was told last

vars == <<engine, phase, items, item, completed, error_code, calls, outcome>>

(* Operators whose names begin with Bug are deliberately wrong variants of  *)
(* the definition that follows them; see PROJECT.json, "mutants".           *)

ItemState == {"free",   \* memory not in use
              "built",  \* has steps, the parallel step was not launched
              "ready",  \* its execution is scheduled
              "wait",   \* its innermost step waits for an event
              "ended",  \* all its steps are done
              "dead"}   \* failed or canceled: its queue was cleared

Working == {i \in items : item[i] \in {"built", "ready", "wait"}}

Init ==
    /\ engine \in Engines
    /\ phase = "none" /\ items = {} /\ item = [i \in Item |-> "free"]
    /\ completed = 0 /\ error_code = "" /\ calls = 0 /\ outcome = "none"

\* The items are destroyed, and so canceled.
Clear == items' = {} /\ item' = [i \in Item |-> "free"]

----------------------------------------------------------------------------
(* The root flow up to the wait *)

\* parallel(), add() on what it returns, and execute() of the root flow.
Build(S) ==
    /\ phase = "none" /\ S \cap items = {}
    /\ error_code = "" \/ (engine = "NitroSteps" /\ "reuse" \in Allow)
    /\ S # {} \/ "empty" \in Allow
    /\ phase' = "queued" /\ items' = items \cup S
    /\ item' = [i \in Item |-> IF i \in S THEN "built" ELSE item[i]]
    /\ completed' = 0
    /\ UNCHANGED <<engine, error_code, calls, outcome>>

\* process_cb(), launch_parallel(): every item is scheduled, the step waits.
Launch ==
    /\ phase = "queued" /\ phase' = "waiting" /\ outcome' = "running"
    /\ item' = [i \in Item |-> IF item[i] = "built" THEN "ready" ELSE item[i]]
    /\ error_code' = IF engine = "NitroSteps" THEN "" ELSE error_code
    /\ UNCHANGED <<engine, items, completed, calls>>

----------------------------------------------------------------------------
(* The items *)

BugLastNotSeen(i) ==
    /\ item' = [item EXCEPT ![i] = "ended"]
    /\ completed' = completed + 1
    /\ calls' = IF completed = Cardinality(items) THEN calls + 1 ELSE calls
    /\ UNCHANGED error_code

\* The completion step of the item, sub_completion(): the last one makes the
\* final call due.
Ended(i) ==
    /\ item' = [item EXCEPT ![i] = "ended"]
    /\ completed' = completed + 1
    /\ calls' = IF completed' = Cardinality(items) THEN calls + 1 ELSE calls
    /\ UNCHANGED error_code

BugFailedAlone(i, code) ==
    /\ item' = [item EXCEPT ![i] = "dead"]
    /\ error_code' = code /\ calls' = calls + 1
    /\ UNCHANGED completed

\* No handler of the item takes the error: the other items are canceled, the
\* code is kept for the root flow and the final call is due.
Failed(i, code) ==
    /\ item' = [j \in Item |-> IF j = i \/ j \in Working THEN "dead" ELSE item[j]]
    /\ error_code' = code /\ calls' = calls + 1
    /\ UNCHANGED completed

\* The reactor runs a burst of an item.
RunItem(i) ==
    /\ item[i] = "ready" /\ i \in items
    /\ \/ item' = [item EXCEPT ![i] = "wait"]
          /\ UNCHANGED <<completed, error_code, calls>>
       \/ Ended(i)
       \/ \E code \in Code : Failed(i, code)
    /\ UNCHANGED <<engine, phase, items, outcome>>

\* The event an item waits for.  An item of AsyncSteps has at least its
\* completion step to run after it.
ItemEvent(i) ==
    /\ item[i] = "wait" /\ i \in items
    /\ \/ item' = [item EXCEPT ![i] = "ready"]
          /\ UNCHANGED <<completed, error_code, calls>>
       \/ engine = "NitroSteps" /\ Ended(i)
       \/ \E code \in Code : Failed(i, code)
    /\ UNCHANGED <<engine, phase, items, outcome>>

----------------------------------------------------------------------------
(* The end of the parallel step *)

\* The final operator()() when no item failed: the step is destroyed.
FinalSuccess ==
    /\ calls > 0 /\ phase = "waiting" /\ error_code = ""
    /\ calls' = calls - 1 /\ phase' = "none" /\ outcome' = "success" /\ Clear
    /\ UNCHANGED <<engine, completed, error_code>>

\* The same after a failure: on_error of the step is called with the code.  It
\* returns, and nobody above handles the code either; it calls success(); or it
\* adds sub-steps, for which AsyncSteps keeps the dead items a while.
FinalError ==
    /\ calls > 0 /\ phase = "waiting" /\ error_code # ""
    /\ calls' = calls - 1 /\ outcome' = error_code
    /\ \/ phase' = "none" /\ Clear /\ UNCHANGED error_code
       \/ phase' = "none" /\ Clear /\ error_code' = ""
       \/ /\ engine = "AsyncSteps" \/ "late_steps" \in Allow
          /\ phase' = "handled" /\ error_code' = ""
          /\ IF engine = "NitroSteps" THEN Clear ELSE UNCHANGED <<items, item>>
    /\ UNCHANGED <<engine, completed>>

\* handle_error_unwind() does not schedule what an on_error handler adds when no
\* burst is running, and the final call is not part of one.
HandledRuns ==
    /\ phase = "handled" /\ engine = "AsyncSteps"
    /\ phase' = "none" /\ Clear
    /\ UNCHANGED <<engine, completed, error_code, calls, outcome>>

BugCancelKeepsCall ==
    /\ phase # "none" /\ phase' = "none" /\ outcome' = "canceled"
    /\ IF engine = "NitroSteps" /\ error_code # ""
       THEN UNCHANGED <<items, item>> ELSE Clear
    /\ UNCHANGED <<engine, completed, error_code, calls>>

\* cancel() of the root flow: the final call is canceled.  cancel_cb() and
\* cancel_parallel() leave the items alone after a failure; AsyncSteps destroys
\* them with the step, NitroSteps keeps them in the extended state.
Cancel ==
    /\ phase # "none" /\ phase' = "none" /\ outcome' = "canceled"
    /\ calls' = IF calls > 0 THEN calls - 1 ELSE 0
    /\ IF engine = "NitroSteps" /\ error_code # ""
       THEN UNCHANGED <<items, item>> ELSE Clear
    /\ UNCHANGED <<engine, completed, error_code>>

----------------------------------------------------------------------------
Next ==
    \/ \E S \in SUBSET Item : Build(S)
    \/ Launch
    \/ \E i \in Item : RunItem(i) \/ ItemEvent(i)
    \/ FinalSuccess
    \/ FinalError
    \/ HandledRuns
    \/ Cancel

Spec == Init /\ [][Next]_vars

\* No longer working.
Ends(i) == (RunItem(i) \/ ItemEvent(i)) /\ item'[i] \in {"ended", "dead"}

\* The reactor makes the calls it owes.  Clients let every item end: none loops
\* or waits forever.
FairSpec ==
    /\ Spec
    /\ WF_vars(Launch) /\ WF_vars(HandledRuns)
    /\ WF_vars(FinalSuccess \/ FinalError)
    /\ \A i \in Item : WF_vars(RunItem(i) \/ ItemEvent(i)) /\ SF_vars(Ends(i))

----------------------------------------------------------------------------
(* Properties *)

\* Type correctness.
TypeOK ==
    /\ engine \in Engines
    /\ phase \in {"none", "queued", "waiting", "handled"}
    /\ items \in SUBSET Item /\ item \in [Item -> ItemState]
    /\ completed \in Nat /\ calls \in Nat
    /\ error_code \in Code \cup {""}
    /\ outcome \in Code \cup {"none", "running", "success", "canceled"}

\* While the step waits, either items are still working, or exactly one final
\* call is due; at no other time is one due, so it never finds another step.
\* (The count of completed items and the cancellation of the others both feed
\* it.)
FinalCallIsDue ==
    /\ phase = "waiting" => calls = IF Working = {} THEN 1 ELSE 0
    /\ phase # "waiting" => calls = 0

\* No item works on behind the back of the flow: not after another one failed,
\* not after the step ended or was canceled.
NoOrphans ==
    phase \notin {"queued", "waiting"} \/ (phase = "waiting" /\ error_code # "")
        => \A i \in Item : item[i] \in {"free", "ended", "dead"}

\* What the flow observes of its branches and of the end.
working == IF phase = "waiting" THEN Working ELSE {}
result == IF phase = "waiting" /\ error_code # "" THEN error_code ELSE outcome

\* Both engines implement ForkJoin.
Join == INSTANCE ForkJoin

ImplementsForkJoin == Join!Spec

\* The step ends, whatever its items do, and what its on_error handler added
\* is executed.
ParallelEnds == phase # "none" ~> phase = "none"

=============================================================================
