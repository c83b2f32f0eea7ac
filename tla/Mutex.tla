------------------------------- MODULE Mutex -------------------------------
(***************************************************************************)
(* BaseMutex (src/include/futoin/ri/mutex.hpp) and the flows that use it   *)
(* through sync steps (add_sync() and the sync_ handlers of                *)
(* src/src/asyncsteps.cpp), on one reactor or on several.                  *)
(*                                                                         *)
(* A sync step calls lock() in its first sub-step and unlock() in its      *)
(* last; its on_cancel also calls unlock(), when an error unwinds the step *)
(* or the flow is canceled.  unlock() grants the lock to waiting flows by  *)
(* success() on their lock step, which blocks when that flow belongs to    *)
(* another reactor; the OS mutex is held all that time.                    *)
(***************************************************************************)
EXTENDS Integers, Sequences, FiniteSets, Lists

CONSTANTS
    Flow,        \* BaseAsyncSteps instances
    Reactor,     \* AsyncTool threads
    Home,        \* the reactor of each flow
    Max,         \* max_
    QueueMax,    \* queue_max_
    MaxDepth,    \* most nested sync steps of one flow
    None

ASSUME MutexAssumption ==
    /\ IsFiniteSet(Flow) /\ None \notin Flow /\ None \notin Reactor
    /\ Home \in [Flow -> Reactor]
    /\ Max \in Nat /\ QueueMax \in Nat /\ MaxDepth \in Nat \ {0}

VARIABLES
    locked,     \* the flows of locked_list_
    queue,      \* queue_
    free,       \* size of free_list_
    iter,       \* asi_iter() of the flow is not end()
    count,      \* ASInfo::count
    os,         \* reactor that holds mutex_
    callee,     \* flow whose success() blocks the holder of mutex_
    depth,      \* open sync steps of the flow
    phase,      \* what the flow is doing
    mode        \* "ok", or why its sync steps are being unwound

lists == <<locked, queue, free, iter, count>>
vars == <<lists, os, callee, depth, phase, mode>>

(* phase "run"       in user code, or between steps                         *)
(*       "entering"  a sync step has added its lock, body and unlock steps  *)
(*       "locking"   in lock(), before its critical section                 *)
(*       "waiting"   the lock step waits for success()                      *)
(*       "releasing" in unlock(), before its critical section               *)
(*       "granting"  in the loop of unlock(), which holds mutex_            *)
(*       "calling"   in the loop, blocked in success()                      *)

InHandler == {"locking", "releasing", "granting", "calling"}

\* A reactor thread executes one handler, unwinding or cancel() at a time.
Busy(r) == \E f \in Flow :
              Home[f] = r /\ (phase[f] \in InHandler \/ mode[f] # "ok")

(* Operators whose names begin with Bug are deliberately wrong variants of  *)
(* the definition that follows them; see PROJECT.json, "mutants".           *)

----------------------------------------------------------------------------
Init ==
    /\ locked = {} /\ queue = <<>> /\ free = 0
    /\ iter = [f \in Flow |-> FALSE] /\ count = [f \in Flow |-> 0]
    /\ os = None /\ callee = None
    /\ depth = [f \in Flow |-> 0]
    /\ phase = [f \in Flow |-> "run"] /\ mode = [f \in Flow |-> "ok"]

Idle(f) == ~Busy(Home[f])

\* sync_handler()
Enter(f) ==
    /\ Idle(f) /\ phase[f] = "run" /\ depth[f] < MaxDepth
    /\ depth' = [depth EXCEPT ![f] = @ + 1]
    /\ phase' = [phase EXCEPT ![f] = "entering"]
    /\ UNCHANGED <<lists, os, callee, mode>>

BugLock(f) ==
    /\ Idle(f) /\ phase[f] = "entering"
    /\ phase' = [phase EXCEPT ![f] = IF iter[f] THEN "run" ELSE "locking"]
    /\ UNCHANGED <<lists, os, callee, depth, mode>>

\* lock() outside of its critical section: a flow that holds the lock only
\* counts.
Lock(f) ==
    /\ Idle(f) /\ phase[f] = "entering"
    /\ IF iter[f]
       THEN /\ count' = [count EXCEPT ![f] = @ + 1]
            /\ phase' = [phase EXCEPT ![f] = "run"]
       ELSE phase' = [phase EXCEPT ![f] = "locking"] /\ UNCHANGED count
    /\ UNCHANGED <<locked, queue, free, iter, os, callee, depth, mode>>

BugHasRoom == Cardinality(locked) <= Max

HasRoom == Cardinality(locked) < Max

BugHasQueueRoom == Len(queue) + 1 < QueueMax

HasQueueRoom == Len(queue) < QueueMax

\* free_list_ after its first node was used, allocated when there was none.
TakeNode == IF free = 0 THEN 0 ELSE free - 1

Granted(f) ==
    /\ locked' = locked \cup {f} /\ UNCHANGED queue
    /\ count' = [count EXCEPT ![f] = 1]
    /\ phase' = [phase EXCEPT ![f] = "run"]

BugQueued(f) ==
    /\ queue' = <<f>> \o queue /\ UNCHANGED locked
    /\ count' = [count EXCEPT ![f] = 0]
    /\ phase' = [phase EXCEPT ![f] = "waiting"]

Queued(f) ==
    /\ queue' = Append(queue, f) /\ UNCHANGED locked
    /\ count' = [count EXCEPT ![f] = 0]
    /\ phase' = [phase EXCEPT ![f] = "waiting"]

OsFree == os = None

\* The critical section of lock(): it takes mutex_ and gives it back.
LockSection(f) ==
    /\ phase[f] = "locking" /\ OsFree
    /\ \/ /\ IF queue = <<>> /\ HasRoom THEN Granted(f)
                                        ELSE HasQueueRoom /\ Queued(f)
          /\ free' = TakeNode /\ iter' = [iter EXCEPT ![f] = TRUE]
          /\ UNCHANGED mode
       \/ \* DefenseRejected: the node that was made ready stays in free_list_
          /\ ~(queue = <<>> /\ HasRoom) /\ ~HasQueueRoom
          /\ free' = IF free = 0 THEN 1 ELSE free
          /\ phase' = [phase EXCEPT ![f] = "run"]
          /\ mode' = [mode EXCEPT ![f] = "fail"]
          /\ UNCHANGED <<locked, queue, iter, count>>
    /\ UNCHANGED <<os, callee, depth>>

----------------------------------------------------------------------------
\* unlock() outside of its critical section, called for one sync step.
Unlock(f) ==
    /\ depth' = [depth EXCEPT ![f] = @ - 1]
    /\ IF iter[f] /\ count[f] > 1
       THEN count' = [count EXCEPT ![f] = @ - 1] ELSE UNCHANGED count
    /\ phase' = IF iter[f] /\ count[f] <= 1
                THEN [phase EXCEPT ![f] = "releasing"] ELSE phase
    /\ UNCHANGED <<locked, queue, free, iter, os, callee>>

\* sync_unlock_handler()
Exit(f) ==
    /\ Idle(f) /\ phase[f] = "run" /\ depth[f] > 0
    /\ Unlock(f) /\ UNCHANGED mode

\* An error in the body of the innermost sync step.
Fail(f) ==
    /\ Idle(f) /\ phase[f] = "run" /\ depth[f] > 0
    /\ mode' = [mode EXCEPT ![f] = "fail"]
    /\ UNCHANGED <<lists, os, callee, depth, phase>>

\* cancel() of a flow between two of its steps, or while it waits.
Cancel(f) ==
    /\ Idle(f) /\ phase[f] \in {"run", "entering", "waiting"} /\ depth[f] > 0
    /\ mode' = [mode EXCEPT ![f] = "cancel"]
    /\ phase' = [phase EXCEPT ![f] = "run"]
    /\ UNCHANGED <<lists, os, callee, depth>>

\* The next sync step of the stack is unwound: sync_cancel_handler().
UnwindLevel(f) ==
    /\ mode[f] # "ok" /\ phase[f] = "run" /\ depth[f] > 0
    /\ Unlock(f) /\ UNCHANGED mode

\* A step between two sync steps handles the error, or the stack has ended.
UnwindEnd(f) ==
    /\ mode[f] # "ok" /\ phase[f] = "run"
    /\ depth[f] = 0 \/ (mode[f] = "fail" /\ iter[f])
    /\ mode' = [mode EXCEPT ![f] = "ok"]
    /\ UNCHANGED <<lists, os, callee, depth, phase>>

BugReleaseSection(f) ==
    /\ phase[f] = "releasing" /\ OsFree /\ os' = Home[f]
    /\ locked' = locked \ {f} /\ queue' = Without(queue, f)
    /\ free' = free + 1
    /\ phase' = [phase EXCEPT ![f] = "granting"]
    /\ UNCHANGED <<iter, count, callee, depth, mode>>

\* The critical section of unlock() up to its loop: mutex_ is taken and the
\* flow's node goes from queue_ or locked_list_ to free_list_.
ReleaseSection(f) ==
    /\ phase[f] = "releasing" /\ OsFree /\ os' = Home[f]
    /\ IF count[f] = 0
       THEN queue' = Without(queue, f) /\ UNCHANGED locked
       ELSE locked' = locked \ {f} /\ UNCHANGED queue
    /\ free' = free + 1 /\ iter' = [iter EXCEPT ![f] = FALSE]
    /\ phase' = [phase EXCEPT ![f] = "granting"]
    /\ UNCHANGED <<count, callee, depth, mode>>

\* One round of the loop: the oldest pending flow gets the lock and success()
\* on its lock step, at once or by a task of its own reactor.
Grant(f) ==
    /\ phase[f] = "granting" /\ HasRoom /\ queue # <<>>
    /\ LET next == Head(queue) IN
       /\ locked' = locked \cup {next} /\ queue' = Tail(queue)
       /\ count' = [count EXCEPT ![next] = 1]
       /\ IF Home[next] = Home[f]
          THEN phase' = [phase EXCEPT ![next] = "run"] /\ UNCHANGED callee
          ELSE phase' = [phase EXCEPT ![f] = "calling"] /\ callee' = next
    /\ UNCHANGED <<free, iter, os, depth, mode>>

\* The other reactor executes the task of success().
Answer(f) ==
    /\ phase[f] = "calling" /\ Idle(callee)
    /\ phase' = [phase EXCEPT ![f] = "granting", ![callee] = "run"]
    /\ callee' = None
    /\ UNCHANGED <<lists, os, depth, mode>>

BugGrantEnd(f) ==
    /\ phase[f] = "granting"
    /\ os' = None /\ phase' = [phase EXCEPT ![f] = "run"]
    /\ UNCHANGED <<lists, callee, depth, mode>>

\* The loop ends and mutex_ is given back.
GrantEnd(f) ==
    /\ phase[f] = "granting" /\ ~(HasRoom /\ queue # <<>>)
    /\ os' = None /\ phase' = [phase EXCEPT ![f] = "run"]
    /\ UNCHANGED <<lists, callee, depth, mode>>

\* shrink_to_fit()
Shrink ==
    /\ OsFree /\ free > 0 /\ free' = 0
    /\ UNCHANGED <<locked, queue, iter, count, os, callee, depth, phase, mode>>

----------------------------------------------------------------------------
FlowStep(f) ==
    \/ Enter(f) \/ Lock(f) \/ LockSection(f)
    \/ Exit(f) \/ Fail(f) \/ Cancel(f) \/ UnwindLevel(f) \/ UnwindEnd(f)
    \/ ReleaseSection(f) \/ Grant(f) \/ Answer(f) \/ GrantEnd(f)

Next == Shrink \/ \E f \in Flow : FlowStep(f)

Spec == Init /\ [][Next]_vars

\* A handler that has begun goes on; a reactor serves every flow in turn; and
\* the body of an outermost sync step ends some day.
FairSpec ==
    /\ Spec
    /\ \A f \in Flow :
         /\ WF_vars(LockSection(f)) /\ WF_vars(ReleaseSection(f))
         /\ WF_vars(Grant(f) \/ GrantEnd(f))
         /\ WF_vars(UnwindLevel(f) \/ UnwindEnd(f))
         /\ SF_vars(Lock(f)) /\ SF_vars(Answer(f))
         /\ SF_vars(Exit(f) /\ depth[f] = 1)

----------------------------------------------------------------------------
(* Properties *)

\* Type correctness, with a bound on the lists.
TypeOK ==
    /\ locked \subseteq Flow
    /\ queue \in Seq(Flow) /\ Len(queue) <= QueueMax
    /\ free \in Nat
    /\ iter \in [Flow -> BOOLEAN] /\ count \in [Flow -> 0 .. MaxDepth]
    /\ os \in Reactor \cup {None} /\ callee \in Flow \cup {None}
    /\ depth \in [Flow -> 0 .. MaxDepth]
    /\ phase \in [Flow -> {"run", "entering", "waiting"} \cup InHandler]
    /\ mode \in [Flow -> {"ok", "fail", "cancel"}]

\* The flow executes code protected by a sync step.
Inside(f) == /\ mode[f] = "ok"
             /\ \/ phase[f] = "run" /\ depth[f] > 0
                \/ phase[f] = "entering" /\ depth[f] > 1

\* The purpose of the mutex: never more than Max flows inside.
MutualExclusion == Cardinality({f \in Flow : Inside(f)}) <= Max

\* The recursion count is the number of sync steps inside of which the flow
\* is, so that it is the outermost one that releases the lock.
CountIsDepth ==
    \A f \in Flow : Inside(f) =>
        /\ iter[f] /\ f \in locked
        /\ count[f] = IF phase[f] = "entering" THEN depth[f] - 1 ELSE depth[f]

\* A flow that has left all its sync steps, in whatever way, has left no node
\* behind: the mutex would grant the lock to a step that no longer exists.
NothingLeftBehind ==
    \A f \in Flow : depth[f] = 0 /\ phase[f] = "run" =>
        ~iter[f] /\ f \notin locked \cup Elements(queue)

\* No flow waits for a lock that nobody holds.
NoIdleRoom == os = None => queue = <<>> \/ Cardinality(locked) = Max

\* DefenseRejected is raised only when the lock and the queue are full.
RefusedWhenFull ==
    [][\A f \in Flow : phase[f] = "locking" /\ mode'[f] = "fail" =>
          Cardinality(locked) = Max /\ Len(queue) = QueueMax]_vars

Sem == INSTANCE Semaphore WITH holders <- locked, waiting <- queue

\* The mutex is a semaphore with a strictly ordered queue.
OrderedAdmission == Sem!Spec

\* ... that does not leave a pending flow behind, on one reactor.
FairAdmission == Sem!FairSpec

\* mutex_ is never held for ever: the flows of a reactor go on.
MutexReturned == os # None ~> os = None

=============================================================================
