------------------------------ MODULE Limiter ------------------------------
(***************************************************************************)
(* BaseLimiter (src/include/futoin/ri/limiter.hpp): a mutex, taken in one  *)
(* sub-step, and a throttle, passed in the next one while the place in the *)
(* mutex is kept; unlock() gives both back.  The mutex is the one of       *)
(* module Mutex, step by step.  The throttle is what Throttle shows it to  *)
(* be: Rate flows pass in a period, the others are pending in order, and   *)
(* the timer ends a period in which a flow has passed.  All on one reactor.*)
(***************************************************************************)
EXTENDS Mutex

CONSTANTS
    Rate,       \* rate
    Burst       \* burst

ASSUME LimiterAssumption ==
    /\ Rate \in Nat \ {0} /\ Burst \in Nat
    /\ \A f, g \in Flow : Home[f] = Home[g]

VARIABLES
    passed,     \* throttle_.count_
    pending,    \* throttle_.queue_
    ahead       \* flows whose innermost sync step is still about to call
                \* throttle_.lock(), or pending there

throttle == <<passed, pending, ahead>>
limiter == <<vars, throttle>>

(* Operators whose names begin with Bug are deliberately wrong variants of  *)
(* the definition that follows them; see PROJECT.json, "mutants".           *)

----------------------------------------------------------------------------
LInit == Init /\ passed = 0 /\ pending = <<>> /\ ahead = {}

\* lock(): two sub-steps, mutex_.lock() ...
LEnter(f) ==
    /\ f \notin ahead /\ Enter(f) /\ ahead' = ahead \cup {f}
    /\ UNCHANGED <<passed, pending>>

MutexLock(f) == (Lock(f) \/ LockSection(f)) /\ UNCHANGED throttle

\* ... and throttle_.lock().
ThrottleLock(f) ==
    /\ f \in ahead /\ f \notin Elements(pending)
    /\ Idle(f) /\ phase[f] = "run"
    /\ \/ /\ pending = <<>> /\ passed < Rate
          /\ passed' = passed + 1 /\ ahead' = ahead \ {f}
          /\ UNCHANGED <<pending, mode>>
       \/ /\ pending # <<>> \/ passed >= Rate
          /\ Len(pending) < Burst /\ pending' = Append(pending, f)
          /\ UNCHANGED <<passed, ahead, mode>>
       \/ /\ pending # <<>> \/ passed >= Rate
          /\ Len(pending) >= Burst /\ mode' = [mode EXCEPT ![f] = "fail"]
          /\ UNCHANGED <<passed, pending, ahead>>
    /\ UNCHANGED <<lists, os, callee, depth, phase>>

BugThrottleUnlock(f) == ahead' = ahead \ {f} /\ UNCHANGED <<passed, pending>>

\* unlock() of the throttle, which only a pending flow needs.
ThrottleUnlock(f) ==
    /\ pending' = IF f \in Elements(pending) THEN Without(pending, f) ELSE pending
    /\ ahead' = ahead \ {f} /\ UNCHANGED passed

\* unlock(): throttle_, then mutex_.
LExit(f) == f \notin ahead /\ Exit(f) /\ ThrottleUnlock(f)

LUnwindLevel(f) == UnwindLevel(f) /\ ThrottleUnlock(f)

\* The critical section of mutex_.unlock(), and the end of unwinding, which a
\* refused flow reaches above its innermost sync step.
MutexUnlock(f) ==
    /\ \/ ReleaseSection(f) \/ Grant(f) \/ GrantEnd(f)
       \/ UnwindEnd(f) /\ f \notin ahead
    /\ UNCHANGED throttle

LFail(f) == f \notin ahead /\ Fail(f) /\ UNCHANGED throttle

LCancel(f) == Cancel(f) /\ UNCHANGED throttle

BugAdmitted == IF Len(pending) < Rate - passed THEN Len(pending) ELSE Rate - passed

\* Flows that pass at the beginning of a period.
Admitted == IF Len(pending) < Rate THEN Len(pending) ELSE Rate

\* The timer of the throttle: the next period begins.
NextPeriod ==
    /\ passed > 0 /\ \A f \in Flow : Idle(f)
    /\ passed' = Admitted
    /\ pending' = SubSeq(pending, Admitted + 1, Len(pending))
    /\ ahead' = ahead \ {pending[i] : i \in 1 .. Admitted}
    /\ UNCHANGED vars

LNext ==
    \/ NextPeriod
    \/ \E f \in Flow :
          \/ LEnter(f) \/ MutexLock(f) \/ ThrottleLock(f)
          \/ LExit(f) \/ LFail(f) \/ LCancel(f)
          \/ LUnwindLevel(f) \/ MutexUnlock(f)

LSpec == LInit /\ [][LNext]_limiter

\* The reactor ends a handler it has begun, and serves every flow and the timer
\* in turn; the body of an outermost sync step ends some day.
LFairSpec ==
    /\ LSpec
    /\ WF_limiter(\E f \in Flow : \/ LockSection(f) /\ UNCHANGED throttle
                                  \/ LUnwindLevel(f) \/ MutexUnlock(f))
    /\ SF_limiter(NextPeriod)
    /\ \A f \in Flow :
         /\ SF_limiter(ThrottleLock(f) \/ (Lock(f) /\ UNCHANGED throttle))
         /\ SF_limiter(LExit(f) /\ depth[f] = 1)

----------------------------------------------------------------------------
(* Properties *)

\* A flow that enters the limiter gets in, is refused or is canceled: with a
\* place in the mutex, or waiting for one, it does not depend on a flow that
\* waits for it.
EntrySettles == \A f \in Flow : f \in ahead ~> f \notin ahead

\* A flow holds a place from mutex_.lock() to the end of its outermost sync
\* step, also while it is pending in the throttle; refused there or canceled,
\* it leaves nothing behind in either queue.
PlacesAreHeld ==
    \A f \in Flow :
        /\ f \in Elements(pending) =>
              f \in locked /\ (phase[f] = "run" \/ mode[f] # "ok")
        /\ depth[f] = 0 /\ phase[f] = "run" =>
              ~iter[f] /\ f \notin locked \cup Elements(queue) \cup Elements(pending)

=============================================================================
