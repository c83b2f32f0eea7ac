------------------------------ MODULE Throttle ------------------------------
(***************************************************************************)
(* BaseThrottle (src/include/futoin/ri/throttle.hpp) and the flows that    *)
(* pass it through sync steps, all on the reactor of the throttle, so that *)
(* its handlers do not interleave: what is hard here is time.              *)
(*                                                                         *)
(* At most max_ flows pass in one period; the others are pending until     *)
(* reset_callback() begins the next one.  The timer of the reactor calls   *)
(* late and counts from a cached time; reset_callback() corrects both by   *)
(* the length of the period that ends.  An idle throttle has no timer.     *)
(***************************************************************************)
EXTENDS Integers, Sequences, FiniteSets, Lists

CONSTANTS
    Flow,        \* BaseAsyncSteps instances
    Max,         \* max_
    QueueMax,    \* queue_max_
    MaxDepth,    \* most nested sync steps of one flow
    Period,      \* period_, in ticks
    MinDelay,    \* least delay deferred() accepts, in milliseconds
    Res,         \* ticks per millisecond
    MaxLate,     \* the reactor is at most so many ticks late ...
    MaxLag,      \* ... and its cached time at most so many ticks old
    Timer,       \* memory of timers
    Off,
    Resets       \* the client calls reset()

\* Nothing passes a throttle with max_ = 0, and the constructor would not
\* survive a period that deferred() refuses.
ASSUME ThrottleAssumption ==
    /\ IsFiniteSet(Flow)
    /\ Max \in Nat \ {0} /\ QueueMax \in Nat /\ MaxDepth \in Nat \ {0}
    /\ Res \in Nat \ {0} /\ MinDelay \in Nat \ {0}
    /\ Period \in Nat /\ Period >= MinDelay * Res
    /\ MaxLate \in Nat /\ MaxLag \in Nat
    /\ IsFiniteSet(Timer) /\ Cardinality(Timer) >= 2 /\ Off \notin Int
    /\ Resets \in BOOLEAN

VARIABLES
    count,      \* count_
    queue,      \* queue_
    free,       \* size of free_list_
    iter,       \* asi_iter() of the flow is not end()
    age,        \* now - last_reset_
    handle,     \* the node timer_ refers to
    left,       \* time until a live timer is due, Off for a dead one
    state,      \* of the throttle: "alive", "fatal" or "destroyed"
    depth,      \* open sync steps of the flow
    phase,      \* "run", "entering" (about to lock) or "waiting"
    before,     \* history: length of the period before this one
    entries     \* history: flows that passed in this period

lists == <<queue, free, iter>>
clocks == <<age, handle, left, before>>
flows == <<depth, phase>>
vars == <<count, lists, clocks, state, flows, entries>>

(* Operators whose names begin with Bug are deliberately wrong variants of  *)
(* the definition that follows them; see PROJECT.json, "mutants".           *)

----------------------------------------------------------------------------
(* The timer *)

\* operator bool of timer_
TimerIsOn == left[handle] # Off

\* deferred() or immediate(): a free node is due after d ticks, counted from
\* the cached time of the reactor.
Arm(d, live) ==
    LET t == CHOOSE t \in Timer : live[t] = Off IN
    /\ handle' = t
    /\ \E lag \in 0 .. MaxLag : left' = [live EXCEPT ![t] = d - lag]

\* timer_.cancel()
Disarmed == [left EXCEPT ![handle] = Off]

\* duration_cast to milliseconds, of a time that is not negative.
Millis(d) == d \div Res

BugNextDelay == Millis(Period - age)

\* Time to the next reset: two periods after the last but one.
NextDelay == Millis(2 * Period - age)

----------------------------------------------------------------------------
Init ==
    /\ count = 0 /\ queue = <<>> /\ free = 0
    /\ iter = [f \in Flow |-> FALSE]
    /\ age = 0
    /\ handle = CHOOSE t \in Timer : TRUE
    /\ \E lag \in 0 .. MaxLag :
          left = [t \in Timer |-> IF t = handle THEN Period - lag ELSE Off]
    /\ state = "alive"
    /\ depth = [f \in Flow |-> 0] /\ phase = [f \in Flow |-> "run"]
    /\ before = Period /\ entries = 0

\* sync_handler()
Enter(f) ==
    /\ phase[f] = "run" /\ depth[f] < MaxDepth
    /\ depth' = [depth EXCEPT ![f] = @ + 1]
    /\ phase' = [phase EXCEPT ![f] = "entering"]
    /\ UNCHANGED <<count, lists, clocks, state, entries>>

MayPass == queue = <<>> /\ count < Max

BugStartPeriod == UNCHANGED clocks

\* The first flow after a time without work begins a period.
StartPeriod ==
    IF TimerIsOn THEN UNCHANGED clocks
                 ELSE Arm(Period, left) /\ age' = 0 /\ before' = Period

\* free_list_ after its first node was used, allocated when there was none.
TakeNode == IF free = 0 THEN 0 ELSE free - 1

Passed(f) ==
    /\ MayPass
    /\ count' = count + 1 /\ entries' = entries + 1
    /\ StartPeriod
    /\ phase' = [phase EXCEPT ![f] = "run"]
    /\ UNCHANGED <<lists, depth>>

BugQueued(f) ==
    /\ ~MayPass /\ Len(queue) < QueueMax
    /\ queue' = <<f>> \o queue /\ free' = TakeNode
    /\ iter' = [iter EXCEPT ![f] = TRUE]
    /\ phase' = [phase EXCEPT ![f] = "waiting"]
    /\ UNCHANGED <<count, entries, clocks, depth>>

Queued(f) ==
    /\ ~MayPass /\ Len(queue) < QueueMax
    /\ queue' = Append(queue, f) /\ free' = TakeNode
    /\ iter' = [iter EXCEPT ![f] = TRUE]
    /\ phase' = [phase EXCEPT ![f] = "waiting"]
    /\ UNCHANGED <<count, entries, clocks, depth>>

\* DefenseRejected unwinds the flow to a step that handles it; the unlock()
\* of each level finds no node.
Refused(f) ==
    /\ ~MayPass /\ Len(queue) >= QueueMax
    /\ iter' = [iter EXCEPT ![f] = FALSE]
    /\ \E d \in 0 .. depth[f] - 1 : depth' = [depth EXCEPT ![f] = d]
    /\ phase' = [phase EXCEPT ![f] = "run"]
    /\ UNCHANGED <<count, entries, clocks, queue, free>>

\* lock()
Lock(f) ==
    /\ phase[f] = "entering"
    /\ Passed(f) \/ Queued(f) \/ Refused(f)
    /\ UNCHANGED state

\* unlock(), once or for one level after the other: only a pending flow has a
\* node to give back.
Unlock(f) ==
    IF iter[f]
    THEN /\ queue' = Without(queue, f) /\ free' = free + 1
         /\ iter' = [iter EXCEPT ![f] = FALSE]
    ELSE UNCHANGED lists

\* The innermost sync step ends, or an error in its body unwinds some levels.
Leave(f) ==
    /\ phase[f] = "run" /\ depth[f] > 0
    /\ \E d \in 0 .. depth[f] - 1 : depth' = [depth EXCEPT ![f] = d]
    /\ Unlock(f)
    /\ UNCHANGED <<count, entries, clocks, state, phase>>

\* cancel() of the flow: all its levels are unwound.
Cancel(f) ==
    /\ depth[f] > 0
    /\ depth' = [depth EXCEPT ![f] = 0]
    /\ phase' = [phase EXCEPT ![f] = "run"]
    /\ Unlock(f)
    /\ UNCHANGED <<count, entries, clocks, state>>

----------------------------------------------------------------------------
Least(a, b) == IF a < b THEN a ELSE b

\* How many pending flows the loop of reset_callback() lets pass.
Admitted == Least(Max, Len(queue))

BugKeepAlways(n) == TRUE

\* The timer goes on unless nobody passed.
KeepTimer(n) == n > 0

\* The critical section of reset_callback(), which has armed live[handle'].
Admit(n) ==
    LET first == {queue[i] : i \in 1 .. n} IN
    /\ count' = n /\ entries' = n
    /\ queue' = SubSeq(queue, n + 1, Len(queue)) /\ free' = free + n
    /\ iter' = [f \in Flow |-> iter[f] /\ f \notin first]
    /\ phase' = [f \in Flow |-> IF f \in first THEN "run" ELSE phase[f]]
    /\ UNCHANGED <<depth, state>>

\* reset_callback(), live being the timers that are left.
ResetCallback(live) ==
    \/ \* deferred() ends the program
       /\ NextDelay > 0 /\ NextDelay < MinDelay
       /\ state' = "fatal"
       /\ UNCHANGED <<count, lists, clocks, flows, entries>>
    \/ /\ NextDelay <= 0 \/ NextDelay >= MinDelay
       /\ age' = 0 /\ before' = age
       /\ IF KeepTimer(Admitted)
          THEN Arm(NextDelay * Res, live)
          ELSE left' = live /\ UNCHANGED handle
       /\ Admit(Admitted)

\* The reactor calls a timer that is due; its node is dead from then on.
Fire(t) ==
    /\ left[t] # Off /\ left[t] <= 0
    /\ ResetCallback([left EXCEPT ![t] = Off])

\* reset()
Reset == Resets /\ ResetCallback(Disarmed)

\* shrink_to_fit()
ShrinkToFit ==
    /\ free > 0 /\ free' = 0
    /\ UNCHANGED <<count, queue, iter, clocks, state, flows, entries>>

\* The destructor, when no flow uses the throttle any more.
Destroy ==
    /\ \A f \in Flow : depth[f] = 0
    /\ state' = "destroyed" /\ left' = Disarmed
    /\ UNCHANGED <<count, lists, age, handle, before, flows, entries>>

\* Time passes, unless the reactor would be later with a timer than MaxLate.
\* Beyond two periods an age makes no difference to NextDelay.
Tick ==
    /\ \A t \in Timer : left[t] # Off => left[t] > -MaxLate
    /\ left' = [t \in Timer |-> IF left[t] = Off THEN Off ELSE left[t] - 1]
    /\ age' = Least(age + 1, 2 * Period)
    /\ UNCHANGED <<count, lists, handle, before, state, flows, entries>>

----------------------------------------------------------------------------
FlowStep(f) == Enter(f) \/ Lock(f) \/ Leave(f) \/ Cancel(f)

Next ==
    /\ state = "alive"
    /\ \/ Tick \/ Reset \/ ShrinkToFit \/ Destroy
       \/ \E t \in Timer : Fire(t)
       \/ \E f \in Flow : FlowStep(f)

Spec == Init /\ [][Next]_vars

\* Time passes and the reactor calls the timers that are due.
FairSpec ==
    /\ Spec
    /\ WF_vars(state = "alive" /\ Tick)
    /\ \A t \in Timer : WF_vars(state = "alive" /\ Fire(t))

----------------------------------------------------------------------------
(* Properties *)

\* Type correctness, with a bound on the list and on the lateness.
TypeOK ==
    /\ count \in Nat
    /\ queue \in Seq(Flow) /\ Len(queue) <= QueueMax
    /\ free \in Nat
    /\ iter \in [Flow -> BOOLEAN]
    /\ age \in 0 .. 2 * Period /\ before \in 0 .. 2 * Period
    /\ handle \in Timer
    /\ left \in [Timer -> (-(MaxLate + MaxLag) .. 2 * Period) \cup {Off}]
    /\ state \in {"alive", "fatal", "destroyed"}
    /\ depth \in [Flow -> 0 .. MaxDepth]
    /\ phase \in [Flow -> {"run", "entering", "waiting"}]
    /\ entries \in Nat

\* Whatever order of timer, reset(), restart by lock() and destruction: there
\* is never a live timer that timer_ does not name.  It could not be canceled,
\* would double the rate and would call a destroyed throttle.
OneTimer ==
    \A t \in Timer : left[t] # Off => t = handle /\ state # "destroyed"

\* A throttle that has let a flow pass in this period, or has pending flows,
\* will be reset; and flows are pending only when the period is used up.
PeriodWillEnd ==
    state = "alive" =>
        /\ count > 0 => TimerIsOn
        /\ queue # <<>> => count = Max

\* The queue holds each flow that waits exactly once and nobody else, so that
\* neither an error nor cancel() leaves a dead step for success().
QueueIsWaiters ==
    /\ Elements(queue) = {f \in Flow : phase[f] = "waiting"}
    /\ Distinct(queue)
    /\ \A f \in Flow : iter[f] <=> phase[f] = "waiting"

\* No more than max_ flows pass in a period, and late timers or the cached
\* time do not raise the rate: two consecutive periods, the second ended by
\* the timer, last two periods, less one truncated millisecond and the error
\* of the cached time.
RateKept ==
    [][/\ entries' <= Max
       /\ \A t \in Timer :
             Fire(t) => before + age >= 2 * Period - Res - MaxLag]_vars

Ahead(f) ==
    {queue[i] : i \in {i \in DOMAIN queue :
                          \E j \in DOMAIN queue : i < j /\ queue[j] = f}}

\* Flows pass in the order in which they became pending: nobody gets ahead of
\* a flow that waits, and it does not pass before those ahead of it.
NoOvertaking ==
    [][\A f \in Flow :
          /\ phase[f] = "waiting" /\ phase'[f] = "waiting" =>
                Ahead(f)' \subseteq Ahead(f)
          /\ phase[f] = "waiting" /\ phase'[f] = "run" /\ depth'[f] > 0 =>
                \A g \in Ahead(f) : phase'[g] # "waiting"
          /\ phase[f] = "entering" /\ entries' > entries => queue = <<>>]_vars

\* A pending flow passes some day (or is canceled).
WaitersServed ==
    \A f \in Flow : phase[f] = "waiting" ~>
                        phase[f] # "waiting" \/ state = "fatal"

\* The timer of a throttle that nobody uses stops, so that an external loop
\* sees no more work.
TimerStops ==
    <>[](\A f \in Flow : phase[f] # "entering") =>
        <>[](~TimerIsOn \/ state = "fatal")

\* "Avoid using it for too short delays": the throttle asks deferred() only
\* for delays that it accepts.
DelaysAccepted == state # "fatal"

=============================================================================
