# Verification of core-cpp-ri-asyncsteps

TLA+ specifications, TLC model checking and TLAPS proofs for the reference
implementation of FutoIn AsyncSteps in C++ (`src/`). Paths below are relative to
`src/`; `asynctool.cpp` and `asyncsteps.cpp` are in `src/src/`, the headers in
`src/include/futoin/ri/`.

## 1. The system

| part | state it keeps | operations | talks to |
|---|---|---|---|
| **AsyncTool** (`asynctool.cpp`) - the reactor: one thread, or an external `iterate()` loop | `immed_queue`, `defer_used_heap`, `defer_queue`, `universal_free_heep`; a cookie per node; `canceled_handles`; the SPSC queue `handle_tasks` under `handle_mutex`; the cached time; `is_shutdown` | `immediate()`, `deferred()`, `cancel()`, `is_valid()`, `release_memory()`, `iterate()`, the thread function `process()`, the destructor | foreign threads hand it tasks and wait for a promise; it calls callbacks |
| **AsyncSteps** (`asyncsteps.cpp`) - the step engine of one flow | the deque `queue_` of all live steps, `stack_top_`, per step sub-queue indices, handlers, a timer, a count of `stack()` objects; `error_code_`, `exec_handle_`, `in_exec_` | `add()`, `loop()`, `await()`, `execute()`, `cancel()`; inside steps `success()`, `error()`, `setTimeout()`, `setCancel()`, `waitExternal()`, `stack()` | its reactor runs bursts and timers; other threads call `success()` and `error()` |
| **parallel()** (`ParallelStep`, `launch_parallel()`) | a list of sub-flows, a completion count | sub-step completion and error, the final call, cancel | several engines on one reactor |
| **sync()** (`sync_*_handler`) | the synchronization object of the step | three sub-steps: lock, body, unlock; on_cancel unlocks | Mutex, Throttle, Limiter |
| **Mutex** (`mutex.hpp`) | `locked_list_`, `queue_`, `free_list_`, a per-flow iterator and recursion count, an OS mutex | `lock()`, `unlock()`, `shrink_to_fit()` | flows, by `waitExternal()` and `success()` |
| **Throttle** (`throttle.hpp`) | a count per period, `queue_`, a reactor timer | `lock()`, `unlock()`, `reset()`, `reset_callback()` | flows and the reactor |
| **Limiter** (`limiter.hpp`) | a Mutex and a Throttle | `lock()` as two sub-steps, `unlock()` | both |
| **NitroSteps** (`nitrosteps.hpp`) | fixed buffers: a ring of steps, stacks of timeouts, cancels and objects, a list of extended states | as AsyncSteps | as AsyncSteps |
| **memory pools** (`mempool.hpp`) | pools by size, created on demand | `allocate()`, `mem_pool()`, `release_memory()` | everything |
| **binary API** (`binaryapi.cpp`) | C structures that forward | C ABI of tool and steps | everything |

What is hard in each, and what makes it correct:

* *Reactor.* Several threads, one of which sleeps: no wake-up may be lost and
  the destructor must end the sleep. Nodes are reused while handles to them
  live on: the cookie must tell calls apart. Bursts, range splices and a lazy
  compaction of canceled timers must neither lose nor double a call.
* *Step engine.* A tree of steps stored in one deque by index; success and error
  walk it from the leaf to the root, destroy levels and move indices, while
  timers and other threads hold pointers to steps. A flow must run each handler
  in order, never rest without a reason, and never leave a timer or an object behind.
* *NitroSteps.* The same contract over a ring of slots that are reused without
  being cleared and over stacks from which a step pops by its own flags.
* *parallel().* The end of the step hangs on a count; failure, completion and
  cancel of several flows come in any order, and exactly one end must follow.
* *Mutex.* A counted recursive lock between flows, whose release runs from three
  places (normal end, error, cancel), with hand-over to other reactors under an
  OS mutex: exclusion, order, cleanup, absence of deadlock.
* *Throttle and Limiter.* A period timer that corrects its own lateness, stops when
  idle and may ask for less than the minimum delay of the reactor; two locks taken
  in two sub-steps and released together.

`PROJECT.json` lists every hazard at the line where it bites and the property
that covers it.

## 2. Modules

| module | models | proved about in |
|---|---|---|
| `AsyncTool` | the reactor, handles, foreign calls, destruction | `AsyncToolProofs` |
| `AsyncSteps` | the step engine of one flow | `StepsProofs`, `ListProofs` |
| `NitroSteps` | the fixed-buffer engine of one flow, with its `sync()` steps | `NitroProofs`, `NitroFlowProofs`, `ListProofs` |
| `ForkJoin` | abstract specification: what `parallel()` promises | `ParallelProofs` |
| `Parallel` | `parallel()` of both engines | `ParallelProofs` |
| `Semaphore` | abstract specification: an ordered, bounded counting semaphore | `MutexProofs` |
| `Mutex` | `BaseMutex` and the sync steps of its flows | `MutexProofs` |
| `Throttle` | `BaseThrottle`, its timer and the sync steps of its flows | `ThrottleProofs` |
| `Limiter` | `BaseLimiter`: `Mutex` and the periods of `Throttle` composed | `MutexProofs` |
| `Lists` | lists without duplicates: of nodes, of steps, of pending flows | `ListProofs` |
| `MC...` | symmetry, views and constants for TLC | |

The names of variables and actions follow the code. Operators whose names begin
with `Bug` are wrong variants used to show that a property can fail; no
specification uses them. A constant `Allow` or `Mixes` says what client code
does: the runs admit what the API documents, and further values reach states that
the library does not handle (see *Hazards outside the passing runs*).

### AsyncTool

A `Call` is one `immediate()`/`deferred()` request, a `Node` the memory of a
`UniversalHandle`. One action is one indivisible piece of the reactor thread:
`BeginPass` (`forget_now`), then per immediate `RunImmediate`/`ReturnImmediate`
or `SkipImmediate`, `EndImmediates` (the splice), the same for deferred calls,
`EndDeferred` (with the compaction), one `ReactorTask` per request, and `EndPass`
or, with an external loop, `EndIterate`. A callback is on the stack between Run
and Return, where `UserStep` lets it issue and cancel calls. Foreign threads
interleave with all this: `ForeignCall` builds a request (for `cancel()` after the
unlocked comparison of cookies), `AddHandleTask` is the critical section of
`add_handle_task()`, and the thread waits until `RunTask` has served it. `Sleep`
is the second look under `handle_mutex` with the atomic release by the condition
variable, `Wake` its notification or time-out, `SpuriousWake` what the standard
allows. The destructor is five steps on a thread of its own. `is_shutdown` is a
relaxed load (`ShutdownReads`): it may return the old value until the destructor
has taken `handle_mutex`.

Time is discrete; `clock` advances by `Tick` at any moment, `last_now` is the
cache. `status`, `due`, `epoch` and `handles` are history or the client's.

### AsyncSteps

A `Step` is the memory of one `ProtectorData`. The walk of
`handle_success_sync()` and of `handle_error_sync()` up the tree is one action per
level (`Climb`, `ClimbRoot`; `Unwind`, `UnwindRoot`), called either from a burst
(`in_exec`) or from outside. `RunStep` is one round of `execute_handler()`: the
next handler allocates with `stack()`, adds sub-steps, asks to wait, sets a timeout and
ends by returning, by `success()` or by an error, in every combination that the mix
admits. Loops carry their `continue_loop`; break and continue are error codes that
the built-in handler of a loop turns into success (`LoopAfter`), or not when the
label is another's. `await()` is a step that repeats (`poll`) until the awaited flow
is done, or fails. A call of another thread is checked there (`ForeignCall`) and
executed by a reactor task (`ForeignTask`). `allocs` is the vector of objects of
`stack()`, from which a step that ends pops as many as it counts; the owner of each
is history. A violated `on_invalid_call()` check sets `fatal` and stops the model.

A mix is chosen at the beginning (`allow`) and says what the client code of that
flow does; several small mixes in one run reach depth where one large mix does not.

### NitroSteps

The data members of the instance are one record, `ns`, which the private methods
(`FreeStep`, `SubQueueFree`, `ShiftSub`, `PopTimeout` ...) map to a new one, as the code
composes them. Slots are reused as `alloc_step()` leaves them: flags and parent
are reset, indices are not. Timeouts, on_cancel handlers, objects and extended states
are the four resources of fixed size; entries carry the step they belong to as
history. `execute()` overwrites `exec_handle_`, so the calls the reactor still has to
make are counted in `runs`.

An action is one call of user code, or what the engine does between two of them.
`RunStep` calls the next handler: of a built-in step (`loop`, `await`, `sync`, `lock`,
`unlock`) it is one action, of user code it begins `pc = "handler"`, where the handler
calls `Add`, `Wait`, `SetTimeout` and `Stack` until `EndHandler`. The loops of
`handle_success_sync()`, of `handle_error_unwind()` and of `cancel()` are one action per
level (`Climb`, `ClimbRoot`; `Unwind`, `UnwindRoot`; `CancelLevel`, `CancelEnd`); an on_error
handler is the state `pc = "on_error"` between `Unwind` and `EndOnError`.

`sync()` is modelled with its object: `held` and `pending` stand for the lock that
`Mutex` and `Throttle` model in full, `Unlock` for `ISync::unlock()`. The object lets
the flow in, makes it wait or refuses it. Client code keeps to the limits (`Fits`), as the
code ends the program at each: with each `sync()` it keeps three slots free for its
sub-steps, and an on_cancel handler; and it adds no loop, `sync()` or `await()` when every
extended state is in use.

A mix says what client code does, how many slots its steps take and how many extended
states it has in use at a time. `alloc_step()` (1313) accepts as many steps as the ring has
slots, as the test `add_rotate` (tests/nitrosteps.test.cpp:101) uses them, and so does the
model; but where the steps of a mix may fill the ring, they have no on_error handlers
(`OnErrors`), for the reason below under `full_error`. `lost` is history: the extended states of
steps that `sub_queue_free()` or `reset_queue()` drops before they have run. Nothing
frees these: they stay in use, and a later `alloc_extended()` that finds no other ends the
program although the client has kept to its limit. In the model `Fits` counts them as
used, so it does not add the step that would.

### Parallel and ForkJoin

An item is abstracted to what its engine reports - it is scheduled, waits, ends,
fails - because `AsyncSteps` and `NitroSteps` model how it gets there. What remains is
the count, the cancellation of the others, the error code kept for the root flow,
and the final call, which is an immediate of its own. The variable `engine` selects
the differences of the two implementations: when `error_code_cache_` is cleared,
who schedules what on_error adds, and what `cancel()` does with the items after a
failure. `ForkJoin` knows only which branches are working and the result.

### Mutex and Semaphore

`lock()` and `unlock()` are each split where the OS mutex is taken: the prefix that
reads the flow's own iterator and count (`Lock`, `Unlock`), then the critical
section. The loop of `unlock()` that hands places to pending flows is one action
per round (`Grant`); for a flow of another reactor `success()` blocks the caller
(`phase = "calling"`) until that reactor executes the task (`Answer`), and the OS
mutex stays taken. A flow is a stack of `depth` sync steps; `Fail` and `Cancel`
unwind it, one `unlock()` per level. `Semaphore` states what README.md:161-165
promises; `Mutex` implements it with `holders <- locked, waiting <- queue`.

### Throttle

`lock()`, `unlock()` and the levels of a flow are as in `Mutex`, but for the flows
of the throttle's own reactor only, so that each handler is one action and what
remains hard is time. A tick is a fraction of a millisecond (`Res` ticks each):
`deferred()` gets whole milliseconds and the rest is cut off. `age` is
`now - last_reset_`, no longer counted beyond two periods, where the next delay is
zero; `left[t]` is the time until timer node `t` is due, negative when the reactor is
late (by `MaxLate` at most), and a timer is armed from a cached time that is up to
`MaxLag` old. `Fire` and `Reset` are `reset_callback()` called by the timer and by
`reset()`; `lock()` starts the timer of an idle throttle (`StartPeriod`). A delay that
`deferred()` refuses sets `state = "fatal"` and stops the model.

`entries` and `before` are history: the flows that passed in this period, and the
length of the period before it. `RateKept` says that the correction in
`reset_callback()` holds two consecutive periods together at two period lengths,
less the error of one delay, however late each of them was.

### Limiter

`Limiter` extends `Mutex` and takes its actions one by one: `lock()` is a sub-step that
is `Lock`/`LockSection` of the mutex and a second one, `ThrottleLock`, that passes,
queues or refuses. `ahead` holds the flows between the two. Of the throttle what
`Throttle` shows is kept: `Rate` flows per period, the others in order, and a timer
that ends a period in which a flow has passed (`NextPeriod`).

## 3. Runs

| run | checks | shows |
|---|---|---|
| `AsyncToolExternal` | `HandleIdentity`, `PendingIsQueued`, `ExternalLoopMayWait`, `NodeOwnership`, `CancelAccounting`, `NotEarly` | an external loop with two foreign threads, time, memory release, destruction and a cookie that wraps after two values |
| `AsyncToolFair` | `NoLostWakeup`, `RequestsReturn`, `ShutdownJoins` | endless immediates starve neither requests nor the destructor |
| `AsyncToolLive` | `CallsComplete` | calls complete; a deferred call relies on the timed wait |
| `StepsCore` | `DequeIsTree`, `NoStall`, `ResourcesFollowPath`, `NoStaleError`, `NoInvalidCall`, `RunsInOrder` | the engine with loops, await, waits, timeouts, objects, errors, cancel |
| `StepsLive` | `FlowEnds`, `BurstEnds` | with `success()` and `error()` from another thread, under fairness |
| `NitroCore` | `RingIsTree`, `OneReasonToGoOn`, `ResourcesFollowPath`, `LocksAreReturned`, `RunsInOrder` | the fixed-buffer engine in a ring that wraps and fills up |
| `ParallelItems` | `FinalCallIsDue`, `NoOrphans`, `ImplementsForkJoin`, `ParallelEnds` | three items that wait, end and fail in every order, both engines |
| `MutexShared` | `MutualExclusion`, `CountIsDepth`, `NothingLeftBehind`, `NoIdleRoom`, `RefusedWhenFull`, `OrderedAdmission` | five flows on two reactors, nested, failing and canceled, two of them pending together |
| `LimiterEntry` | `PlacesAreHeld`, `FairAdmission`, `EntrySettles` | three flows of one reactor: neither lock is lost or leaked and nobody starves |
| `MutexReactors` | `MutexReturned` | **violated**: finding 1 |
| `ThrottlePeriods` | `RateKept`, `NoOvertaking`, `WaitersServed`, `TimerStops` | three flows of which one passes per period, nested, failing, canceled and refused, with `reset()` and a late timer |
| `ThrottleDrift` | `DelaysAccepted` | **violated**: finding 2 |

The type invariants are the first conjuncts of `NodeOwnership`, `DequeIsTree` and
`RingIsTree`. They are proved in all modules, as are the structural
invariants of the throttle (`OneTimer`, `PeriodWillEnd`, `QueueIsWaiters`).

### Findings

1. `unlock()` (mutex.hpp:135) waits for another reactor inside the OS mutex. If
   that reactor's thread is about to take the same OS mutex, both wait for ever.
2. `reset_callback()` (throttle.hpp:151) asks for the time that is left until two
   periods after the reset before. The even and the odd resets of a busy throttle
   are thus two series, each with its own lateness; what separates them drifts, and
   when it is less than 100 ms `deferred()` ends the program (asynctool.cpp:483-488).
   A `reset()` shortly after a reset, or a reactor later than the period less
   100 ms, does it in one step.

### Hazards outside the passing runs

Client behaviour that the library accepts and does not handle. With the feature
named here added to a mix (or to `Allow`), TLC finds the property in brackets violated.

`AsyncSteps`:

* `outer_timeout` - `setTimeout()` in a step that adds sub-steps ends the program
  when it fires: the step is then not on top of the stack and `sanity_check()`
  (asyncsteps.cpp:339) refuses the call (`NoInvalidCall`, `ResourcesFollowPath`).
* `loop_wait` - a loop body that waited once keeps its `on_cancel_`, so a later
  iteration that returns normally waits for nobody (`NoStall`).
* `outer_stack` - `stack()` of an outer step or of the instance inside a handler is
  counted there, so the end of an inner step frees the wrong objects
  (`ResourcesFollowPath`, needs `MaxAllocs = 2`).
* `late_override` - `error()` in an on_error handler started by a timer unwinds
  recursively under the running loop, a use after destruction (`NoInvalidCall`).
* `foreign` with `timeout`, `cancel` or `reuse` - a late `success()` of another thread
  meets a step that has timed out or was canceled, or another one in its memory
  (`NoInvalidCall`).
* `reuse` - the code of an unhandled error is still there when the instance is
  executed again (`NoStaleError`).

`NitroSteps`, where the same questions have their own answers:

* `late_steps` - sub-steps added by an on_error handler that a timer or an event
  started are executed by nobody (nitrosteps.hpp:1103; `OneReasonToGoOn`, and
  `ParallelEnds` in `Parallel`).
* `late_override` - `error()` in an on_error handler that a timer or an event started
  unwinds twice (1108; `OneReasonToGoOn`).
* `early_timeout` - the timer of an outer step fires while the flow is not waiting and
  fails whichever step is innermost (1243); when that is the parent of a loop between two
  iterations, the loop is dropped without being freed and its objects and extended
  state stay where they are (1344; `ResourcesFollowPath`). In the checked mixes a timer fires
  only while the flow waits.
* `cancel_loop` - `cancel()` between two iterations of a loop does not free the loop
  step, which is not counted as running (`ResourcesFollowPath`).
* `full_error` - an error in the innermost step of a full ring, of whatever size, that an
  on_error handler recovers. Such a step starts its sub-steps at `queue_end()`, which is
  `queue_begin_` in a full ring, so `sub_queue_free()` (1263-1268) makes `queue_size_` zero;
  when the root step then ends, `cond_queue_shift()` (1292) makes it 255
  (`RingIsTree`). A break out of a loop does the same: the mix `Mix({"loop"}, 6, 1)`. When
  nobody handles the error the queue is reset anyway; until then the size is wrong, which
  `ResourcesFollowPath` and `LocksAreReturned` allow for (`SizeIsLost`).
* `sync()` beside another extended state. `sync_lock_handler` and `sync_unlock_handler`
  find the object by the state that their own slot names (206-222, 1306), not by that of
  the sync step, and a slot names what its last user left there. With two extended
  states in use and two objects, a `sync()` inside the body of another locks the
  wrong object (`LocksAreReturned`; the mix `NestedMixes` of `MCNitroSteps`, with ten
  slots), and a `sync()` inside a `loop()` may find none, where the program ends on a null
  pointer (`OneReasonToGoOn`; `Mix({"loop", "sync"}, 5, 2)`). With the one state that the
  mixes with `sync()` allow at a time, every slot names it. What `LocksAreReturned`
  shows is thus that two objects used one after the other are each unlocked
  when and only when they should be; not that the right one is found among several.
* Three features break no property of `NitroCore`, but are not what the client means:
  `loop_wait` - a loop body that waited once keeps its flags, so a later iteration that
  returns normally waits for an event nobody was asked for (`OneReasonToGoOn` takes the flags
  for the wish); `leftover` - `sync()` and `await()` take a slot with the on_error handler of
  its last user; `reuse` - the code of an unhandled error makes the first step of the
  next execution fail. And `success()` from another thread names no step (992-1003);
  whatever waits by then succeeds.
* Extended states of dropped steps (above, *NitroSteps*): a handler that adds a loop and
  fails, or `cancel()` before the loop has run, takes one of `MaxExtended` away for good. This
  happens in `NitroCore`, and `ResourcesFollowPath` says that these are all that get lost.

`Parallel`: `reuse` - the final call of a NitroSteps that was left with an error code
takes success for failure; `empty` - a parallel step without items waits for ever
(`ParallelEnds`). A timeout around a running NitroSteps `parallel()` leaves the items
to a later `cancel_parallel()` (nitrosteps.hpp:248-256).

`AsyncTool`: `~Impl()` (asynctool.cpp:305) serves the requests left in
`handle_tasks` after the reactor thread was joined. All but `cancel()` ask
`is_same_thread()` again, get *false*, queue themselves once more and wait for a
thread that is gone: `DrainStuck` leads to `dtor = "stuck"`. `ShutdownJoins` is
about the join before that, and `RequestsReturn` about a tool that is not destroyed.

`Limiter`: the defaults of `Params` are `max_queue{0}` and `burst{0}` (limiter.hpp), so
that nobody waits; README.md:242-247 speaks of an infinite wait queue.

### Bounds

* Reactor: `Burst = 1` and `TaskCapacity = 1` make every list longer than one exceed the
  burst and every second request meet a full queue; the code's values (the
  constants 100-fold larger) add no new order of events. Two calls and two nodes:
  reuse of a node, ties in the heap, a canceled and a live node in each list, and
  compaction (more than half of the heap dead) occur. A listed node holds a call of
  its own, so nodes never run out (`EnoughNodes`). `CookieMod = 3` leaves the cookies
  1 and 2: the counter wraps inside the run; `16` is never reached where wrapping
  is not the question. `MaxClock` bounds idle ticks only; towards a deadline the
  clock goes on.
* AsyncSteps: four steps, `MaxSub = 2`: three levels, or two siblings with sub-steps,
  and a level replaced by on_error. Memory of a destroyed step is reused at once.
  `BurstSize = 2` ends bursts between any two steps. One object of `stack()` at a time:
  it is freed too early, too late or not at all if a level is miscounted. The mixes
  are {loop, wait, timeout, cancel, await}, {loop, wait, stack, cancel} and
  {await, wait, foreign}; the liveness run has three steps.
* NitroSteps: a ring of six slots, two timeouts, two cancels, two objects on the
  stack, two extended states, two objects for `sync()` (interchangeable, so symmetric). Each
  mix is small, and together they cover what comes together:
  {wait, foreign, cancel}, {loop, foreign, timeout} and {stack, timeout, cancel} with three
  slots and one extended state; {loop, stack} and {loop, await, cancel} with three slots and
  two extended states, so that a nested loop has the second, and objects of two levels
  are on the stack; {sync, timeout} with four slots, which is what a `sync()` step and its
  three sub-steps need, {sync} with five: a step before the `sync()` lets a burst end between
  `sync()` and its lock; {sync, cancel} and {timeout} with six, where the ring is full. As steps end
  at its beginning and are added at its end, the ring wraps in all of them.
  2.2 million states.
* Parallel: three items and two codes: one that fails, one that has ended and one
  that still works.
* Mutex: five flows, two places, two queue places, depth 2: full lock with a full
  queue, two flows whose order in the queue matters, refused flows, a pending flow
  that is canceled in front of or behind the other, and grants across
  reactors. Four of the flows are of one reactor and interchangeable. On two reactors a holder of the OS mutex and a blocked reactor meet.
* Throttle: a period of four ticks of half a millisecond, lateness and cached time
  off by one tick each: a delay can be cut off, early, late and zero. `ThrottlePeriods`
  is about what the correction achieves, so its `MinDelay` of one millisecond admits
  every delay but zero, which the code runs at once; `ThrottleDrift` has a minimum that
  can be undercut. Two timer nodes let a second timer appear if one could; three
  flows with one pass and two queue places give an overtaker, a queue of two and,
  nested twice, refusals inside a sync step.
* Limiter: three flows, two places, one queue place in each lock, one entry per
  period, no nesting: one flow inside, one pending in the throttle, one pending in
  or refused by the mutex. The proofs cover nesting.
* Symmetry is used with invariants and action properties only, never with
  liveness. `LiveView` drops variables that no later step or property reads.
* `CHECK_DEADLOCK FALSE` appears where the system may stop: every call used up
  or the tool destroyed, every step's memory in use, a program ended by a failed
  check, every flow in the state that finding 1 reports.

### Fairness

* Reactor: weak fairness of the pass, sleep, wake, exit and destructor steps and
  of time - a thread that can run runs, callbacks return. Clients need not call
  anything; a caller may lose the race for a full queue for ever, as the code
  spins without a ticket. An external loop iterates when it was poked or its delay
  has passed, as README.md:94-120 asks.
* Engine: weak fairness of the reactor's work for the flow, and of the event that
  ends a wait: a client that calls `waitExternal()` answers it. For `NitroSteps` there is
  no liveness run: the state space with fairness is out of TLC's reach, and
  `OneReasonToGoOn` says instead that a flow at rest always has one scheduled
  burst or one expected event.
* Parallel: weak fairness of the reactor's calls, and strong fairness of the end of
  each item: an item that is served again and again ends some day.
* Mutex (`FairSpec`, of `MutexReactors`): weak fairness of a handler that has begun;
  strong fairness of `Lock`, `Answer` and of leaving the outermost sync step, since a
  reactor serves its flows in turn and each is enabled only while the reactor is
  between handlers. Limiter: the same, and of its timer.
* Throttle: weak fairness of time and of the call of a due timer, nothing of the
  flows: whoever is pending passes although others come and go as they like.

## 4. Proofs

`AsyncToolProofs`: `ReactorNeverMissesWork == Spec => []NoLostWakeup` for any sets
of threads, calls and nodes and any burst, capacity, cookie width and delays. The
inductive invariant says what the reactor knows in each place: asleep and not yet
notified, the queues are empty and the destructor has not poked; only the thread
itself changes `immed`, and whoever appends a task or pokes finds `pc = "asleep"`
and sets `notified`. It needs the range of `pc` and of `dtor`, and nothing about
cookies or time.

The second part of `AsyncToolProofs` holds for any nodes, calls, threads, bursts and delays, under
`ToolAssumption` and `EnoughNodes` (no fewer nodes than calls, as the code allocates
more when it runs out). `NodeOwnership`,
`PendingIsQueued` and `CancelAccounting` are not inductive one by one. The invariant
`NodeInv` joins them: the lists share no node (`Apart`); where the reactor stands in
its lists and which node it runs, and that the deferred node that runs stays on top
of the queue, because what its callback schedules is due after the cached time
(`Placed`, `Times`); and that a node is live exactly while it holds a pending call of
its own (`LiveHoldCalls`). `TaskInv` adds what a request of another thread still means
when the reactor serves it. `HandlesAreExact` needs more: which cookies were handed
out for which call. It holds while fewer calls are made than there are cookies
(`NoWrap`); with a wrap only the other half holds, that a pending call can
still be canceled (`PendingMayBeCanceled`). The run `AsyncToolExternal` has a cookie
that wraps and two calls, which are too few to meet an old handle's cookie again.

`MutexProofs` holds for any number of flows, reactors, places and nested steps,
under `MutexAssumption` (finitely many flows, each with a reactor). The lists are
bounded by the code's own comparisons; what could break exclusion is an `unlock()`
too many, which would take the node of a flow that still runs protected code. So
the invariant `MutexInv` says, for each flow and in each phase of it, whether its
node is in `locked_list_` and with which count, in `queue_`, or absent (`Placed`,
by mode: normal, failing, canceled), that no flow is listed twice (`NoTwice`), that a
reactor runs one handler and mutex_ has one holder (`Alone`), and that the flow
whose `success()` is awaited still has its place (`Callee`). The steps fall in two
classes, with a lemma each that carries over what they cannot disturb: those that
leave both lists alone (`LocalStep`) and the critical sections (`SectionStep`);
`Grant`, `Answer` and `GrantEnd` are proved one conjunct at a time. From it:
`AtMostMaxInside`, `RecursionIsCounted`, `FlowsLeaveNothing`, `RoomIsUsed`,
`RefusalsAreDue`, `TypeCorrect`, and `IsSemaphore`: every step of the mutex is a
step of `Semaphore` or leaves the lists alone.

The second part of `MutexProofs` composes them in the limiter, for any rate, burst,
number of places and flows of one reactor. `LimiterIsMutex == LSpec => Spec`: every step of the limiter is a step of its
mutex or leaves the mutex alone - a refusal by the throttle is to the mutex an
error in the body of the sync step, which needs that a flow ahead of the throttle is
inside a sync step (`AheadAreInside`). All that is shown of the mutex therefore holds of
the limiter (`LimiterExcludes`), and `PlacesAreKept` follows from `PendingHold`.

`ThrottleProofs` holds for every limit, period, resolution and lateness, under
`ThrottleAssumption` (a limit of at least one, a period that `deferred()` accepts).
`RateIsKept` needs `Schedule`: while a timer runs, the length of the last period, the
age of this one and what is left of the timer add up to two periods, less one
millisecond and one error of the cached time; `Tick` moves time from one summand to
another and `reset_callback()` makes up for what it finds. That no second timer
runs (`NeverTwoTimers`) is needed for it, and makes arming safe (`Armed`). The lists
(`QueueListsWaiters`) and the clocks are disjoint but for `PeriodsEnd`: pending flows
mean a full period, and a full period a running timer. `NobodyOvertakes` follows from
what each operation does to the order of `queue_`: nobody gets ahead of a flow that
waits, and whoever is admitted was at the front. `ListProofs` holds the facts about lists without duplicates
that the proofs cite.

`ParallelProofs` holds for any items and codes and for both engines, under
`Disciplined`: no reuse of a failed NitroSteps and at least one item. The invariant
relates the count of completed items to the items that have ended and the final
call to both: while the step waits, one call is due exactly when no item works
(`FinalCallAlwaysDue`). `NeverOrphans` and `Implementation` (the refinement of
`ForkJoin`, step by step) follow from it.

The second half of `ListProofs` is about a queue `q` of steps, records `f` of their
parents and indices and the innermost running step `tip`, of whatever kind: what makes
them a tree (`Tree`), and that starting, adding, shifting, dropping and emptying a level
keep it. Both engines use it.

`StepsProofs` holds for any steps, timers, burst size and limits and any set of
mixes, with a hypothesis on the mixes where a property depends on what client code does.

* `TreeInv` (`TreeAlways`) is about the deque in every state, also between two levels of a
  walk, when `DequeIsTree` alone says nothing of the innermost step. One handler, which
  allocates, adds, sets marks and schedules, is taken apart into several changes of a
  tree: a level is a run of the deque (`Levels`), the innermost one its end (`EndIsTip`),
  every other one points to a running step (`FrontsRun`), and what has run is before
  what has not (`Order`). `Walk` says where the engine is: what a burst will run is there
  (`Ready`), climbing comes from a step that has run (`Climbing`), unwinding has an error
  code (`Unwinding`). `QueueIsTree`, `TypesAreKept` and `HandlersRunInOrder` follow
  without a hypothesis.
* `NoCodeIsLeft`: an error code outlives a walk only with an empty queue, so a
  flow that is not executed again (`reuse`) never finds one.
* `FlowsDoNotStall`: a step that has not run asked for nothing (`Untouched`), a loop does not
  wait itself (`Unheld`), a timer is pending only for the innermost step of a flow at rest
  (`Quiet`), and a walk inside a burst returns to it (`Scheduled`). The hypothesis
  excludes `outer_timeout` and `loop_wait`.
* `CallsAreValid`: a call of another thread meets the step it was checked for, because a
  flow with an open request rests (`Orderly`). The hypothesis `Contract` excludes
  `outer_timeout`, `late_override` and calls of other threads together with timeouts,
  `cancel()` or reuse.
* `ResourcesGoWithSteps`: the objects are in the order of their owners in the deque
  (`Owned`), so what a dropped level pops from the end is its own. That the number popped
  is the number owned is shown by a bijection between what remains and what is counted.
  The hypothesis excludes `outer_timeout` and `outer_stack`.

The excluded features are those under *Hazards outside the passing runs*: there TLC
shows that the property fails, so the hypotheses are needed. The mixes of `StepsCore`
satisfy all of them. Where a proof needs a counting argument by induction it takes the
least element of a set of numbers instead, as the induction theorems are out of reach.

`NitroProofs` (the tree and what follows from it) and `NitroFlowProofs` (resources, and
that the flow goes on) hold for buffers of any size, any objects and any mixes of client
code, under `Roomy`: a mix leaves one slot of the ring free. This is a condition on the
client, not something the code sees to: `alloc_step()` accepts as many steps as there are
slots. In a full ring `queue_end()` is `queue_begin_`, the distances that the invariant is
about are those of an empty ring, and under `full_error` the properties fail. The full ring
is therefore model-checked only, in the two mixes of `NitroCore` that fill it; the other
seven satisfy `Roomy`.

* `TreeInv` reads the ring from its beginning: `Ring` is the list of its slots, `Marks` their
  indices as distances from `begin`, and these are a `Tree` in every state, with the
  step on which a walk stands as innermost one. For each private method a lemma
  says what it does to ring and marks, and the tree lemmas do the rest. While
  `cancel()` walks up it leaves the queue alone, so there the tree is a part of the ring
  (`TreeThere`). What has been promised to the `sync()` steps that have not run is
  part of the invariant (`Sound`): without it their three slots would not be there.
* From it: `NitroTypes` (no buffer is overrun), `NitroRing` (`RingIsTree`) and `NitroOrder`
  (`RunsInOrder`).
* `NitroResources` (`ResourcesFollowPath`). A slot knows by its flags how many entries it
  has on the three stacks, not which: what it pops is its own only if nobody
  has pushed above it. `Kept` says so of one stack: its owners are in the order of the ring,
  each as often as its slot says; `Popped` and `Pushed` keep it for the last owner
  (`LastOwner`). Who that may be depends on where the engine is (`Res`): between
  two handlers the owners run, or are a loop that is next (`Between`); in a handler
  they run (`Innermost`), so the innermost step is last; a walk up owns through the step
  it has just left (`Leaving`); and `cancel()` has the running steps of the part of
  the ring it has not yet walked (`Canceling`). Running steps lie before the sub-steps
  that `sub_queue_free()` drops, so what is dropped owns nothing on the stacks (`CutWhole`);
  what it has is at most an extended state, which `lost` then names. An extended state is a
  resource of its step from when it runs (`Claims`); that those in use are what the steps
  in the ring and `lost` have, no two the same, is `ExtendedApart`. The hypothesis
  `Disciplined` excludes `early_timeout` and `cancel_loop`; TLC shows each of them to break
  the property. All mixes of `NitroCore` satisfy it.
* `NitroGoesOn` (`OneReasonToGoOn`). A flow is `Ahead` when its next step is there to be
  executed, and `Halted` when its innermost step has asked for an event or the event is
  on its way from another thread. The invariant (`Reasons`) says which of the two holds
  at each place of the engine: between two handlers of a burst `sched` decides; at rest a
  call of `handle_execute()` is under way exactly when the flow is ahead; and while user
  code runs or the engine walks up no call is, so that none is made twice. A handler
  that is left makes the flow ahead by what the walk up finds: the next sub-step of some
  level, or the end of the flow. That nothing ends the program needs the two
  invariants before (no buffer overruns, each stack pops its own entry), the contract of
  `success()` and `error()`, and `Objects`: where mixes use `sync()`, every slot names the first
  extended state, and while a `sync()` step, its lock and unlock steps or an on_cancel
  handler that unlocks are there, that state has an object. It assumes `Roomy` and
  `Disciplined` as well as two more: `Prompt`, that no on_error handler started by an event
  adds steps or calls `error()`, and `OneState`, that a client that uses `sync()` has one
  extended state in use at a time, however many there are. Without
  either TLC shows the property to fail, see above. The mixes of `NitroCore` satisfy all
  but `Roomy`, see there.

Model-checked only: all liveness (fairness and ENABLED are out of the prover's
reach), and of `NitroSteps` the invariant `LocksAreReturned` and all that concerns a full
ring.

## 5. Not modelled

* *Memory pools* (`mempool.hpp`). That two objects never share memory is what the sets
  `Node` and `Step` express. What else could go wrong is the pool pointer that
  `mem_pool()` tests without the lock (mempool.hpp:153): a data race on a plain
  pointer, whose outcomes are a matter of the processor and the compiler.
* *Binary API* (`binaryapi.cpp`). It forwards one call to one call of the engine or
  of the reactor and keeps no state between calls; what a C callback needs is freed by
  a second scheduled call, after the first by the order of the reactor's queues.
* Contents of callbacks and of `state()`, arguments passed between steps, messages;
  allocation failure; `stats()`; lifetime of objects within one C++ expression.
* `Throttle` with flows of other reactors, where `mutex_` is held over `success()` and
  `deferred()`; `Limiter` on several reactors. What `Mutex` shows of `success()` under an
  OS mutex (finding 1) applies to both.

Further work: `LocksAreReturned` of `NitroSteps` as a theorem, on top of its tree and its
resources; the tree of a full ring; `Throttle` across reactors.
