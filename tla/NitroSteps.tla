----------------------------- MODULE NitroSteps -----------------------------
(***************************************************************************)
(* The step engine of include/futoin/ri/nitrosteps.hpp: the contract of    *)
(* AsyncSteps in buffers of fixed size.  Steps are slots of a ring;        *)
(* timeouts, on_cancel handlers and stack allocations are stacks of their  *)
(* own, in which a step owns as many top entries as its flags say; what    *)
(* loop(), sync() and await() need is in a list of extended states.        *)
(*                                                                         *)
(* An operator that takes q, the members of the instance, and returns them *)
(* changed is a private method; an action is one call of user code, or what *)
(* the reactor runs between two of them, a loop by its rounds.  parallel() *)
(* is in module Parallel.                                                  *)
(***************************************************************************)
EXTENDS Integers, Sequences, FiniteSets

CONSTANTS
    MaxSteps, MaxTimeouts, MaxCancels, MaxExtended, MaxStackAllocs,
    BurstSize,
    Object,     \* what sync() is called with
    None,
    MaxSub,     \* most steps one handler adds
    Mixes       \* sets of what user code may do, and the limits it keeps to

(* "loop", "sync", "await", "stack", "timeout", "cancel"                    *)
(* "wait"       setCancel() or waitExternal(), then an event                *)
(* "foreign"    success() from another thread                               *)
(* "leftover"   sync() or await() in a slot whose last user had on_error    *)
(* "loop_wait"  a loop body that waits in the loop step itself              *)
(* "late_steps" an on_error handler run by an event adds steps              *)
(* "late_override" ... or calls error()                                     *)
(* "early_timeout" a timeout fires although the flow is not waiting         *)
(* "cancel_loop"   cancel() between two iterations of a loop                *)
(* "full_error" on_error handlers where the steps may fill the ring         *)
(* "reuse"      execute() after an unhandled error                          *)
Features == {"loop", "sync", "await", "stack", "timeout", "cancel", "wait",
             "foreign", "leftover", "loop_wait", "late_steps",
             "late_override", "early_timeout", "cancel_loop", "full_error",
             "reuse"}

ASSUME NitroAssumption ==
    /\ {MaxSteps, MaxExtended, BurstSize, MaxSub} \subseteq Nat \ {0}
    /\ {MaxTimeouts, MaxCancels, MaxStackAllocs} \subseteq Nat
    /\ MaxSteps < 256 /\ None \notin Object /\ None \notin Nat
    /\ Mixes \subseteq [may : SUBSET Features, steps : 1 .. MaxSteps,
                          extended : 1 .. MaxExtended]

VARIABLES
    ns,         \* the data members of the instance, see Init
    held,       \* how often the flow has locked each sync object
    pending,    \* the sync object that made the flow wait in lock(), or None
    request,    \* step another thread is about to call success() on
    pc,         \* "idle", or what the reactor executes
    cur,        \* `current' of the loops of handle_success_sync() and
                \* handle_error_unwind()
    sched,      \* sched_exec of handle_execute()
    burst,
    allow,      \* the chosen mix
    fatal       \* the failed check or invalid access that ended the program

sync == <<held, pending>>
loop == <<sched, burst>>
vars == <<ns, sync, request, pc, cur, loop, allow, fatal>>

(* Operators whose names begin with Bug are deliberately wrong variants of  *)
(* the definition that follows them; see PROJECT.json, "mutants".           *)

Slot == 0 .. MaxSteps - 1
Ext == 0 .. MaxExtended - 1
Timer == 1 .. MaxTimeouts

\* A NitroStepData.  History: the handler `ran', it `asked' for an event.
Fresh == [func |-> "none", on_error |-> "none", parent |-> None,
          cancel |-> FALSE, timeout |-> FALSE, wait |-> FALSE,
          extended |-> FALSE, repeat |-> FALSE, start |-> 0, front |-> 0,
          ext |-> 0, allocs |-> 0, ran |-> FALSE, asked |-> FALSE]

\* `runs' and `armed' are the calls the reactor has still to make:
\* handle_execute() and, by timer, handle_timeout(); exec_handle_ is `handle'.
\* Entries of the three stacks name the step they belong to, and `lost' are the
\* extended states of steps that were dropped before they ran (history).
Init ==
    /\ ns = [queue |-> [s \in Slot |-> Fresh], begin |-> 0, size |-> 0,
             last |-> None, in_exec |-> FALSE, handle |-> FALSE, runs |-> 0,
             timeouts |-> <<>>, armed |-> {}, cancels |-> <<>>,
             allocs |-> <<>>, used |-> {}, lost |-> {},
             object |-> [e \in Ext |-> None], err |-> ""]
    /\ held = [o \in Object |-> 0] /\ pending = None /\ request = None
    /\ pc = "idle" /\ cur = None /\ sched = FALSE /\ burst = 0 /\ fatal = ""
    /\ allow \in Mixes

----------------------------------------------------------------------------
(* The private methods *)

\* queue_end(), is_sub_queue_empty()
QueueEnd(q) == (q.begin + q.size) % MaxSteps
SubEmpty(q, s) == q.queue[s].front = QueueEnd(q)

\* What a slot keeps when it is no longer in use: alloc_step() resets flags and
\* parent, handle_execute() the indices; add() sets on_error_, but sync() and
\* await() do not.  Only sync() looks at an extended state that is left over.
Left(step) == [Fresh EXCEPT !.ext = IF "sync" \in allow.may THEN step.ext ELSE 0,
                            !.allocs = step.allocs,
                            !.on_error = IF "leftover" \in allow.may
                                         THEN step.on_error ELSE "none"]

\* alloc_step(); func_ is set by every caller.
AllocStep(q, parent, func) ==
    [q EXCEPT !.size = @ + 1,
              !.queue[QueueEnd(q)] =
                  [Left(@) EXCEPT !.func = func, !.parent = parent]]

\* alloc_extended() for the step in slot s: the first one that is not used.
AllocExtended(q, s, o) ==
    LET e == CHOOSE e \in Ext \ q.used : \A d \in Ext \ q.used : e <= d
    IN  [q EXCEPT !.used = @ \cup {e}, !.queue[s].extended = TRUE,
                  !.queue[s].ext = e,
                  !.object[e] = IF o = None THEN @ ELSE o]

\* add(), loop(), sync() and await() set what their kind of step needs; only
\* add() sets on_error_.
AddStep(q, parent, kind) ==
    LET s == QueueEnd(q)
        r == AllocStep(q, parent, kind.func)
    IN  IF kind.func = "user"
        THEN [r EXCEPT !.queue[s].on_error = kind.on_error]
        ELSE AllocExtended(r, s, kind.object)

Drop(s, n) == SubSeq(s, 1, Len(s) - n)
Top(s) == s[Len(s)]

\* The latest timer is canceled when the step has one.
PopTimeout(q, s) ==
    IF q.queue[s].timeout
    THEN [q EXCEPT !.armed = @ \ {Top(q.timeouts).timer},
                   !.timeouts = Drop(@, 1), !.queue[s].timeout = FALSE]
    ELSE q

PopCancel(q, s) ==
    IF q.queue[s].cancel
    THEN [q EXCEPT !.cancels = Drop(@, 1), !.queue[s].cancel = FALSE]
    ELSE q

BugFreeStepKeepsState(q, s) ==
    [PopCancel(PopTimeout(q, s), s) EXCEPT
        !.allocs = Drop(@, q.queue[s].allocs),
        !.queue[s] = [@ EXCEPT !.wait = FALSE, !.extended = FALSE,
                               !.allocs = 0]]

\* free_step()
FreeStep(q, s) ==
    LET step == q.queue[s] IN
    [PopCancel(PopTimeout(q, s), s) EXCEPT
        !.allocs = Drop(@, step.allocs),
        !.used = @ \ (IF step.extended THEN {step.ext} ELSE {}),
        !.queue[s] = [@ EXCEPT !.wait = FALSE, !.extended = FALSE,
                               !.allocs = 0]]

BugFreeFromFront(q, s) ==
    [q EXCEPT !.size = (q.queue[s].front - q.begin) % MaxSteps]

\* The extended states of the steps in `dropped' that have not run.
Unclaimed(q, dropped) ==
    {q.queue[s].ext : s \in {d \in dropped : /\ q.queue[d].extended
                                             /\ ~q.queue[d].ran}}

\* sub_queue_free(): indices only, the steps it drops are not freed.
SubQueueFree(q, s) ==
    LET start == q.queue[s].start
        dropped == {(start + i) % MaxSteps :
                       i \in 0 .. ((QueueEnd(q) - start) % MaxSteps) - 1}
    IN  [q EXCEPT !.size = (start - q.begin) % MaxSteps,
                  !.lost = @ \cup Unclaimed(q, dropped),
                  !.queue = [i \in Slot |-> IF i \in dropped THEN Left(@[i])
                                                             ELSE @[i]]]

\* reset_queue()
Reset(q) == [q EXCEPT !.begin = 0, !.size = 0, !.timeouts = <<>>,
                      !.lost = @ \cup Unclaimed(q, Slot),
                      !.queue = [s \in Slot |-> Left(@[s])]]

\* cond_sub_queue_shift(), cond_queue_shift()
ShiftSub(q, s) ==
    IF q.queue[q.queue[s].front].repeat THEN q
    ELSE [FreeStep(q, q.queue[s].front) EXCEPT !.queue[s].front =
                                                   (@ + 1) % MaxSteps]

ShiftRoot(q) ==
    IF q.queue[q.begin].repeat THEN q
    ELSE [FreeStep(q, q.begin) EXCEPT !.begin = (@ + 1) % MaxSteps,
                                      !.size = (@ - 1) % 256,
                                      !.queue[q.begin] = Left(@)]

BugScheduledTwice(q) == [q EXCEPT !.handle = TRUE, !.runs = @ + 1]

\* execute(): exec_handle_ is overwritten, whatever it referred to.
Scheduled(q) ==
    IF q.in_exec THEN q ELSE [q EXCEPT !.handle = TRUE, !.runs = @ + 1]

\* handle_success_sync() of a step without sub-steps, up to its loop.
Succeed(q) ==
    ns' = q /\ cur' = q.queue[q.last].parent /\ pc' = "climb"

\* handle_error_unwind(), up to its loop.
Raise(q, code) ==
    ns' = [q EXCEPT !.err = code] /\ cur' = q.last /\ pc' = "unwind"

Return == pc' = IF ns.in_exec THEN "exec" ELSE "idle"

Stop(why) == fatal' = why /\ UNCHANGED <<ns, cur, pc>>

Codes == {"Error"} \cup IF "loop" \in allow.may THEN {"break", "continue"} ELSE {}

\* ISync::unlock() of this flow: give up the wait, or one lock, if there is one.
Unlock(o) ==
    IF o = None THEN fatal' = "null sync object" /\ UNCHANGED sync
    ELSE /\ pending' = IF pending = o THEN None ELSE pending
         /\ held' = IF pending # o /\ held[o] > 0
                    THEN [held EXCEPT ![o] = @ - 1] ELSE held
         /\ UNCHANGED fatal

\* current_ext_state().sync_object
CurrentObject(q) == q.object[q.queue[q.last].ext]

----------------------------------------------------------------------------
(* The calls from outside of handlers *)

\* Client code with on_error handlers keeps a slot free: see sub_queue_free().
OnErrors ==
    IF allow.steps < MaxSteps \/ "full_error" \in allow.may
    THEN {"none", "user"} ELSE {"none"}

Kinds ==
    [func : {"user"}, on_error : OnErrors, object : {None}]
    \cup [func : {"loop", "await"} \cap allow.may, object : {None}]
    \cup [func : {"sync"} \cap allow.may, object : Object]

InQueue(q, s) == (s - q.begin) % MaxSteps < q.size
Alive == {s \in Slot : InQueue(ns, s)}

NextStep == IF ns.last = None THEN ns.begin ELSE ns.queue[ns.last].front

\* The steps that the handler of the innermost step has added, or the root steps.
Added ==
    IF ns.last = None THEN ns.size
    ELSE (QueueEnd(ns) - ns.queue[ns.last].start) % MaxSteps

SyncsToRun == {s \in Alive : ns.queue[s].func = "sync" /\ ~ns.queue[s].ran}

\* Client code stays within the limits, where the code would end the program:
\* it keeps three slots and an on_cancel for each sync() to come.
Fits(kind) ==
    LET syncs == Cardinality(SyncsToRun) + IF kind.func = "sync" THEN 1 ELSE 0
    IN  /\ Added < MaxSub
        /\ ns.size + 1 + 3 * syncs <= allow.steps
        /\ Len(ns.cancels) + syncs <= MaxCancels
        /\ kind.func # "user" => Cardinality(ns.used) < allow.extended

\* A step is added: to the instance before execute(), or in a handler.
Add ==
    /\ \/ /\ pc = "idle" /\ ns.size = 0 /\ ns.runs = 0 /\ pc' = "build"
          /\ ns.err = "" \/ "reuse" \in allow.may
       \/ pc \in {"handler", "build"} /\ UNCHANGED pc
       \/ pc = "on_error" /\ (ns.in_exec \/ "late_steps" \in allow.may) /\ UNCHANGED pc
    /\ \E kind \in Kinds : Fits(kind) /\ ns' = AddStep(ns, ns.last, kind)
    /\ UNCHANGED <<sync, request, cur, loop, fatal>>

Execute ==
    /\ pc = "build" /\ ns' = Scheduled(ns) /\ pc' = "idle"
    /\ UNCHANGED <<sync, request, cur, loop, fatal>>

\* cancel(): only the latest call of execute() can be canceled.
Cancel ==
    /\ "cancel" \in allow.may /\ pc = "idle" /\ ns.size # 0 /\ request = None
    /\ ns.queue[NextStep].ran => "cancel_loop" \in allow.may
    /\ ns' = [ns EXCEPT !.handle = FALSE,
                        !.runs = IF ns.handle THEN @ - 1 ELSE @]
    /\ pc' = "cancel"
    /\ UNCHANGED <<sync, request, cur, loop, fatal>>

BugCanceledKeepsLock(s) == UNCHANGED <<sync, fatal>>

\* The handler on top of cancel_list_ is called for the step s = last_step_.
OnCancel(s) ==
    IF ns.queue[s].cancel /\ Top(ns.cancels).unlock
    THEN Unlock(CurrentObject(ns)) ELSE UNCHANGED <<sync, fatal>>

CancelLevel ==
    /\ pc = "cancel" /\ ns.last # None
    /\ OnCancel(ns.last)
    /\ ns' = [FreeStep(ns, ns.last) EXCEPT !.last = ns.queue[ns.last].parent]
    /\ UNCHANGED <<request, pc, cur, loop>>

CancelEnd ==
    /\ pc = "cancel" /\ ns.last = None
    /\ ns' = Reset(ns) /\ pc' = "idle"
    /\ UNCHANGED <<sync, request, cur, loop, fatal>>

\* The step whose handler asked to wait is still the innermost one.
Waiting(s) == s = ns.last /\ s # None /\ ns.queue[s].asked /\ SubEmpty(ns, s)

\* An event on the reactor thread ends the wait, with success() or error(), or
\* the sync object lets the flow in.  Clients end a wait once.
ExternalEvent ==
    /\ pc = "idle" /\ Waiting(ns.last)
    /\ LET q == [ns EXCEPT !.queue[ns.last].asked = FALSE] IN
       IF pending # None
       THEN held' = [held EXCEPT ![pending] = 1] /\ pending' = None /\ Succeed(q)
       ELSE (Succeed(q) \/ Raise(q, "Error")) /\ UNCHANGED sync
    /\ UNCHANGED <<request, loop, fatal>>

\* success() on another thread, and the reactor task that executes it.  Nothing
\* ties the task to the step: clients keep others from ending the wait.
ForeignSuccess ==
    /\ "foreign" \in allow.may /\ pc \in {"idle", "exec"}
    /\ request = None /\ Waiting(ns.last) /\ pending = None
    /\ request' = ns.last /\ ns' = [ns EXCEPT !.queue[ns.last].asked = FALSE]
    /\ UNCHANGED <<sync, pc, cur, loop, fatal>>

ForeignTask ==
    /\ pc = "idle" /\ request # None /\ request' = None
    /\ IF ns.last # None /\ SubEmpty(ns, ns.last)
       THEN Succeed(ns) /\ UNCHANGED fatal
       ELSE Stop("success() with non-empty queue")
    /\ UNCHANGED <<sync, loop>>

\* handle_timeout(): whoever called setTimeout(), the innermost step fails.
TimerFire(t) ==
    /\ pc = "idle" /\ t \in ns.armed
    /\ Waiting(ns.last) \/ "early_timeout" \in allow.may
    /\ IF ns.last = None THEN Stop("timeout of no step")
       ELSE Raise([ns EXCEPT !.armed = @ \ {t}], "Timeout") /\ UNCHANGED fatal
    /\ UNCHANGED <<sync, request, loop>>

----------------------------------------------------------------------------
(* handle_execute(): a burst of steps *)

BeginBurst ==
    /\ pc = "idle" /\ ns.runs > 0
    /\ ns' = [ns EXCEPT !.in_exec = TRUE, !.handle = FALSE, !.runs = @ - 1]
    /\ sched' = TRUE /\ burst' = BurstSize /\ pc' = "exec"
    /\ UNCHANGED <<sync, request, cur, fatal>>

MoreToRun == sched /\ burst > 0 /\ (ns.last # None \/ ns.size # 0)

EndBurst ==
    /\ pc = "exec" /\ ~MoreToRun
    /\ pc' = "idle" /\ sched' = FALSE /\ burst' = 0
    /\ LET q == [ns EXCEPT !.in_exec = FALSE]
       IN  ns' = IF sched /\ ns.size # 0 THEN Scheduled(q) ELSE q
    /\ UNCHANGED <<sync, request, cur, fatal>>

\* ns when the handler of NextStep is called.
Started ==
    LET end == QueueEnd(ns) IN
    [ns EXCEPT !.last = NextStep,
               !.queue[NextStep] = [@ EXCEPT !.start = end, !.front = end,
                                             !.ran = TRUE, !.asked = FALSE]]

\* The handler of q.last returned normally.
Returned(q) ==
    LET step == q.queue[q.last]
        blocked == step.cancel \/ step.timeout \/ step.wait
    IN  IF q.err # "" THEN Raise(q, q.err) /\ UNCHANGED sched
        ELSE IF SubEmpty(q, q.last) /\ ~blocked THEN Succeed(q) /\ UNCHANGED sched
        ELSE /\ ns' = [q EXCEPT !.queue[q.last].asked = SubEmpty(q, q.last)]
             /\ sched' = ~SubEmpty(q, q.last)
             /\ pc' = "exec" /\ UNCHANGED cur

\* setCancel(), with user code or sync_unlock_handler(); waitExternal()
SetCancel(q, unlock) ==
    [q EXCEPT !.cancels = Append(@, [step |-> q.last, unlock |-> unlock]),
              !.queue[q.last].cancel = TRUE]

WaitExternal(q) == [q EXCEPT !.queue[q.last].wait = TRUE]

\* HandleLoop: the objects of the last iteration are freed.
LoopHandler ==
    LET q == [Started EXCEPT !.allocs = Drop(@, ns.queue[NextStep].allocs),
                             !.queue[NextStep].allocs = 0]
    IN  \/ /\ ns' = [q EXCEPT !.queue[NextStep].repeat = TRUE,
                              !.queue[NextStep].on_error = "loop"]
          /\ pc' = "handler" /\ UNCHANGED <<cur, sched>>
       \/ Returned([q EXCEPT !.queue[NextStep].repeat = FALSE])

\* HandleAwait: poll again unless the awaited flow is done or failed.
AwaitHandler ==
    LET q == [Started EXCEPT !.queue[NextStep].repeat = FALSE] IN
    \/ Returned(q)
    \/ Returned([q EXCEPT !.queue[NextStep].repeat = TRUE])
    \/ Raise(q, "Error") /\ UNCHANGED sched

\* HandleSync: lock, body and unlock as sub-steps.  The body's handlers were
\* kept in the extended state.
SyncHandler ==
    \E on_error \in OnErrors :
       LET q == AllocStep(SetCancel(Started, TRUE), NextStep, "lock")
           r == [AllocStep(q, NextStep, "body") EXCEPT
                    !.queue[QueueEnd(q)].on_error = on_error]
       IN  Returned(AllocStep(r, NextStep, "unlock"))

\* sync_lock_handler() asks for the extended state of the step it runs in.  The
\* object lets the flow in, makes it wait, or refuses it when its queue is full.
LockHandler ==
    LET q == Started
        o == CurrentObject(q)
    IN  IF o = None THEN Stop("null sync object") /\ UNCHANGED <<sync, sched>>
        ELSE /\ \/ /\ held' = [held EXCEPT ![o] = @ + 1] /\ UNCHANGED pending
                   /\ Returned(q)
                \/ /\ held[o] = 0 /\ pending' = o /\ UNCHANGED held
                   /\ Returned(WaitExternal(q))
                \/ held[o] = 0 /\ Raise(q, "Error") /\ UNCHANGED <<sync, sched>>
             /\ UNCHANGED fatal

UnlockHandler == Unlock(CurrentObject(Started)) /\ Returned(Started)

Handler(func) ==
    \/ /\ \/ /\ func \in {"user", "body"}
             /\ ns' = Started /\ pc' = "handler" /\ UNCHANGED <<cur, sched>>
          \/ func = "loop" /\ LoopHandler
          \/ func = "await" /\ AwaitHandler
          \/ func = "sync" /\ SyncHandler
       /\ UNCHANGED <<sync, fatal>>
    \/ func = "lock" /\ LockHandler
    \/ func = "unlock" /\ UnlockHandler

RunStep ==
    /\ pc = "exec" /\ MoreToRun /\ burst' = burst - 1
    /\ LET func == ns.queue[NextStep].func IN
       IF NextStep \notin Alive THEN Stop("step not in the queue")
                                  /\ UNCHANGED <<sync, sched>>
       ELSE Handler(func)
    /\ UNCHANGED request

----------------------------------------------------------------------------
(* What user code calls in the handler of the step ns.last, as far as the   *)
(* mix and the limits go, besides Add                                       *)

Mine == ns.queue[ns.last]
NoSubs == SubEmpty(ns, ns.last)
MayWait == ~Mine.repeat \/ "loop_wait" \in allow.may

\* setCancel() or waitExternal()
Wait ==
    /\ pc = "handler" /\ "wait" \in allow.may /\ MayWait
    /\ ~Mine.cancel /\ ~Mine.wait
    /\ \/ /\ Len(ns.cancels) + Cardinality(SyncsToRun) < MaxCancels
          /\ ns' = SetCancel(ns, FALSE)
       \/ ns' = WaitExternal(ns)
    /\ UNCHANGED <<sync, request, pc, cur, loop, fatal>>

SetTimeout ==
    /\ pc = "handler" /\ MayWait /\ ~Mine.timeout
    /\ "timeout" \in allow.may /\ Len(ns.timeouts) < MaxTimeouts
    /\ \E t \in Timer \ {ns.timeouts[i].timer : i \in DOMAIN ns.timeouts} :
          ns' = [ns EXCEPT !.timeouts = Append(@, [step |-> ns.last, timer |-> t]),
                           !.armed = @ \cup {t},
                           !.queue[ns.last].timeout = TRUE]
    /\ UNCHANGED <<sync, request, pc, cur, loop, fatal>>

\* stack()
Stack ==
    /\ pc = "handler" /\ "stack" \in allow.may
    /\ Len(ns.allocs) < MaxStackAllocs
    /\ ns' = [ns EXCEPT !.allocs = Append(@, ns.last),
                        !.queue[ns.last].allocs = @ + 1]
    /\ UNCHANGED <<sync, request, pc, cur, loop, fatal>>

\* The handler returns, with success() or without, or calls error().
EndHandler ==
    /\ pc = "handler"
    /\ \/ Returned(ns)
       \/ NoSubs /\ Succeed(ns) /\ UNCHANGED sched
       \/ \E code \in Codes : Raise(ns, code) /\ UNCHANGED sched
    /\ UNCHANGED <<sync, request, burst, fatal>>

----------------------------------------------------------------------------
(* The loop of handle_success_sync(), one parent at a time *)

Climb ==
    /\ pc = "climb" /\ cur # None
    /\ LET q == ShiftSub(ns, cur) IN
       IF SubEmpty(q, cur)
       THEN /\ ns' = SubQueueFree(q, cur)
            /\ cur' = ns.queue[cur].parent /\ UNCHANGED pc
       ELSE ns' = Scheduled([q EXCEPT !.last = cur]) /\ Return /\ UNCHANGED cur
    /\ UNCHANGED <<sync, request, loop, fatal>>

ClimbRoot ==
    /\ pc = "climb" /\ cur = None
    /\ LET q == ShiftRoot([ns EXCEPT !.last = None])
       IN  ns' = IF q.size # 0 THEN Scheduled(q) ELSE q
    /\ Return
    /\ UNCHANGED <<sync, request, cur, loop, fatal>>

----------------------------------------------------------------------------
(* The loop of handle_error_unwind(), one level at a time *)

BugFrontKept ==
    PopCancel(PopTimeout([SubQueueFree(ns, cur) EXCEPT
        !.queue[cur].on_error = "none"], cur), cur)

\* The level's sub-steps are dropped; its timer, its on_cancel and its on_error
\* are used up.
Unwound ==
    PopCancel(PopTimeout([SubQueueFree(ns, cur) EXCEPT
        !.queue[cur].front = ns.queue[cur].start,
        !.queue[cur].on_error = "none"], cur), cur)

OnError == ns.queue[cur].on_error

\* The next level up, with the code that the handler left.
Upwards(q, code) ==
    /\ ns' = [FreeStep(q, cur) EXCEPT !.last = ns.queue[cur].parent, !.err = code]
    /\ cur' = ns.queue[cur].parent /\ pc' = "unwind"

\* The on_error handler of a loop calls success() for continueLoop() and
\* breakLoop() with its label.
Unwind ==
    /\ pc = "unwind" /\ cur # None
    /\ OnCancel(cur)
    /\ \/ OnError = "user" /\ ns' = Unwound /\ pc' = "on_error" /\ UNCHANGED cur
       \/ OnError # "user" /\ Upwards(Unwound, ns.err)
       \/ /\ OnError = "loop" /\ ns.err \in {"break", "continue"}
          /\ Succeed([Unwound EXCEPT !.err = "",
                                     !.queue[cur].repeat = @ /\ ns.err # "break"])
    /\ UNCHANGED <<request, loop>>

\* The on_error handler, which may have added sub-steps, ends: with success(),
\* by returning, or with error().  When no burst is running, nobody executes the
\* sub-steps, and error() unwinds the flow itself, after which the outer loop
\* goes on with what is left.
Recover == NoSubs /\ Succeed([ns EXCEPT !.err = ""]) /\ UNCHANGED fatal

Substitute ==
    ~NoSubs /\ ns' = [ns EXCEPT !.err = ""] /\ Return /\ UNCHANGED <<cur, fatal>>

Override ==
    IF ns.in_exec THEN \E code \in Codes : Upwards(ns, code) /\ UNCHANGED fatal
    ELSE "late_override" \in allow.may /\ Stop("unwound twice")

EndOnError ==
    /\ pc = "on_error"
    /\ \/ Recover
       \/ Substitute
       \/ NoSubs /\ Upwards(ns, ns.err) /\ UNCHANGED fatal
       \/ NoSubs /\ Override
    /\ UNCHANGED <<sync, request, loop>>

\* No level handled the error: reset_queue() and unhandled_error(), which leave
\* error_code_cache_ as it is.
UnwindRoot ==
    /\ pc = "unwind" /\ cur = None
    /\ ns' = Reset(ns) /\ Return
    /\ UNCHANGED <<sync, request, cur, loop, fatal>>

----------------------------------------------------------------------------
Engine == BeginBurst \/ RunStep \/ EndBurst \/ Climb \/ ClimbRoot
            \/ Unwind \/ UnwindRoot \/ CancelLevel \/ CancelEnd

Handlers == Wait \/ SetTimeout \/ Stack \/ EndHandler \/ EndOnError

Next ==
    /\ fatal = "" /\ UNCHANGED allow
    /\ \/ Add
       \/ Execute
       \/ Engine
       \/ Handlers
       \/ \E t \in Timer : TimerFire(t)
       \/ ExternalEvent
       \/ ForeignSuccess
       \/ ForeignTask
       \/ Cancel

Spec == Init /\ [][Next]_vars

----------------------------------------------------------------------------
(* Properties *)

StepData ==
    [func : {"none", "user", "loop", "await", "sync", "lock", "body", "unlock"},
     on_error : {"none", "user", "loop"}, parent : Slot \cup {None},
     cancel : BOOLEAN, timeout : BOOLEAN, wait : BOOLEAN, extended : BOOLEAN,
     repeat : BOOLEAN, start : Slot, front : Slot, ext : Ext,
     allocs : Nat, ran : BOOLEAN, asked : BOOLEAN]

\* Type correctness; the sizes stay within the buffers.
TypeOK ==
    /\ ns.queue \in [Slot -> StepData]
    /\ ns.begin \in Slot /\ ns.size \in 0 .. MaxSteps
    /\ ns.last \in Slot \cup {None} /\ cur \in Slot \cup {None}
    /\ Len(ns.timeouts) <= MaxTimeouts /\ Len(ns.cancels) <= MaxCancels
    /\ Len(ns.allocs) <= MaxStackAllocs
    /\ ns.used \subseteq Ext /\ ns.armed \subseteq Timer /\ ns.runs \in Nat
    /\ held \in [Object -> Nat] /\ pending \in Object \cup {None}
    /\ pc \in {"idle", "build", "exec", "handler", "climb", "unwind", "on_error",
              "cancel"}
    /\ burst \in 0 .. BurstSize

Position(s) == (s - ns.begin) % MaxSteps

\* The same for the index where a run of sub-steps begins or ends: where the
\* ring begins a full ring ends.
Mark(i) == IF i = ns.begin THEN MaxSteps ELSE Position(i)

\* Wherever the ring begins, and be it full, its steps form a tree: the
\* sub-steps of a step are a run that begins at its `start', after the step
\* itself; its `front' is inside that run; and the innermost step is the one its
\* parent's `front' points to.
RingIsTree ==
    /\ TypeOK
    /\ pc \notin {"climb", "unwind", "cancel"} /\ fatal = "" =>
         /\ \A s \in Alive :
               LET p == ns.queue[s].parent IN
               p # None =>
                 /\ p \in Alive /\ Position(p) < Mark(ns.queue[p].start)
                 /\ Mark(ns.queue[p].start) <= Mark(ns.queue[p].front)
                 /\ Mark(ns.queue[p].front) < ns.size
                 /\ \A r \in Alive : Position(r) \in Mark(ns.queue[p].start)
                                                     .. Position(s)
                                     => ns.queue[r].parent = p
         /\ ns.last # None =>
               /\ ns.last \in Alive /\ ns.queue[ns.last].ran
               /\ LET p == ns.queue[ns.last].parent
                  IN  ns.last = IF p = None THEN ns.begin ELSE ns.queue[p].front
               /\ \A r \in Alive : ns.queue[r].parent = ns.last
                                  <=> Mark(ns.queue[ns.last].start) <= Position(r)

\* A handler is called when every earlier step of its parent has run and no
\* later one has, and, unless it polls or loops, for the first time.
RunsInOrder ==
    [][pc = "exec" /\ burst' # burst /\ ns'.in_exec /\ fatal' = "" =>
          LET step == ns.queue[NextStep] IN
          /\ step.ran => step.repeat
          /\ \A s \in Alive \ {NextStep} :
                ns.queue[s].parent = step.parent =>
                    (ns.queue[s].ran <=> Position(s) < Position(NextStep))]_vars

\* With nothing of the reactor under way a flow that has steps has exactly one
\* reason to go on: one scheduled handle_execute(), or the event its innermost
\* step asked for.  It neither stalls nor runs twice, and no event is rejected.
OneReasonToGoOn ==
    fatal = "" /\ (pc = "idle" =>
        /\ ns.runs <= 1 /\ (ns.handle <=> ns.runs = 1)
        /\ ns.size # 0 =>
              (ns.runs = 0 <=> (Waiting(ns.last) \/ request # None)))

\* Between two levels of an error in a full ring: see sub_queue_free().
SizeIsLost == pc = "unwind" /\ ns.size = 0

Owners(stack) == [i \in DOMAIN stack |-> stack[i].step]

\* The owners of the entries of a stack are running steps, outermost first, and
\* each has as many entries as its slot says.
FollowsPath(owners, Count(_)) ==
    /\ \A i, j \in DOMAIN owners :
          i <= j => /\ owners[i] \in Alive /\ ns.queue[owners[i]].ran
                    /\ Position(owners[i]) <= Position(owners[j])
    /\ \A s \in Alive :
          Cardinality({i \in DOMAIN owners : owners[i] = s}) = Count(s)

\* A step that ends, fails or is canceled gives back the timers, the on_cancel
\* handlers, the objects and the extended state that are its own, whatever
\* happened below it, and no other step gets them before.  Only a step that is
\* dropped before it runs does not give its extended state back.
ResourcesFollowPath ==
    LET extended == {s \in Alive : ns.queue[s].extended} IN
    fatal = "" /\ ~SizeIsLost =>
        /\ FollowsPath(Owners(ns.timeouts),
                       LAMBDA s : IF ns.queue[s].timeout THEN 1 ELSE 0)
        /\ FollowsPath(Owners(ns.cancels),
                       LAMBDA s : IF ns.queue[s].cancel THEN 1 ELSE 0)
        /\ FollowsPath(ns.allocs, LAMBDA s : ns.queue[s].allocs)
        /\ ns.armed \subseteq {ns.timeouts[i].timer : i \in DOMAIN ns.timeouts}
        /\ ns.used = {ns.queue[s].ext : s \in extended} \cup ns.lost
        /\ \A r, s \in extended : ns.queue[r].ext = ns.queue[s].ext => r = s

\* What the flow has locked, or waits for, is the object of a sync() step that
\* is under way and whose on_cancel is there to unlock it; so a flow that has
\* ended, failed, been refused or been canceled leaves nothing locked.
LocksAreReturned ==
    fatal = "" /\ ~SizeIsLost => \A o \in Object :
        held[o] > 0 \/ pending = o =>
            \E s \in Alive : /\ ns.queue[s].func = "sync" /\ ns.queue[s].cancel
                              /\ ns.object[ns.queue[s].ext] = o

=============================================================================
