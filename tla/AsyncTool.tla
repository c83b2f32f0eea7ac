----------------------------- MODULE AsyncTool -----------------------------
(***************************************************************************)
(* The reactor of src/src/asynctool.cpp: one thread that runs immediates,  *)
(* expired deferred calls and requests that other threads queue for it.    *)
(*                                                                         *)
(* A "call" is one immediate()/deferred() request; it is the identity of   *)
(* the callback stored in a UniversalHandle node.  Nodes are recycled      *)
(* between immed_queue, defer_used_heap and universal_free_heep, while a   *)
(* Handle (node, cookie) stays with the client, so one node serves many    *)
(* calls over time: telling them apart is the job of the cookie.           *)
(***************************************************************************)
EXTENDS Integers, Sequences, FiniteSets, Lists

CONSTANTS
    Node,          \* memory of the handle nodes
    Call,          \* immediate()/deferred() requests of the client code
    NoNode, NoCall,
    Thread,        \* threads other than the reactor that call the tool
    Delay,         \* delays passed to deferred()
    MinDelay,      \* the 100ms below which deferred() is fatal
    Slack,         \* the 1ms added to a timed wait
    MaxClock,      \* bound: time passes beyond it only towards a deadline
    Burst,         \* BURST_COUNT
    TaskCapacity,  \* capacity of handle_tasks (BURST_COUNT * 10)
    CookieMod,     \* 2^w, w the width of HandleCookie
    Internal,      \* TRUE: own thread (process), FALSE: external iterate() loop
    Recycle,       \* TRUE: finished calls may be issued again, for ever
    Destroyable,   \* TRUE: the owner may destroy the tool
    Releasable     \* TRUE: release_memory() may be called

ASSUME ToolAssumption ==
    /\ NoNode \notin Node /\ NoCall \notin Call
    /\ MinDelay \in Nat \ {0} /\ Slack \in Nat /\ MaxClock \in Nat
    /\ Delay \subseteq Nat
    /\ Burst \in Nat \ {0} /\ TaskCapacity \in Nat \ {0}
    /\ CookieMod \in Nat /\ CookieMod > 1
    /\ Internal \in BOOLEAN /\ Recycle \in BOOLEAN
    /\ Recycle => Delay = {}  \* or the clock would run for ever
    /\ Destroyable \in BOOLEAN /\ Releasable \in BOOLEAN

(* A listed node holds a call of its own (see Forget), so this many nodes  *)
(* are never exhausted: the bound on Node hides no behaviour.              *)
ASSUME EnoughNodes == /\ IsFiniteSet(Node) /\ IsFiniteSet(Call)
                      /\ Cardinality(Node) >= Cardinality(Call)

Never == -1

VARIABLES
    immed,           \* immed_queue: sequence of nodes
    deferUsed,       \* defer_used_heap: nodes
    deferQueue,      \* defer_queue: nodes, ordered by when
    free,            \* universal_free_heep: nodes
    callback,        \* UniversalHandle.callback of each node
    cookie,          \* UniversalHandle.cookie
    when,            \* UniversalHandle.when
    current_cookie,
    canceled,        \* canceled_handles
    handle_tasks,    \* threads whose request is queued, oldest first
    request,         \* the request of each thread
    fpc,             \* "idle", "push" (before add_handle_task), "wait" (promise)
    pc,              \* where the reactor is
    pos,             \* nodes of immed already processed in this burst
    left,            \* remaining burst count, or remaining tasks of a batch
    running,         \* node whose callback is on the reactor's stack
    notified,        \* poke_cb fired and the sleeper has not left its wait
    clock,
    last_now,        \* the cached time; Never when it is not in use
    wake_at,         \* external loop: when iterate() is due again
    is_shutdown,
    dtor,            \* "none", "flagged", "joining", "draining", "stuck", "done"
    handles,         \* Handle objects the client still holds
    status,          \* history: what became of each call
    due,             \* history: earliest time a deferred call may run
    epoch            \* history: start of the current pass, or pause between passes
lists   == <<immed, deferUsed, deferQueue, free>>
nodes   == <<callback, cookie, when, current_cookie>>
data    == <<lists, nodes, canceled>>
reactor == <<pc, pos, left, running>>
foreign == <<handle_tasks, request, fpc>>
wait    == <<notified, wake_at>>
life    == <<is_shutdown, dtor>>
history == <<handles, status, due, epoch>>
vars == <<data, reactor, foreign, wait, clock, last_now, life, history>>

NoRequest == [op |-> "none", call |-> NoCall, delay |-> 0,
              node |-> NoNode, cookie |-> 0]

(* Operators whose names begin with Bug are deliberately wrong variants of  *)
(* the definition that follows them; no specification uses them.  They      *)
(* serve to show that a property can fail (PROJECT.json, "mutants").        *)

----------------------------------------------------------------------------
(* Cookies, the cached clock, the deferred heap *)

BugCookieReused(c) == c

\* Impl::get_cookie(): zero marks a dead node and is skipped on wrap-around.
NextCookie(c) == IF (c + 1) % CookieMod = 0 THEN 1 ELSE (c + 1) % CookieMod

\* Impl::now(): the clock is read once and then kept until forget_now().
Now == IF last_now = Never THEN clock ELSE last_now

ForgetNow == last_now' = Never

\* What defer_queue.top() may return: DeferredCompare leaves ties open.
Tops == {n \in deferQueue : \A m \in deferQueue : when[n] <= when[m]}

\* The end of a timed wait; also what iterate() computes its delay from.
Deadline == when[CHOOSE n \in Tops : TRUE] + Slack

\* AsyncTool::is_valid()
IsValid(h) == cookie[h.node] = h.cookie

\* poke_cb: notify_one() reaches only a thread that already waits; the
\* external callback is the client's and is never lost.
Poke == notified' = (notified \/ ~Internal \/ pc = "asleep")

----------------------------------------------------------------------------
(* The API on the reactor thread *)

\* Node and cookie of a new call: the free list first, then fresh memory.
Issue(n, c) ==
    /\ n \in IF free = {} THEN Node \ (Elements(immed) \cup deferUsed) ELSE free
    /\ free' = free \ {n}
    /\ current_cookie' = NextCookie(current_cookie)
    /\ callback' = [callback EXCEPT ![n] = c]
    /\ cookie' = [cookie EXCEPT ![n] = current_cookie']
    /\ handles' = handles \cup
                    {[node |-> n, cookie |-> current_cookie', call |-> c]}
    /\ status' = [status EXCEPT ![c] = "pending"]
    /\ UNCHANGED canceled

\* AsyncTool::immediate()
Immediate(c) ==
    \E n \in Node :
        /\ Issue(n, c)
        /\ immed' = Append(immed, n)
        /\ due' = [due EXCEPT ![c] = 0]
        /\ UNCHANGED <<deferUsed, deferQueue, when, last_now>>

\* AsyncTool::deferred() with a delay it accepts.
Deferred(c, d) ==
    \E n \in Node :
        /\ d >= MinDelay
        /\ Issue(n, c)
        /\ last_now' = Now
        /\ when' = [when EXCEPT ![n] = Now + d]
        /\ deferUsed' = deferUsed \cup {n}
        /\ deferQueue' = deferQueue \cup {n}
        /\ due' = [due EXCEPT ![c] = epoch + d]
        /\ UNCHANGED immed

\* AsyncTool::cancel() once it is on the reactor thread.
Cancel(n, k) ==
    /\ IF cookie[n] = k
       THEN /\ canceled' = canceled + 1
            /\ cookie' = [cookie EXCEPT ![n] = 0]
            /\ status' = [status EXCEPT ![callback[n]] = "canceled"]
       ELSE UNCHANGED <<canceled, cookie, status>>
    /\ UNCHANGED <<lists, callback, when, current_cookie, last_now, due>>

\* AsyncTool::release_memory(): the free nodes go back to the system.  A
\* client may not keep a Handle to one of them: cancel() would read it.
Release ==
    /\ \A h \in handles : h.node \notin free
    /\ \A t \in Thread : request[t].node \notin free
    /\ free' = {}
    /\ UNCHANGED <<immed, deferUsed, deferQueue, nodes, canceled, last_now,
                   handles, status, due>>

\* User code on the reactor thread: inside a callback, or, with an external
\* loop, between two iterate() calls.
UserCode == pc \in {"immed_cb", "defer_cb"} \/ (pc = "outside" /\ dtor = "none")

\* An external loop iterates again without waiting after it queued work.
LoopIsDue == wake_at' = IF pc = "outside" THEN clock ELSE wake_at

UserStep ==
    /\ UserCode
    /\ \/ \E c \in Call : status[c] = "unused" /\ Immediate(c) /\ LoopIsDue
       \/ \E c \in Call, d \in Delay :
            status[c] = "unused" /\ Deferred(c, d) /\ LoopIsDue
       \/ \E h \in handles :
            /\ Cancel(h.node, h.cookie)
            /\ handles' = handles \ {h}
            /\ UNCHANGED wake_at
       \/ Releasable /\ free # {} /\ Release /\ UNCHANGED wake_at
    /\ UNCHANGED <<foreign, reactor, notified, clock, life, epoch>>

\* deferred() with a short delay, called here or by a task: FatalMsg ends the
\* program.
Fatal ==
    /\ \/ UserCode /\ \E d \in Delay : d < MinDelay
       \/ /\ pc = "tasks" /\ left > 0
          /\ request[Head(handle_tasks)].op = "deferred"
          /\ request[Head(handle_tasks)].delay < MinDelay
    /\ pc' = "aborted"
    /\ UNCHANGED <<data, pos, left, running, foreign, wait, clock, last_now,
                   life, history>>

----------------------------------------------------------------------------
(* The same API on another thread: a task and a promise to wait for *)

\* The request is built on the caller's stack.  No new one begins once the
\* owner destroys the tool.
ForeignCall(t) ==
    LET Request(r) == /\ request' = [request EXCEPT ![t] = r]
                      /\ fpc' = [fpc EXCEPT ![t] = "push"]
        Requested(c) == /\ status[c] = "unused"
                        /\ status' = [status EXCEPT ![c] = "requested"]
    IN  /\ fpc[t] = "idle" /\ dtor = "none"
        /\ \/ \E c \in Call :
                /\ Requested(c) /\ UNCHANGED handles
                /\ Request([NoRequest EXCEPT !.op = "immediate", !.call = c])
           \/ \E c \in Call, d \in Delay :
                /\ Requested(c) /\ UNCHANGED handles
                /\ Request([NoRequest EXCEPT !.op = "deferred", !.call = c,
                                             !.delay = d])
           \/ \E h \in handles :
                \* The cookie is first compared here, without a lock.
                /\ handles' = handles \ {h} /\ UNCHANGED status
                /\ IF IsValid(h)
                   THEN Request([NoRequest EXCEPT !.op = "cancel",
                                   !.node = h.node, !.cookie = h.cookie])
                   ELSE UNCHANGED <<request, fpc>>
           \/ /\ Releasable /\ UNCHANGED <<handles, status>>
              /\ Request([NoRequest EXCEPT !.op = "release"])
        /\ UNCHANGED <<data, handle_tasks, reactor, wait, clock, last_now, life,
                       due, epoch>>

\* Impl::add_handle_task(): push and poke under handle_mutex; a full queue
\* is retried.
AddHandleTask(t) ==
    /\ fpc[t] = "push"
    /\ Len(handle_tasks) < TaskCapacity
    /\ handle_tasks' = Append(handle_tasks, t)
    /\ fpc' = [fpc EXCEPT ![t] = "wait"]
    /\ Poke
    /\ UNCHANGED <<data, request, reactor, wake_at, clock, last_now, life, history>>

\* One round of handle_task_queue(): run the oldest task, which fulfils the
\* promise of its caller, and pop it.
RunTask ==
    LET t == Head(handle_tasks)
        r == request[t]
    IN  /\ left' = left - 1
        /\ \/ r.op = "immediate" /\ Immediate(r.call)
           \/ r.op = "deferred" /\ Deferred(r.call, r.delay)
           \/ r.op = "cancel" /\ Cancel(r.node, r.cookie) /\ UNCHANGED handles
           \/ r.op = "release" /\ Release
        /\ handle_tasks' = Tail(handle_tasks)
        /\ request' = [request EXCEPT ![t] = NoRequest]
        /\ fpc' = [fpc EXCEPT ![t] = "idle"]
        /\ UNCHANGED <<pc, pos, running, wait, clock, life, epoch>>

----------------------------------------------------------------------------
(* One pass of Impl::iterate() *)

BugStaleFlag == {is_shutdown, FALSE}

\* is_shutdown is a relaxed load: until the destructor has taken handle_mutex
\* nothing orders its store.
ShutdownReads == {is_shutdown} \cup (IF dtor = "flagged" THEN {FALSE} ELSE {})

\* process() and the external loop start a pass.
BeginPass ==
    /\ \/ pc = "top" /\ FALSE \in ShutdownReads
       \/ pc = "outside" /\ dtor = "none"
    /\ ForgetNow
    /\ pc' = "immed" /\ pos' = 0 /\ left' = Burst
    /\ epoch' = clock
    /\ notified' = (Internal /\ notified)
    /\ UNCHANGED <<data, foreign, running, clock, wake_at, life, handles, status,
                   due>>

\* The cookie is cleared before the callback starts: from here on the handle
\* is invalid and cancel() has no effect.
Start(n) ==
    /\ cookie[n] # 0
    /\ cookie' = [cookie EXCEPT ![n] = 0]
    /\ status' = [status EXCEPT ![callback[n]] = "running"]
    /\ running' = n
    /\ UNCHANGED <<lists, callback, when, current_cookie, canceled, foreign,
                   pos, left, wait, clock, last_now, life, handles, due, epoch>>

\* The callback returned.
Finish ==
    /\ status' = [status EXCEPT ![callback[running]] = "done"]
    /\ running' = NoNode
    /\ UNCHANGED <<immed, nodes, canceled, foreign, wait, clock, last_now, life,
                   handles, due, epoch>>

\* A canceled node is met.
Skip(n) ==
    /\ cookie[n] = 0
    /\ canceled' = canceled - 1
    /\ UNCHANGED <<immed, nodes, foreign, pc, running, wait, clock, last_now,
                   life, history>>

ImmediateNext == pc = "immed" /\ left > 0 /\ pos < Len(immed)

RunImmediate == ImmediateNext /\ Start(immed[pos + 1]) /\ pc' = "immed_cb"

ReturnImmediate ==
    /\ pc = "immed_cb" /\ pc' = "immed"
    /\ Finish
    /\ pos' = pos + 1 /\ left' = left - 1
    /\ UNCHANGED <<deferUsed, deferQueue, free>>

SkipImmediate ==
    /\ ImmediateNext /\ Skip(immed[pos + 1])
    /\ pos' = pos + 1 /\ left' = left - 1
    /\ UNCHANGED <<deferUsed, deferQueue, free>>

BugBatchWhenIdle == IF Len(immed) > pos THEN 0 ELSE Len(handle_tasks)

\* handle_task_queue() serves what is queued when it starts.
TaskBatch == Len(handle_tasks)

BugNoRemaining == <<>>

\* Immediates beyond the burst limit stay for the next pass.
Remaining == SubSeq(immed, pos + 1, Len(immed))

\* The processed prefix is spliced to the free list in one go.
EndImmediates ==
    /\ pc = "immed" /\ ~ImmediateNext
    /\ free' = free \cup Elements(SubSeq(immed, 1, pos))
    /\ immed' = Remaining /\ pos' = 0
    /\ IF deferQueue = {}
       THEN pc' = "tasks" /\ left' = TaskBatch /\ UNCHANGED last_now
       ELSE pc' = "defer" /\ left' = Burst /\ last_now' = Now
    /\ UNCHANGED <<deferUsed, deferQueue, nodes, canceled, foreign, running,
                   wait, clock, life, history>>

BugExpired(n) == when[n] <= last_now + Slack

Expired(n) == when[n] <= last_now

RunDeferred ==
    /\ pc = "defer" /\ left > 0
    /\ \E n \in Tops : Expired(n) /\ Start(n)
    /\ pc' = "defer_cb"

\* After a processed deferred node: the node leaves the list, and whatever
\* is on top leaves the queue.
PopDeferred(n) ==
    /\ deferUsed' = deferUsed \ {n}
    /\ free' = free \cup {n}
    /\ \E m \in IF n \in Tops THEN {n} ELSE Tops : deferQueue' = deferQueue \ {m}
    /\ left' = left - 1 /\ UNCHANGED pos

ReturnDeferred ==
    pc = "defer_cb" /\ pc' = "defer" /\ Finish /\ PopDeferred(running)

SkipDeferred ==
    /\ pc = "defer" /\ left > 0
    /\ \E n \in Tops : Skip(n) /\ PopDeferred(n)

DeadDeferred == {n \in deferUsed : cookie[n] = 0}

BugCompactStaleQueue ==
    /\ deferUsed' = deferUsed \ DeadDeferred
    /\ free' = free \cup DeadDeferred
    /\ canceled' = canceled - Cardinality(DeadDeferred)
    /\ UNCHANGED deferQueue

BugCompactUncounted ==
    /\ deferQueue' = deferUsed \ DeadDeferred
    /\ deferUsed' = deferUsed \ DeadDeferred
    /\ free' = free \cup DeadDeferred
    /\ UNCHANGED canceled

\* Rebuild defer_queue from the live nodes.
Compact ==
    /\ deferQueue' = deferUsed \ DeadDeferred
    /\ deferUsed' = deferUsed \ DeadDeferred
    /\ free' = free \cup DeadDeferred
    /\ canceled' = canceled - Cardinality(DeadDeferred)

EndDeferred ==
    /\ pc = "defer"
    /\ \/ left = 0 \/ deferQueue = {}
       \/ \E n \in Tops : cookie[n] # 0 /\ ~Expired(n)
    /\ IF canceled > Cardinality(deferUsed) \div 2
       THEN Compact
       ELSE UNCHANGED <<deferUsed, deferQueue, free, canceled>>
    /\ pc' = "tasks" /\ left' = TaskBatch
    /\ UNCHANGED <<immed, nodes, foreign, pos, running, wait, clock, last_now,
                   life, history>>

ReactorTask == pc = "tasks" /\ left > 0 /\ RunTask

BugHasWork == immed # <<>>

HasWork == immed # <<>> \/ handle_tasks # <<>>

\* process() looks for work without the lock first.
EndPass ==
    /\ Internal /\ pc = "tasks" /\ left = 0
    /\ pc' = IF HasWork THEN "top" ELSE "check"
    /\ UNCHANGED <<data, foreign, pos, left, running, wait, clock, last_now,
                   life, history>>

BugIgnoresDeferred == IF immed # <<>> THEN clock ELSE Never

\* The CycleResult of iterate(), as the time at which to iterate again.
\* Requests that are still in handle_tasks are not work: they poke.
CycleResult == IF immed # <<>> THEN clock
               ELSE IF deferQueue = {} THEN Never
               ELSE clock + (Deadline - Now)

EndIterate ==
    /\ ~Internal /\ pc = "tasks" /\ left = 0
    /\ pc' = "outside"
    /\ wake_at' = CycleResult
    /\ ForgetNow
    /\ epoch' = clock
    /\ UNCHANGED <<data, foreign, pos, left, running, notified, clock, life,
                   handles, status, due>>

----------------------------------------------------------------------------
(* Sleep and wake-up of process() *)

\* Second look, under handle_mutex; the wait releases the mutex atomically.
Sleep ==
    /\ pc = "check"
    /\ IF HasWork
       THEN pc' = "top" /\ UNCHANGED <<notified, last_now>>
       ELSE FALSE \in ShutdownReads /\ pc' = "asleep" /\ notified' = FALSE /\ ForgetNow
    /\ UNCHANGED <<data, foreign, pos, left, running, clock, wake_at, life,
                   history>>

\* The while condition, and the break when there is nothing left to do.
Exit ==
    /\ pc = "top" \/ (pc = "check" /\ ~HasWork)
    /\ TRUE \in ShutdownReads
    /\ pc' = "exit"
    /\ UNCHANGED <<data, foreign, pos, left, running, wait, clock, last_now,
                   life, history>>

BugNoTimeout == FALSE

TimedOut == deferQueue # {} /\ clock >= Deadline

WakeIf(cond) ==
    /\ pc = "asleep" /\ cond
    /\ pc' = "top" /\ notified' = FALSE
    /\ UNCHANGED <<data, foreign, pos, left, running, clock, wake_at, last_now,
                   life, history>>

Wake == WakeIf(notified \/ TimedOut)

SpuriousWake == WakeIf(TRUE)

----------------------------------------------------------------------------
(* Destruction by the owner, on a thread of its own when the loop is internal *)

DestroyFlag ==
    /\ Destroyable /\ dtor = "none"
    /\ ~Internal => pc = "outside"
    /\ is_shutdown' = TRUE
    /\ dtor' = IF Internal THEN "flagged" ELSE "draining"
    /\ left' = IF Internal THEN left ELSE TaskBatch
    /\ UNCHANGED <<data, foreign, pc, pos, running, wait, clock, last_now, history>>

DestroyPoke ==
    /\ dtor = "flagged" /\ dtor' = "joining"
    /\ Poke
    /\ UNCHANGED <<data, foreign, reactor, wake_at, clock, last_now, is_shutdown,
                   history>>

DestroyJoin ==
    /\ dtor = "joining" /\ pc = "exit" /\ dtor' = "draining"
    /\ left' = TaskBatch
    /\ UNCHANGED <<data, foreign, pc, pos, running, wait, clock, last_now,
                   is_shutdown, history>>

\* cancel() leaves a task that runs on any thread.  The tasks of the others
\* ask is_same_thread() again: after the join no thread is the reactor, and
\* they queue themselves once more and wait.
DrainTask ==
    /\ dtor = "draining" /\ left > 0
    /\ Internal => request[Head(handle_tasks)].op = "cancel"
    /\ RunTask

DrainStuck ==
    /\ dtor = "draining" /\ Internal /\ left > 0
    /\ request[Head(handle_tasks)].op # "cancel"
    /\ dtor' = "stuck"
    /\ UNCHANGED <<data, foreign, reactor, wait, clock, last_now, is_shutdown,
                   history>>

DestroyDone ==
    /\ dtor = "draining" /\ left = 0 /\ dtor' = "done"
    /\ UNCHANGED <<data, foreign, reactor, wait, clock, last_now, is_shutdown,
                   history>>

----------------------------------------------------------------------------
(* Time, and the reuse of finished calls *)

Tick ==
    /\ \/ clock < MaxClock \/ clock < wake_at
       \/ deferQueue # {} /\ clock < Deadline
    /\ clock' = clock + 1
    /\ UNCHANGED <<data, foreign, reactor, wait, last_now, life, history>>

\* A client drops the handle of a finished call and may issue it again.
Forget ==
    /\ Recycle
    /\ \E c \in Call :
        /\ status[c] \in {"done", "canceled"}
        /\ \A n \in Elements(immed) \cup deferUsed : callback[n] # c
        /\ status' = [status EXCEPT ![c] = "unused"]
        /\ handles' = {h \in handles : h.call # c}
    /\ UNCHANGED <<data, foreign, reactor, wait, clock, last_now, life, due, epoch>>

----------------------------------------------------------------------------

Init ==
    /\ immed = <<>> /\ deferUsed = {} /\ deferQueue = {} /\ free = {}
    /\ callback = [n \in Node |-> NoCall]
    /\ cookie = [n \in Node |-> 0]
    /\ when = [n \in Node |-> 0]
    /\ current_cookie = 1 /\ canceled = 0
    /\ handle_tasks = <<>>
    /\ request = [t \in Thread |-> NoRequest]
    /\ fpc = [t \in Thread |-> "idle"]
    /\ pc = IF Internal THEN "top" ELSE "outside"
    /\ pos = 0 /\ left = 0 /\ running = NoNode
    /\ notified = FALSE /\ wake_at = Never
    /\ clock = 0 /\ last_now = Never
    /\ is_shutdown = FALSE /\ dtor = "none"
    /\ handles = {}
    /\ status = [c \in Call |-> "unused"]
    /\ due = [c \in Call |-> 0]
    /\ epoch = 0

PassStep ==
    \/ RunImmediate \/ ReturnImmediate \/ SkipImmediate \/ EndImmediates
    \/ RunDeferred \/ ReturnDeferred \/ SkipDeferred \/ EndDeferred
    \/ ReactorTask \/ EndPass \/ EndIterate

DestroyStep == \/ DestroyPoke \/ DestroyJoin \/ DrainTask \/ DrainStuck
               \/ DestroyDone

Next ==
    /\ pc # "aborted"
    /\ \/ UserStep \/ Fatal
       \/ BeginPass \/ PassStep \/ Sleep \/ Exit \/ Wake \/ SpuriousWake
       \/ \E t \in Thread : ForeignCall(t) \/ AddHandleTask(t)
       \/ DestroyFlag \/ DestroyStep
       \/ Tick \/ Forget

Spec == Init /\ [][Next]_vars

(* The reactor runs whenever it can, callbacks return, time passes.  A      *)
(* client of an external loop iterates when it was poked or when the delay  *)
(* it got has passed.  Clients are not obliged to call anything, and a      *)
(* caller may lose the race for a full task queue for ever.                 *)
LoopDue == Internal \/ notified \/ (wake_at # Never /\ clock >= wake_at)

Fairness ==
    /\ WF_vars(pc # "aborted" /\ PassStep)
    /\ WF_vars(pc # "aborted" /\ LoopDue /\ BeginPass)
    /\ WF_vars(pc # "aborted" /\ Sleep)
    /\ WF_vars(pc # "aborted" /\ Wake)
    /\ WF_vars(pc # "aborted" /\ Exit)
    /\ WF_vars(pc # "aborted" /\ Tick)
    /\ WF_vars(pc # "aborted" /\ DestroyStep)

FairSpec == Spec /\ Fairness

----------------------------------------------------------------------------
(* Properties *)

Time == Nat

\* Type correctness.
TypeOK ==
    /\ immed \in Seq(Node) /\ deferUsed \subseteq Node
    /\ deferQueue \subseteq Node /\ free \subseteq Node
    /\ callback \in [Node -> Call \cup {NoCall}]
    /\ cookie \in [Node -> 0 .. CookieMod - 1]
    /\ when \in [Node -> Time]
    /\ current_cookie \in 1 .. CookieMod - 1
    /\ canceled \in Nat
    /\ handle_tasks \in Seq(Thread) /\ Len(handle_tasks) <= TaskCapacity
    /\ request \in [Thread -> [op : {"none", "immediate", "deferred", "cancel",
                                     "release"},
                               call : Call \cup {NoCall}, delay : Delay \cup {0},
                               node : Node \cup {NoNode},
                               cookie : 0 .. CookieMod - 1]]
    /\ fpc \in [Thread -> {"idle", "push", "wait"}]
    /\ pc \in {"top", "immed", "immed_cb", "defer", "defer_cb", "tasks",
               "check", "asleep", "outside", "exit", "aborted"}
    /\ pos \in Nat /\ left \in Nat
    /\ running \in Node \cup {NoNode}
    /\ notified \in BOOLEAN
    /\ clock \in Time /\ last_now \in Time \cup {Never}
    /\ wake_at \in Time \cup {Never}
    /\ is_shutdown \in BOOLEAN
    /\ dtor \in {"none", "flagged", "joining", "draining", "stuck", "done"}
    /\ handles \subseteq [node : Node, cookie : 0 .. CookieMod - 1, call : Call]
    /\ status \in [Call -> {"unused", "requested", "pending", "running", "done",
                            "canceled"}]
    /\ due \in [Call -> Time] /\ epoch \in Time

\* Nodes that hold a call which the reactor has still to look at.
Unprocessed ==
    ({immed[i] : i \in pos + 1 .. Len(immed)} \cup deferUsed) \ {running}

\* A node is in one list at a time, and the deferred queue points to exactly
\* the nodes of the deferred list, through bursts, pops and compaction.
NodeOwnership ==
    /\ TypeOK
    /\ Distinct(immed)
    /\ Elements(immed) \cap deferUsed = {}
    /\ (Elements(immed) \cup deferUsed) \cap free = {}
    /\ deferQueue = deferUsed

\* canceled_handles, which decides when the deferred heap is compacted and
\* must not underflow, counts the dead nodes the reactor has still to meet.
CancelAccounting == canceled = Cardinality({n \in Unprocessed : cookie[n] = 0})

\* A call that was neither run nor canceled sits in exactly one live node of a
\* queue, and any other one in none: no burst limit, compaction or node reuse
\* loses, doubles or revives it.
PendingIsQueued ==
    \A c \in Call :
        Cardinality({n \in Unprocessed : cookie[n] # 0 /\ callback[n] = c})
            = IF status[c] = "pending" THEN 1 ELSE 0

\* Cookies make a Handle exact although nodes are reused: is_valid() holds, and
\* so cancel() acts, precisely while the handle's own call is pending.
HandleIdentity ==
    \A h \in handles :
        IsValid(h) <=> (status[h.call] = "pending" /\ callback[h.node] = h.call)

\* process() never waits on the condition variable while there is a request,
\* an immediate or a destructor that has already poked.
NoLostWakeup ==
    (pc = "asleep" /\ ~notified) =>
        immed = <<>> /\ handle_tasks = <<>> /\ dtor \in {"none", "flagged"}

\* The loop of README.md:94 may wait without a time limit: iterate() reported
\* no work, and whatever other threads queued since has poked.
ExternalLoopMayWait ==
    (pc = "outside" /\ wake_at = Never /\ ~notified) =>
        immed = <<>> /\ deferUsed = {} /\ handle_tasks = <<>>

\* The cached clock costs little precision: a deferred call starts no earlier
\* than its delay after the beginning of the pass (or of the pause between two
\* passes of an external loop) that scheduled it.
NotEarly ==
    [][\A c \in Call : (status[c] = "pending" /\ status'[c] = "running")
                          => clock >= due[c]]_vars

\* While the tool lives, every call is eventually run or canceled, also one
\* queued by a foreign thread just before the reactor goes to sleep.
CallsComplete ==
    \A c \in Call : status[c] = "pending" ~>
                        (status[c] \in {"done", "canceled"} \/ is_shutdown)

\* A queued request is served, although callbacks may keep issuing immediates
\* for ever and the reactor may be falling asleep.
RequestsReturn ==
    \A t \in Thread : fpc[t] = "wait" ~> (fpc[t] = "idle" \/ is_shutdown)

\* The destructor's join ends: the reactor notices is_shutdown also when it
\* is about to sleep.
ShutdownJoins == dtor = "flagged" ~> dtor = "draining"

=============================================================================
