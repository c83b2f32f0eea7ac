----------------------------- MODULE AsyncSteps -----------------------------
(***************************************************************************)
(* The step engine of src/src/asyncsteps.cpp: one BaseAsyncSteps instance  *)
(* (a "flow") on its reactor thread.                                       *)
(*                                                                         *)
(* All steps of a flow live in one deque, queue_: the root steps first,    *)
(* then the sub-steps of the running root step, then the sub-steps of the  *)
(* running sub-step, and so on.  Each running step remembers where its     *)
(* sub-steps begin (start) and which one is next (front); stack_top_ is    *)
(* the innermost running step.  What handlers do is the user's choice.     *)
(***************************************************************************)
EXTENDS Integers, Sequences, FiniteSets, Lists

CONSTANTS
    Step,        \* memory of the steps of the deque
    Timer,       \* memory of the timers (reactor handles) of setTimeout()
    None,
    MaxSub,      \* most steps one handler adds
    BurstSize,   \* BURST_SIZE
    MaxAllocs,   \* most objects of stack() at a time
    Mixes        \* sets of Features: what the user code of a flow does

(* "loop"          loops with break and continue                            *)
(* "loop_wait"     a loop body that waits in the loop step itself           *)
(* "await"         await() of another flow                                   *)
(* "stack"         stack() of the running step                               *)
(* "outer_stack"   stack() of the instance or of an outer step in a handler  *)
(* "wait"          setCancel() or waitExternal(), then success() by an event *)
(* "timeout"       setTimeout() in a step without sub-steps                 *)
(* "outer_timeout" setTimeout() in a step that adds sub-steps               *)
(* "late_override" error() in an on_error handler run by a timer            *)
(* "cancel"        cancel() of the flow                                     *)
(* "foreign"       success() or error() from another thread                 *)
(* "reuse"         execute() after an unhandled error                       *)
Features == {"loop", "loop_wait", "await", "stack", "outer_stack", "wait",
             "timeout", "outer_timeout", "late_override", "cancel", "foreign",
             "reuse"}

ASSUME StepsAssumption ==
    /\ IsFiniteSet(Step) /\ None \notin Step /\ None \notin Timer
    /\ MaxSub \in Nat \ {0} /\ BurstSize \in Nat \ {0} /\ MaxAllocs \in Nat
    /\ Mixes \subseteq SUBSET Features

VARIABLES
    queue,      \* queue_
    st,         \* the ProtectorData of each step
    allocs,     \* stack_allocs_: the step each object was allocated for (history)
    armed,      \* the step each pending timer will call, None when it is idle
    top,        \* stack_top_
    exec,       \* exec_handle_ is valid
    in_exec,    \* in_exec_
    error_code, \* error_code_, "" when empty
    pc,         \* "idle", or what the reactor is executing for this flow
    cur,        \* the local `current' of the unwinding and climbing loops
    sched,      \* sched_exec of execute_handler()
    burst,
    request,    \* step another thread is about to call success() on
    fatal,      \* the invalid call that ended the program, "" while it runs
    allow       \* the chosen mix

flow == <<queue, st, allocs, armed, top, error_code>>
loop == <<in_exec, sched, burst>>
vars == <<flow, exec, loop, pc, cur, request, fatal, allow>>

(* Operators whose names begin with Bug are deliberately wrong variants of  *)
(* the definition that follows them; see PROJECT.json, "mutants".           *)

----------------------------------------------------------------------------
(* Steps and their memory *)

\* A constructed ProtectorData.  `loop' is its ext_data_: "no" (none), of a loop
\* "go" (continue_loop) or "stop", of await() "poll" (continue_loop) or "done".
\* Two fields are history: the handler `ran', and in its latest run it `asked' to
\* wait for an event yet to come.
Fresh == [parent |-> None, start |-> 0, front |-> 0, on_error |-> FALSE,
          on_cancel |-> FALSE, loop |-> "no", limit |-> None,
          allocs |-> 0, ran |-> FALSE, asked |-> FALSE]

Alive == Elements(queue)

IsLoop(s) == st[s].loop \in {"go", "stop"}
Repeats(s) == st[s].loop \in {"go", "poll"}

\* stack_dealloc() for each of the steps D: as many objects as they count.
Popped(D) ==
    LET counted == UNION {{s} \X (1 .. st[s].allocs) : s \in D}
    IN  SubSeq(allocs, 1, Len(allocs) - Cardinality(counted))

\* limit_handle_ as a boolean: its timer is still pending.
Limited(s) == st[s].limit # None /\ armed[st[s].limit] = s

\* The timers left pending when the limit_handle_ of the steps D is canceled.
Disarm(D) == [t \in Timer |-> IF armed[t] \in D /\ st[armed[t]].limit = t
                              THEN None ELSE armed[t]]

\* is_sub_queue_empty()
SubEmpty(s) == st[s].front = Len(queue)

\* The steps sub_queue_free(s) destroys: everything from its first sub-step.
Subs(s) == {queue[i] : i \in st[s].start + 1 .. Len(queue)}

\* What a handler may add: at most MaxSub steps, in unused memory.  A loop has
\* no handler of its own for errors: loop_handler() installs the built-in one.
Kinds == [loop : {"no"}, on_error : BOOLEAN]
            \cup [loop : (IF "loop" \in allow THEN {"go"} ELSE {})
                            \cup IF "await" \in allow THEN {"poll"} ELSE {},
                  on_error : {FALSE}]

Additions(n, memory) ==
    {a \in [1 .. n -> [step : memory, kind : Kinds]] :
        \A i, j \in 1 .. n : a[i].step = a[j].step => i = j}

\* The records f after the steps a were constructed by parent p.
Construct(f, p, a) ==
    [s \in Step |->
        IF \E i \in DOMAIN a : a[i].step = s
        THEN LET i == CHOOSE i \in DOMAIN a : a[i].step = s
             IN  [Fresh EXCEPT !.parent = p, !.loop = a[i].kind.loop,
                               !.on_error = a[i].kind.on_error]
        ELSE f[s]]

\* The records f after the steps D were destroyed.
Destroy(f, D) == [s \in Step |-> IF s \in D THEN Fresh ELSE f[s]]

Ids(a) == [i \in DOMAIN a |-> a[i].step]

\* Back to what called: the burst loop of execute_handler(), or the reactor.
Return == pc' = IF in_exec THEN "exec" ELSE "idle"

\* schedule_exec()
Schedule == IF exec THEN fatal' = "already executed" /\ UNCHANGED exec
                    ELSE exec' = ~in_exec /\ UNCHANGED fatal

Codes == {"Error"} \cup IF "loop" \in allow THEN {"break", "continue"} ELSE {}

----------------------------------------------------------------------------
(* The calls from outside of handlers *)

Init ==
    /\ queue = <<>> /\ st = [s \in Step |-> Fresh] /\ allocs = <<>>
    /\ armed = [t \in Timer |-> None]
    /\ top = None /\ exec = FALSE /\ in_exec = FALSE /\ error_code = ""
    /\ pc = "idle" /\ cur = None /\ sched = FALSE /\ burst = 0
    /\ request = None /\ fatal = "" /\ allow \in Mixes

\* add() on the instance, then execute(): what sanity_check() lets through.
Execute ==
    /\ pc = "idle" /\ top = None /\ ~exec /\ queue = <<>>
    /\ error_code = "" \/ "reuse" \in allow
    /\ \E n \in 1 .. MaxSub : \E a \in Additions(n, Step) :
          queue' = Ids(a) /\ st' = Construct(st, None, a)
    /\ Schedule
    /\ UNCHANGED <<allocs, armed, top, error_code, loop, pc, cur, request>>

\* cancel() on the reactor thread, where a call of another thread is executed too:
\* every on_cancel_ of the stack is called, the timers are canceled and all steps
\* are destroyed.
Cancel ==
    /\ "cancel" \in allow /\ pc = "idle" /\ queue # <<>>
    /\ exec' = FALSE /\ top' = None /\ queue' = <<>>
    /\ st' = Destroy(st, Alive) /\ armed' = Disarm(Alive)
    /\ allocs' = Popped(Alive)
    /\ UNCHANGED <<error_code, loop, pc, cur, request, fatal>>

\* The step whose handler asked to wait is still the innermost one.
Waiting(s) == s = top /\ s # None /\ st[s].asked /\ SubEmpty(s)

BugSucceedKeepsTimer(s) ==
    cur' = st[s].parent /\ pc' = "climb" /\ UNCHANGED armed

\* handle_success_sync() of a step without sub-steps, up to its climbing loop.
Succeed(s) == /\ armed' = Disarm({s})
              /\ cur' = st[s].parent /\ pc' = "climb"

\* handle_error_sync() with unwind, up to its loop.
Raise(s, code) == error_code' = code /\ cur' = s /\ pc' = "unwind"

\* An event on the reactor thread ends the wait, with success() or error().
\* Clients end a wait once, here or on another thread.
ExternalEvent ==
    /\ pc = "idle" /\ Waiting(top)
    /\ st' = [st EXCEPT ![top].asked = FALSE]
    /\ \/ Succeed(top) /\ UNCHANGED error_code
       \/ Raise(top, "Error") /\ UNCHANGED armed
    /\ UNCHANGED <<queue, allocs, top, exec, loop, request, fatal>>

\* success() or error() on another thread: checked there, executed by a reactor
\* task.
ForeignCall ==
    /\ "foreign" \in allow /\ request = None /\ Waiting(top)
    /\ request' = top /\ st' = [st EXCEPT ![top].asked = FALSE]
    /\ UNCHANGED <<queue, allocs, armed, top, error_code, exec, loop, pc, cur,
                   fatal>>

ForeignTask ==
    /\ pc = "idle" /\ request # None /\ request' = None
    /\ IF request = top /\ SubEmpty(request)
       THEN /\ \/ Succeed(request) /\ UNCHANGED error_code
               \/ Raise(request, "Error") /\ UNCHANGED armed
            /\ UNCHANGED fatal
       ELSE /\ fatal' = "success() or error() out of order"
            /\ UNCHANGED <<armed, error_code, cur, pc>>
    /\ UNCHANGED <<queue, st, allocs, top, exec, loop>>

\* The reactor runs the deferred() call of setTimeout() on its step.
TimerFire(t) ==
    /\ pc = "idle" /\ armed[t] # None
    /\ armed' = [armed EXCEPT ![t] = None]
    /\ IF armed[t] = top
       THEN Raise(top, "Timeout") /\ UNCHANGED fatal
       ELSE /\ fatal' = IF armed[t] \in Alive THEN "Step used out-of-order!"
                                              ELSE "Step got invalidated!"
            /\ UNCHANGED <<error_code, cur, pc>>
    /\ UNCHANGED <<queue, st, allocs, top, exec, loop, request>>

----------------------------------------------------------------------------
(* execute_handler(): a burst of steps *)

BeginBurst ==
    /\ pc = "idle" /\ exec
    /\ exec' = FALSE /\ in_exec' = TRUE /\ sched' = TRUE /\ burst' = BurstSize
    /\ pc' = "exec"
    /\ UNCHANGED <<flow, cur, request, fatal>>

MoreToRun == sched /\ burst > 0 /\ queue # <<>>

EndBurst ==
    /\ pc = "exec" /\ ~MoreToRun
    /\ in_exec' = FALSE /\ pc' = "idle"
    /\ exec' = (sched /\ queue # <<>>)
    /\ sched' = FALSE /\ burst' = 0
    /\ UNCHANGED <<flow, cur, request, fatal>>

NextStep == IF top = None THEN Head(queue) ELSE queue[st[top].front + 1]

\* The records when the handler of s is called; loop_handler() first puts the
\* built-in error handler back and frees the objects of the last iteration.
Started(s) == [st EXCEPT ![s].start = Len(queue), ![s].front = Len(queue),
                         ![s].on_error = @ \/ IsLoop(s),
                         ![s].allocs = IF IsLoop(s) THEN 0 ELSE @,
                         ![s].ran = TRUE, ![s].asked = FALSE]

Objects(s) == IF IsLoop(s) THEN Popped({s}) ELSE allocs

\* The handler of s, of which f are the records so far, adds the steps a, asks to
\* wait (w) and sets a timeout with timer t, and ends: "return", "success" or an
\* error code.
Handler(s, f, a, w, t, end) ==
    LET g == [Construct(f, s, a) EXCEPT
                ![s].on_cancel = @ \/ w,
                ![s].limit = IF t = None THEN @ ELSE t,
                ![s].asked = end = "return" /\ a = <<>> /\ (w \/ t # None)]
        blocked == g[s].on_cancel \/ t # None \/ Limited(s)
    IN  /\ queue' = queue \o Ids(a) /\ st' = g
        /\ \/ /\ end = "success" /\ a = <<>> /\ t = None
              /\ Succeed(s) /\ UNCHANGED <<sched, error_code>>
           \/ /\ end # "success"
              /\ armed' = IF t = None THEN armed ELSE [armed EXCEPT ![t] = s]
              /\ \/ /\ end # "return" \/ error_code # ""
                    /\ Raise(s, IF end # "return" THEN end ELSE error_code)
                    /\ UNCHANGED sched
                 \/ /\ end = "return" /\ error_code = ""
                    /\ IF a = <<>> /\ ~blocked
                       THEN cur' = st[s].parent /\ pc' = "climb"
                       ELSE UNCHANGED <<cur, pc>>
                    /\ sched' = (a # <<>> \/ ~blocked)
                    /\ UNCHANGED error_code

\* Whose stack() the handler of s may call: its own, or, with None for that of the
\* instance, one further out.
Allocators(s) ==
    IF Len(Objects(s)) >= MaxAllocs THEN {}
    ELSE (IF "stack" \in allow THEN {s} ELSE {})
           \cup IF "outer_stack" \in allow
                THEN {None} \cup {p \in Alive : \E r \in Alive : st[r].parent = p}
                ELSE {}

\* The records f after stack() of the step o, which is counted there, or of the
\* instance.
Counted(f, o) == IF o = None THEN f ELSE [f EXCEPT ![o].allocs = @ + 1]

\* What user code does in a handler, as far as the mix goes.
UserHandler(s) ==
    \E n \in 0 .. MaxSub, w \in BOOLEAN, t \in {None} \cup Timer,
       end \in {"return", "success"} \cup Codes :
        /\ w => /\ "wait" \in allow
                /\ IsLoop(s) => "loop_wait" \in allow
        /\ t # None => /\ armed[t] = None
                       /\ n = 0 => "timeout" \in allow
                       /\ n > 0 => "outer_timeout" \in allow
        /\ \E a \in Additions(n, Step \ Alive) :
              \/ /\ allocs' = Objects(s)
                 /\ Handler(s, Started(s), a, w, t, end)
              \/ \E o \in Allocators(s) :
                    /\ allocs' = Append(Objects(s), o)
                    /\ Handler(s, Counted(Started(s), o), a, w, t, end)

\* The condition of a loop is false.
LoopEnds(s) ==
    /\ st[s].loop = "go" /\ allocs' = Objects(s)
    /\ Handler(s, [Started(s) EXCEPT ![s].loop = "stop"], <<>>, FALSE, None, "return")

\* await_handler(): poll again unless the awaited flow is done or failed.
AwaitHandler(s) ==
    /\ UNCHANGED allocs
    /\ \E l \in {"poll", "done"}, end \in {"return", "Error"} :
          /\ end = "Error" => l = "done"
          /\ Handler(s, [Started(s) EXCEPT ![s].loop = l], <<>>, FALSE, None, end)

BugBurstLeft == burst

BurstLeft == burst - 1

RunStep ==
    /\ pc = "exec" /\ MoreToRun
    /\ top' = NextStep /\ burst' = BurstLeft
    /\ IF st[NextStep].loop \in {"poll", "done"}
       THEN AwaitHandler(NextStep)
       ELSE UserHandler(NextStep) \/ LoopEnds(NextStep)
    /\ UNCHANGED <<exec, in_exec, request, fatal>>

----------------------------------------------------------------------------
(* The climbing loop of handle_success_sync(), one parent at a time *)

BugShifted(p) == IF st[queue[st[p].front + 1]].loop # "no"
                 THEN st[p].front ELSE st[p].front + 1

\* The queue position of p's next sub-step: one that repeats stays.
Shifted(p) == IF Repeats(queue[st[p].front + 1])
              THEN st[p].front ELSE st[p].front + 1

Climb ==
    /\ pc = "climb" /\ cur # None
    /\ IF Shifted(cur) # Len(queue)
       THEN /\ st' = [st EXCEPT ![cur].front = Shifted(cur)]
            /\ top' = cur /\ Schedule /\ Return
            /\ UNCHANGED <<queue, allocs, armed, cur>>
       ELSE /\ queue' = SubSeq(queue, 1, st[cur].start)
            /\ st' = [Destroy(st, Subs(cur)) EXCEPT ![cur].front = Shifted(cur)]
            /\ armed' = Disarm(Subs(cur)) /\ allocs' = Popped(Subs(cur))
            /\ cur' = st[cur].parent
            /\ UNCHANGED <<top, exec, pc, fatal>>
    /\ UNCHANGED <<error_code, loop, request>>

BugClimbRootIdle ==
    /\ pc = "climb" /\ cur = None /\ top' = None /\ Return
    /\ queue' = Tail(queue) /\ st' = Destroy(st, {Head(queue)})
    /\ armed' = Disarm({Head(queue)}) /\ allocs' = Popped({Head(queue)})
    /\ UNCHANGED <<error_code, exec, fatal, loop, cur, request>>

\* Above the root step: cond_queue_shift().
ClimbRoot ==
    /\ pc = "climb" /\ cur = None
    /\ top' = None /\ Return
    /\ IF Repeats(Head(queue))
       THEN UNCHANGED <<queue, st, allocs, armed>>
       ELSE /\ queue' = Tail(queue)
            /\ st' = Destroy(st, {Head(queue)})
            /\ armed' = Disarm({Head(queue)}) /\ allocs' = Popped({Head(queue)})
    /\ IF queue' # <<>> THEN Schedule ELSE UNCHANGED <<exec, fatal>>
    /\ UNCHANGED <<error_code, loop, cur, request>>

----------------------------------------------------------------------------
(* The loop of handle_error_sync(), one level at a time *)

Kept == SubSeq(queue, 1, st[cur].start)

BugUnwoundKeepsFront ==
    [Destroy(st, Subs(cur)) EXCEPT ![cur].on_cancel = FALSE,
                                   ![cur].on_error = FALSE]

BugUnwoundKeepsHandler ==
    [Destroy(st, Subs(cur)) EXCEPT ![cur].front = st[cur].start,
                                   ![cur].on_cancel = FALSE]

\* The level's sub-steps are destroyed; its timer, its on_cancel_ and its
\* on_error_ are used up.
Unwound == [Destroy(st, Subs(cur)) EXCEPT
               ![cur].front = st[cur].start,
               ![cur].on_cancel = FALSE, ![cur].on_error = FALSE]

BugSpent == Subs(cur)

\* The steps whose timers the level cancels.
Spent == Subs(cur) \cup {cur}

\* The loop state l after the built-in on_error handler of a loop saw the code,
\* with a label that is the loop's own or not.
LoopAfter(l, own) ==
    IF l = "go" /\ (own \/ error_code # "break") /\ error_code # "continue"
    THEN "stop" ELSE l

BugRecoverKeepsCode(f) ==
    /\ st[cur].on_error /\ st[cur].loop = "no"
    /\ st' = f /\ queue' = Kept /\ cur' = st[cur].parent /\ pc' = "climb"
    /\ UNCHANGED <<top, exec, fatal, error_code>>

\* The on_error handler calls success(); the built-in one of a loop does so for
\* continueLoop() and breakLoop() with its label.
Recover(f) ==
    /\ st[cur].on_error
    /\ IsLoop(cur) => error_code \in {"break", "continue"}
    /\ st' = [f EXCEPT ![cur].loop = LoopAfter(@, TRUE)]
    /\ queue' = Kept /\ error_code' = ""
    /\ cur' = st[cur].parent /\ pc' = "climb"
    /\ UNCHANGED <<top, exec, fatal>>

\* The on_error handler adds sub-steps instead.
Substitute(f) ==
    /\ st[cur].on_error /\ st[cur].loop = "no"
    /\ \E n \in 1 .. MaxSub : \E a \in Additions(n, Step \ Elements(Kept)) :
          queue' = Kept \o Ids(a) /\ st' = Construct(f, cur, a)
    /\ error_code' = "" /\ Schedule /\ Return
    /\ UNCHANGED <<top, cur>>

\* There is no handler, or it returns, or the code is not for this loop.
Propagate(f) ==
    /\ st' = [f EXCEPT ![cur].loop =
                 IF st[cur].on_error THEN LoopAfter(@, FALSE) ELSE @]
    /\ queue' = Kept
    /\ cur' = st[cur].parent /\ top' = st[cur].parent
    /\ UNCHANGED <<error_code, pc, exec, fatal>>

\* The on_error handler calls error().  Outside of execute_handler() that call
\* unwinds the flow itself, and destroys `current' before it throws.
Override(f) ==
    /\ st[cur].on_error /\ st[cur].loop = "no"
    /\ queue' = Kept /\ st' = f
    /\ IF in_exec
       THEN /\ error_code' \in Codes
            /\ cur' = st[cur].parent /\ top' = st[cur].parent
            /\ UNCHANGED fatal
       ELSE /\ "late_override" \in allow /\ fatal' = "use after destruction"
            /\ UNCHANGED <<error_code, cur, top>>
    /\ UNCHANGED <<pc, exec>>

Unwind ==
    /\ pc = "unwind" /\ cur # None
    /\ armed' = Disarm(Spent) /\ allocs' = Popped(Subs(cur))
    /\ \/ Recover(Unwound)
       \/ Substitute(Unwound)
       \/ Propagate(Unwound)
       \/ Override(Unwound)
    /\ UNCHANGED <<loop, request>>

\* No level handled the error: clear_queue() and unhandled_error(), which
\* leave error_code_ as it is.
UnwindRoot ==
    /\ pc = "unwind" /\ cur = None
    /\ queue' = <<>> /\ st' = Destroy(st, Alive) /\ armed' = Disarm(Alive)
    /\ allocs' = Popped(Alive) /\ Return
    /\ UNCHANGED <<top, error_code, exec, loop, cur, request, fatal>>

----------------------------------------------------------------------------
Engine == BeginBurst \/ RunStep \/ EndBurst \/ Climb \/ ClimbRoot
            \/ Unwind \/ UnwindRoot

Running == fatal = "" /\ UNCHANGED allow

Next ==
    /\ Running
    /\ \/ Execute
       \/ Engine
       \/ \E t \in Timer : TimerFire(t)
       \/ ExternalEvent
       \/ ForeignCall
       \/ ForeignTask
       \/ Cancel

Spec == Init /\ [][Next]_vars

\* The reactor runs its immediates, deferreds and tasks; the client ends every
\* wait it asked for.
FairSpec ==
    /\ Spec
    /\ WF_vars(Running /\ Engine)
    /\ WF_vars(Running /\ ExternalEvent)
    /\ WF_vars(Running /\ ForeignTask)
    /\ \A t \in Timer : WF_vars(Running /\ TimerFire(t))

----------------------------------------------------------------------------
(* Properties *)

InvalidCalls == {"already executed", "success() or error() out of order",
                 "Step used out-of-order!", "Step got invalidated!",
                 "use after destruction"}

\* Type correctness of the engine.
TypeOK ==
    /\ queue \in Seq(Step) /\ Len(queue) <= Cardinality(Step)
    /\ st \in [Step -> [parent : Step \cup {None}, start : Nat, front : Nat,
                         on_error : BOOLEAN, on_cancel : BOOLEAN,
                         loop : {"no", "go", "stop", "poll", "done"},
                         limit : Timer \cup {None}, allocs : Nat,
                         ran : BOOLEAN, asked : BOOLEAN]]
    /\ armed \in [Timer -> Step \cup {None}]
    /\ allocs \in Seq(Step \cup {None}) /\ Len(allocs) <= MaxAllocs
    /\ top \in Step \cup {None} /\ cur \in Step \cup {None}
    /\ exec \in BOOLEAN /\ in_exec \in BOOLEAN /\ sched \in BOOLEAN
    /\ error_code \in {"", "Timeout"} \cup Codes
    /\ pc \in {"idle", "exec", "climb", "unwind"}
    /\ burst \in 0 .. BurstSize
    /\ request \in Step \cup {None}
    /\ fatal \in {""} \cup InvalidCalls

Position(s) == CHOOSE i \in DOMAIN queue : queue[i] = s

\* The one deque always holds a tree: no step twice; the sub-steps of a step
\* are a run that begins at its `start', after the step itself; its `front' is
\* inside that run; and the innermost step is the one its parent's `front'
\* points to (cond_sub_queue_shift and is_sub_queue_empty rely on all this).
DequeIsTree ==
    /\ TypeOK
    /\ Distinct(queue)
    /\ \A s \in Alive :
          LET p == st[s].parent IN
          p # None => /\ p \in Alive /\ Position(p) <= st[p].start
                      /\ st[p].start <= st[p].front /\ st[p].front < Len(queue)
                      /\ \A i \in st[p].start + 1 .. Position(s) :
                            st[queue[i]].parent = p
    /\ pc \in {"idle", "exec"} /\ top # None =>
          /\ top \in Alive /\ st[top].ran
          /\ queue[IF st[top].parent = None THEN 1
                   ELSE st[st[top].parent].front + 1] = top
          /\ \A i \in st[top].start + 1 .. Len(queue) :
                st[queue[i]].parent = top

\* A handler is called when every earlier step of its parent has run and no
\* later one has, and, unless it loops or polls, for the first time.
InOrder ==
    pc = "exec" /\ burst' # burst /\ in_exec' =>
        \A s \in Alive :
            st[s].parent = st[top'].parent =>
              /\ Position(s) < Position(top') => st[s].ran
              /\ Position(s) > Position(top') => ~st[s].ran
              /\ s = top' /\ st[s].ran => Repeats(s)

RunsInOrder == [][InOrder]_vars

\* A flow rests only where it was told to: with nothing scheduled and steps
\* left, the innermost step's handler asked for the wait in its latest run.
NoStall == pc = "idle" /\ ~exec /\ queue # <<>> /\ fatal = "" =>
              top # None /\ (Waiting(top) \/ request = top)

\* Between bursts the only pending timer is the one of the innermost step, so
\* a timer never calls a destroyed step or one that is no longer current.  And
\* the objects are those of live steps, of each as many as it counts: none is
\* freed before its step, none is left when the step is gone.
ResourcesFollowPath ==
    fatal = "" =>
        /\ pc = "idle" => \A t \in Timer : armed[t] \in {None, top}
        /\ \A s \in Step : Cardinality({i \in DOMAIN allocs : allocs[i] = s})
                               = IF s \in Alive THEN st[s].allocs ELSE 0

\* No error code is left over when the next handler is about to run, so that a
\* handler that returns normally succeeds.
NoStaleError == pc = "exec" /\ queue # <<>> => error_code = ""

\* The library never runs into its own on_invalid_call() or a destroyed step.
NoInvalidCall == fatal = ""

\* A flow ends, by success or by an unhandled error, unless it keeps running a
\* loop.
FlowEnds ==
    queue # <<>> ~> queue = <<>> \/ \E s \in Alive : Repeats(s)

\* A flow gives the reactor thread back, even inside an endless loop.
BurstEnds == in_exec ~> ~in_exec

=============================================================================
