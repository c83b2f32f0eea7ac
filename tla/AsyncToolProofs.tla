-------------------------- MODULE AsyncToolProofs --------------------------
(* Proofs about the reactor, for every number of nodes, calls and threads,  *)
(* every burst limit and every delay.                                       *)
EXTENDS AsyncTool, FiniteSetTheorems, TLAPS

\* The lists of nodes.
INSTANCE ListProofs WITH None <- NoNode

(* Why the reactor cannot sleep through a wake-up.  NoLostWakeup alone is    *)
(* not inductive: one has to know that a destructor that was seen "unset"    *)
(* under the lock has not poked yet (first conjunct), and that the queues    *)
(* are not touched while the reactor's own thread has exited.                *)
WakeInv ==
    /\ NoLostWakeup
    /\ dtor # "none" => is_shutdown = TRUE
    /\ dtor \in {"none", "flagged", "joining", "draining", "stuck", "done"}
    /\ dtor \in {"draining", "stuck", "done"} => pc \in {"exit", "outside", "aborted"}

\* The parts of the state that WakeInv speaks of.
WakeVars == <<immed, handle_tasks, pc, notified, is_shutdown, dtor>>

LEMMA InitWake == Init => WakeInv
  BY DEF Init, WakeInv, NoLostWakeup

\* Only the reactor in user code, or a task, adds to the queues.
LEMMA UserKeepsWake == WakeInv /\ UserStep => WakeInv'
  <1> SUFFICES ASSUME WakeInv, UserStep PROVE WakeInv'
    OBVIOUS
  <1>1. UNCHANGED <<handle_tasks, pc, notified, is_shutdown, dtor>>
    BY DEF UserStep, foreign, reactor, life
  <1>2. pc # "asleep"
    BY DEF UserStep, UserCode
  <1> QED
    BY <1>1, <1>2 DEF WakeInv, NoLostWakeup

LEMMA TaskKeepsWake == WakeInv /\ (ReactorTask \/ DrainTask) => WakeInv'
  <1> SUFFICES ASSUME WakeInv, ReactorTask \/ DrainTask PROVE WakeInv'
    OBVIOUS
  <1>1. UNCHANGED <<pc, notified, is_shutdown, dtor>>
    BY DEF ReactorTask, DrainTask, RunTask, wait, life
  <1>2. pc # "asleep"
    BY DEF ReactorTask, DrainTask, WakeInv
  <1> QED
    BY <1>1, <1>2 DEF WakeInv, NoLostWakeup

\* A step of a pass starts and ends on the reactor, awake.
LEMMA PassKeepsWake == WakeInv /\ PassStep => WakeInv'
  <1> SUFFICES ASSUME WakeInv, PassStep PROVE WakeInv'
    OBVIOUS
  <1>1. CASE ReactorTask
    BY <1>1, TaskKeepsWake
  <1>2. CASE ~ReactorTask
    <2>1. UNCHANGED <<is_shutdown, dtor>>
      BY <1>2 DEF PassStep, RunImmediate, ReturnImmediate, SkipImmediate,
          EndImmediates, RunDeferred, ReturnDeferred, SkipDeferred, EndDeferred,
          EndPass, EndIterate, Start, Finish, Skip, life
    <2>2. pc \notin {"exit", "outside", "aborted"} /\ pc' # "asleep"
      BY <1>2 DEF PassStep, RunImmediate, ReturnImmediate, SkipImmediate,
          EndImmediates, RunDeferred, ReturnDeferred, SkipDeferred, EndDeferred,
          EndPass, EndIterate, Skip, ImmediateNext
    <2> QED
      BY <2>1, <2>2 DEF WakeInv, NoLostWakeup
  <1> QED
    BY <1>1, <1>2

\* A request is pushed and poked in one critical section.
LEMMA PushKeepsWake ==
    ASSUME NEW t, WakeInv, AddHandleTask(t) PROVE WakeInv'
  <1>1. UNCHANGED <<immed, pc, is_shutdown, dtor>>
    BY DEF AddHandleTask, data, lists, reactor, life
  <1>2. pc = "asleep" => notified' = TRUE
    BY DEF AddHandleTask, Poke
  <1> QED
    BY <1>1, <1>2 DEF WakeInv, NoLostWakeup

LEMMA LoopKeepsWake ==
    WakeInv /\ (BeginPass \/ Sleep \/ Exit \/ Wake \/ SpuriousWake) => WakeInv'
  <1> SUFFICES ASSUME WakeInv, BeginPass \/ Sleep \/ Exit \/ Wake \/ SpuriousWake
               PROVE WakeInv'
    OBVIOUS
  <1>1. CASE Sleep
    <2>1. UNCHANGED <<immed, handle_tasks, is_shutdown, dtor>>
      BY <1>1 DEF Sleep, data, lists, foreign, life
    <2>2. pc' = "asleep" => immed = <<>> /\ handle_tasks = <<>>
      BY <1>1 DEF Sleep, HasWork
    <2>3. pc' = "asleep" => dtor \in {"none", "flagged"}
      BY <1>1 DEF Sleep, ShutdownReads, WakeInv
    <2>4. pc = "check"
      BY <1>1 DEF Sleep
    <2> QED
      BY <2>1, <2>2, <2>3, <2>4 DEF WakeInv, NoLostWakeup
  <1>2. CASE BeginPass \/ Exit \/ Wake \/ SpuriousWake
    <2>1. UNCHANGED <<is_shutdown, dtor>>
      BY <1>2 DEF BeginPass, Exit, Wake, SpuriousWake, WakeIf, life
    <2>2. pc' # "asleep"
      BY <1>2 DEF BeginPass, Exit, Wake, SpuriousWake, WakeIf
    <2>3. \/ pc' = "exit"
          \/ dtor \notin {"draining", "stuck", "done"}
      BY <1>2 DEF BeginPass, Exit, Wake, SpuriousWake, WakeIf, WakeInv
    <2> QED
      BY <2>1, <2>2, <2>3 DEF WakeInv, NoLostWakeup
  <1> QED
    BY <1>1, <1>2

\* The destructor sets the flag, then pokes, then joins.
LEMMA DestroyKeepsWake ==
    WakeInv /\ (DestroyFlag \/ DestroyStep) => WakeInv'
  <1> SUFFICES ASSUME WakeInv, DestroyFlag \/ DestroyStep PROVE WakeInv'
    OBVIOUS
  <1>1. CASE DrainTask
    BY <1>1, TaskKeepsWake
  <1>2. CASE DestroyPoke
    <2>1. UNCHANGED <<immed, handle_tasks, pc, is_shutdown>>
      BY <1>2 DEF DestroyPoke, data, lists, foreign, reactor
    <2>2. dtor = "flagged" /\ dtor' = "joining"
      BY <1>2 DEF DestroyPoke
    <2>3. pc = "asleep" => notified' = TRUE
      BY <1>2 DEF DestroyPoke, Poke
    <2> QED
      BY <2>1, <2>2, <2>3 DEF WakeInv, NoLostWakeup
  <1>3. CASE DestroyFlag
    <2>1. UNCHANGED <<immed, handle_tasks, pc, notified>>
      BY <1>3 DEF DestroyFlag, data, lists, foreign, wait
    <2>2. /\ is_shutdown' = TRUE /\ dtor = "none"
          /\ dtor' = "flagged" \/ (dtor' = "draining" /\ pc = "outside")
      BY <1>3 DEF DestroyFlag
    <2> QED
      BY <2>1, <2>2 DEF WakeInv, NoLostWakeup
  <1>4. CASE DestroyJoin \/ DrainStuck \/ DestroyDone
    <2>1. UNCHANGED <<immed, handle_tasks, pc, notified, is_shutdown>>
      BY <1>4 DEF DestroyJoin, DrainStuck, DestroyDone, data, lists, foreign,
                  reactor, wait
    <2>2. /\ dtor \in {"joining", "draining"}
          /\ dtor' \in {"draining", "stuck", "done"}
          /\ dtor = "joining" => pc = "exit"
      BY <1>4 DEF DestroyJoin, DrainStuck, DestroyDone
    <2> QED
      BY <2>1, <2>2 DEF WakeInv, NoLostWakeup
  <1> QED
    BY <1>1, <1>2, <1>3, <1>4 DEF DestroyStep

LEMMA StepKeepsWake == WakeInv /\ [Next]_vars => WakeInv'
  <1> SUFFICES ASSUME WakeInv, [Next]_vars PROVE WakeInv'
    OBVIOUS
  <1>1. CASE UserStep
    BY <1>1, UserKeepsWake
  <1>2. CASE Fatal
    <2>1. UNCHANGED <<immed, handle_tasks, notified, is_shutdown, dtor>>
          /\ pc' = "aborted"
      BY <1>2 DEF Fatal, data, lists, foreign, wait, life
    <2> QED
      BY <2>1 DEF WakeInv, NoLostWakeup
  <1>3. CASE PassStep
    BY <1>3, PassKeepsWake
  <1>4. CASE BeginPass \/ Sleep \/ Exit \/ Wake \/ SpuriousWake
    BY <1>4, LoopKeepsWake
  <1>5. ASSUME NEW t \in Thread, AddHandleTask(t) PROVE WakeInv'
    BY <1>5, PushKeepsWake
  <1>6. CASE DestroyFlag \/ DestroyStep
    BY <1>6, DestroyKeepsWake
  <1>7. CASE UNCHANGED WakeVars
    BY <1>7 DEF WakeVars, WakeInv, NoLostWakeup
  <1>8. ASSUME NEW t \in Thread, ForeignCall(t) PROVE UNCHANGED WakeVars
    BY <1>8 DEF ForeignCall, WakeVars, data, lists, foreign, reactor, wait, life
  <1>9. Tick \/ Forget \/ UNCHANGED vars => UNCHANGED WakeVars
    BY DEF Tick, Forget, WakeVars, vars, data, lists, foreign, reactor, wait, life
  <1> QED
    BY <1>1, <1>2, <1>3, <1>4, <1>5, <1>6, <1>7, <1>8, <1>9 DEF Next

(* The reactor never sleeps on work: whatever the interleaving of process() *)
(* with add_handle_task() and ~Impl(), if it is in its wait and has not been *)
(* notified, then no request and no immediate is queued.                    *)
THEOREM ReactorNeverMissesWork == Spec => []NoLostWakeup
  <1>1. WakeInv => NoLostWakeup
    BY DEF WakeInv
  <1> QED
    BY <1>1, InitWake, StepKeepsWake, PTL DEF Spec

----------------------------------------------------------------------------
(* The nodes, calls and handles *)

(* Why the lists stay apart and no call is lost.  NodeOwnership is not      *)
(* inductive: one has to know where the reactor stands in its lists         *)
(* (Placed), that the time it has cached keeps the deferred node that runs  *)
(* on top of the queue (Placed, Times), and that a node is live exactly     *)
(* while it holds a pending call of its own (LiveHoldCalls), so that the    *)
(* node a Handle or a request may cancel is still to be met (Asked).        *)

Callbacks == {"immed_cb", "defer_cb"}

DataType ==
    /\ immed \in Seq(Node) /\ deferUsed \subseteq Node
    /\ deferQueue \subseteq Node /\ free \subseteq Node
    /\ callback \in [Node -> Call \cup {NoCall}]
    /\ cookie \in [Node -> 0 .. CookieMod - 1]
    /\ when \in [Node -> Time]
    /\ current_cookie \in 1 .. CookieMod - 1
    /\ clock \in Time /\ last_now \in Time \cup {Never}
    /\ handles \subseteq [node : Node, cookie : 0 .. CookieMod - 1, call : Call]
    /\ status \in [Call -> {"unused", "requested", "pending", "running", "done",
                            "canceled"}]
    /\ due \in [Call -> Time] /\ epoch \in Time
    /\ pos \in Nat /\ running \in Node \cup {NoNode}
    /\ pc \in {"top", "immed", "immed_cb", "defer", "defer_cb", "tasks",
               "check", "asleep", "outside", "exit", "aborted"}

\* Where the reactor stands in its lists.
Placed ==
    /\ pos <= Len(immed)
    /\ pc # "aborted" =>
         /\ pc \notin {"immed", "immed_cb"} => pos = 0
         /\ pc \notin Callbacks => running = NoNode
    /\ pc \in Callbacks => running \in Node
    /\ pc = "immed_cb" => pos < Len(immed) /\ running = immed[pos + 1]
    /\ pc = "defer_cb" => /\ running \in deferUsed /\ when[running] <= last_now
                          /\ \A m \in deferUsed : when[running] <= when[m]

\* The lists share no node.
Apart ==
    /\ Distinct(immed)
    /\ Elements(immed) \cap deferUsed = {}
    /\ (Elements(immed) \cup deferUsed) \cap free = {}
    /\ deferQueue = deferUsed

LiveNodes == {n \in Node : cookie[n] # 0}

\* A live node holds a pending call of its own, and every pending call has one.
LiveHoldCalls ==
    /\ \A n \in LiveNodes : /\ n \in Unprocessed /\ callback[n] \in Call
                            /\ status[callback[n]] = "pending"
    /\ \A m, n \in LiveNodes : callback[m] = callback[n] => m = n
    /\ \A c \in Call : status[c] = "pending" => \E n \in LiveNodes : callback[n] = c
    /\ pc \in Callbacks => callback[running] \in Call
                           /\ status[callback[running]] = "running"

\* The cached time is at most the clock, and at least the start of the pass.
Times ==
    /\ epoch <= clock
    /\ last_now # Never => epoch <= last_now /\ last_now <= clock
    /\ \A n \in LiveNodes :
         due[callback[n]] <= IF n \in deferUsed THEN when[n] ELSE 0

HandlesWereLive == \A h \in handles : h.cookie # 0

NodeInv == /\ DataType /\ Placed /\ Apart /\ LiveHoldCalls /\ Times
           /\ HandlesWereLive /\ CancelAccounting

----------------------------------------------------------------------------
(* Cookies and counts *)

\* get_cookie() stays in range and skips zero, on wrap-around too.
LEMMA CookiesAreNotZero ==
    ASSUME NEW c \in 1 .. CookieMod - 1
    PROVE  NextCookie(c) \in 1 .. CookieMod - 1
           /\ (c + 1 < CookieMod => NextCookie(c) = c + 1)
  <1>1. CookieMod \in Nat /\ CookieMod > 1
    BY ToolAssumption
  <1>2. CASE c + 1 = CookieMod
    <2>1. (c + 1) % CookieMod = 0
      BY <1>1, <1>2
    <2> QED
      BY <1>1, <1>2, <2>1 DEF NextCookie
  <1>3. CASE c + 1 < CookieMod
    <2>1. (c + 1) % CookieMod = c + 1
      BY <1>1, <1>3
    <2> QED
      BY <1>1, <1>3, <2>1 DEF NextCookie
  <1> QED
    BY <1>1, <1>2, <1>3

Dead == {n \in Unprocessed : cookie[n] = 0}

LEMMA NodesAreCounted ==
    ASSUME NEW S, S \subseteq Node
    PROVE  IsFiniteSet(S) /\ Cardinality(S) \in Nat
  BY EnoughNodes, FS_Subset, FS_CardinalityType

LEMMA UnprocessedAreNodes ==
    ASSUME DataType PROVE Unprocessed \subseteq Node
  BY DEF DataType, Unprocessed

\* The counter never goes below zero.
LEMMA CanceledIsNat ==
    ASSUME DataType, CancelAccounting PROVE canceled \in Nat
  BY UnprocessedAreNodes, NodesAreCounted DEF CancelAccounting

LEMMA SameDead ==
    ASSUME CancelAccounting, Dead' = Dead, canceled' = canceled
    PROVE  CancelAccounting'
  BY DEF CancelAccounting, Dead

LEMMA MoreDead ==
    ASSUME DataType, CancelAccounting, NEW n \in Node, n \notin Dead,
           Dead' = Dead \cup {n}, canceled' = canceled + 1
    PROVE  CancelAccounting'
  BY UnprocessedAreNodes, NodesAreCounted, FS_AddElement DEF CancelAccounting, Dead

LEMMA LessDead ==
    ASSUME DataType, CancelAccounting, NEW n \in Dead,
           Dead' = Dead \ {n}, canceled' = canceled - 1
    PROVE  CancelAccounting'
  BY UnprocessedAreNodes, NodesAreCounted, FS_RemoveElement DEF CancelAccounting, Dead

----------------------------------------------------------------------------
(* A new call: immediate() and deferred() *)

\* The reactor's place is not moved by what is done to its lists meanwhile.
Stays == UNCHANGED <<pc, pos, running, clock, epoch>>

\* The memory of a new call holds no other one.
LEMMA IssuedNodeIsNew ==
    ASSUME NodeInv, pc # "aborted", NEW c \in Call, NEW n \in Node, Issue(n, c)
    PROVE  /\ n \notin Elements(immed) \cup deferUsed
           /\ n \notin Unprocessed /\ n \notin LiveNodes /\ n # running
           /\ free' = free \ {n} /\ free' \subseteq Node
  <1>1. n \notin Elements(immed) \cup deferUsed
    BY DEF Issue, NodeInv, Apart
  <1>2. Unprocessed \subseteq Elements(immed) \cup deferUsed
    <2>1. pos + 1 .. Len(immed) \subseteq DOMAIN immed
      BY DEF NodeInv, DataType
    <2> QED
      BY <2>1 DEF Unprocessed, Elements
  <1>3. n # running
    <2>1. pc = "immed_cb" => running \in Elements(immed)
      BY DEF NodeInv, DataType, Placed, Elements
    <2> QED
      BY <1>1, <2>1, ToolAssumption DEF NodeInv, Placed, Callbacks
  <1> QED
    BY <1>1, <1>2, <1>3 DEF Issue, NodeInv, LiveHoldCalls, DataType

\* What a new call changes apart from the list that it joins.
LEMMA IssueKeeps ==
    ASSUME NodeInv, pc # "aborted", NEW c \in Call,
           status[c] \in {"unused", "requested"},
           NEW n \in Node, Issue(n, c), Stays,
           Unprocessed' = Unprocessed \cup {n}
    PROVE  /\ LiveHoldCalls' /\ HandlesWereLive' /\ CancelAccounting'
           /\ LiveNodes' = LiveNodes \cup {n}
           /\ callback' \in [Node -> Call \cup {NoCall}]
           /\ cookie' \in [Node -> 0 .. CookieMod - 1]
           /\ current_cookie' \in 1 .. CookieMod - 1
           /\ handles' \subseteq [node : Node, cookie : 0 .. CookieMod - 1, call : Call]
           /\ status' \in [Call -> {"unused", "requested", "pending", "running",
                                    "done", "canceled"}]
  <1>1. current_cookie' \in 1 .. CookieMod - 1 /\ current_cookie' \in Nat \ {0}
    BY CookiesAreNotZero, ToolAssumption DEF Issue, NodeInv, DataType
  <1>2. n \notin Unprocessed /\ n \notin LiveNodes /\ n # running
    BY IssuedNodeIsNew
  <1>3. /\ cookie' = [cookie EXCEPT ![n] = current_cookie']
        /\ callback' = [callback EXCEPT ![n] = c]
        /\ status' = [status EXCEPT ![c] = "pending"]
        /\ canceled' = canceled
        /\ handles' = handles \cup {[node |-> n, cookie |-> current_cookie', call |-> c]}
    BY DEF Issue
  <1>4. /\ cookie' \in [Node -> 0 .. CookieMod - 1]
        /\ callback' \in [Node -> Call \cup {NoCall}]
        /\ status' \in [Call -> {"unused", "requested", "pending", "running",
                                 "done", "canceled"}]
        /\ handles' \subseteq [node : Node, cookie : 0 .. CookieMod - 1, call : Call]
    BY <1>1, <1>3, ToolAssumption DEF NodeInv, DataType
  <1>5. LiveNodes' = LiveNodes \cup {n}
    BY <1>1, <1>3 DEF LiveNodes, NodeInv, DataType
  <1>6. Dead' = Dead
    <2>1. \A m \in Unprocessed : m # n /\ m \in Node
      BY <1>2, UnprocessedAreNodes DEF NodeInv
    <2>2. \A m \in Unprocessed : cookie'[m] = cookie[m]
      BY <1>3, <2>1 DEF NodeInv, DataType
    <2>3. cookie'[n] # 0
      BY <1>1, <1>3 DEF NodeInv, DataType
    <2> QED
      BY <2>2, <2>3 DEF Dead
  <1>7. LiveHoldCalls'
    <2>1. \A m \in LiveNodes : /\ m # n /\ callback'[m] = callback[m]
                               /\ callback[m] \in Call /\ callback[m] # c
                               /\ status'[callback[m]] = "pending"
      BY <1>2, <1>3 DEF NodeInv, DataType, LiveHoldCalls, LiveNodes
    <2>2. callback'[n] = c /\ status'[c] = "pending"
      BY <1>3 DEF NodeInv, DataType
    <2>3. \A m \in LiveNodes' : /\ m \in Unprocessed' /\ callback'[m] \in Call
                                /\ status'[callback'[m]] = "pending"
      BY <1>5, <2>1, <2>2 DEF NodeInv, LiveHoldCalls
    <2>4. \A m, k \in LiveNodes' : callback'[m] = callback'[k] => m = k
      BY <1>5, <2>1, <2>2 DEF NodeInv, LiveHoldCalls
    <2>5. ASSUME NEW d \in Call, status'[d] = "pending"
          PROVE  \E m \in LiveNodes' : callback'[m] = d
      <3>1. CASE d = c
        BY <1>5, <2>2, <3>1
      <3>2. CASE d # c
        <4>1. PICK m \in LiveNodes : callback[m] = d
          BY <1>3, <2>5, <3>2 DEF NodeInv, DataType, LiveHoldCalls
        <4> QED
          BY <1>5, <2>1, <4>1
      <3> QED
        BY <3>1, <3>2
    <2>6. pc' \in Callbacks => callback'[running'] \in Call
                              /\ status'[callback'[running']] = "running"
      <3>1. pc \in Callbacks => callback'[running] = callback[running]
        BY <1>2, <1>3 DEF NodeInv, DataType, Placed
      <3> QED
        BY <1>3, <3>1 DEF Stays, NodeInv, DataType, LiveHoldCalls
    <2> QED
      BY <2>3, <2>4, <2>5, <2>6 DEF LiveHoldCalls
  <1>8. HandlesWereLive'
    BY <1>1, <1>3 DEF NodeInv, HandlesWereLive
  <1>9. CancelAccounting'
    BY <1>3, <1>6, SameDead DEF NodeInv
  <1> QED
    BY <1>1, <1>4, <1>5, <1>7, <1>8, <1>9

LEMMA ImmediateKeeps ==
    ASSUME NodeInv, pc # "aborted", NEW c \in Call,
           status[c] \in {"unused", "requested"}, Immediate(c), Stays
    PROVE  NodeInv'
  <1>1. PICK n \in Node : /\ Issue(n, c) /\ immed' = Append(immed, n)
                          /\ due' = [due EXCEPT ![c] = 0]
                          /\ UNCHANGED <<deferUsed, deferQueue, when, last_now>>
    BY DEF Immediate
  <1>2. n \notin Elements(immed) \cup deferUsed /\ n # running
        /\ n \notin LiveNodes /\ free' = free \ {n} /\ free' \subseteq Node
    BY <1>1, IssuedNodeIsNew
  <1>3. /\ immed' \in Seq(Node) /\ Len(immed') = Len(immed) + 1
        /\ Elements(immed') = Elements(immed) \cup {n} /\ Distinct(immed')
        /\ \A i \in 1 .. Len(immed) : immed'[i] = immed[i]
        /\ immed'[Len(immed) + 1] = n
    <2>1. immed \in Seq(Node) /\ Distinct(immed)
      BY DEF NodeInv, DataType, Apart
    <2>2. /\ immed' \in Seq(Node) /\ Elements(immed') = Elements(immed) \cup {n}
          /\ Distinct(immed')
      BY <1>1, <1>2, <2>1, AppendElements, AppendDistinct
    <2> QED
      BY <1>1, <2>1, <2>2
  <1>4. pos \in Nat /\ Len(immed) \in Nat /\ pos <= Len(immed)
    BY DEF NodeInv, DataType, Placed
  <1>5. Unprocessed' = Unprocessed \cup {n}
    <2>1. pos + 1 .. Len(immed') = pos + 1 .. Len(immed) \cup {Len(immed) + 1}
      BY <1>3, <1>4
    <2>2. {immed'[i] : i \in pos + 1 .. Len(immed')}
            = {immed[i] : i \in pos + 1 .. Len(immed)} \cup {n}
      BY <1>3, <1>4, <2>1
    <2> QED
      BY <1>1, <1>2, <2>2 DEF Unprocessed, Stays
  <1>6. /\ LiveHoldCalls' /\ HandlesWereLive' /\ CancelAccounting'
        /\ LiveNodes' = LiveNodes \cup {n}
        /\ callback' \in [Node -> Call \cup {NoCall}]
        /\ cookie' \in [Node -> 0 .. CookieMod - 1]
        /\ current_cookie' \in 1 .. CookieMod - 1
        /\ handles' \subseteq [node : Node, cookie : 0 .. CookieMod - 1, call : Call]
        /\ status' \in [Call -> {"unused", "requested", "pending", "running",
                                 "done", "canceled"}]
    BY <1>1, <1>5, IssueKeeps
  <1>7. DataType'
    BY <1>1, <1>2, <1>3, <1>6 DEF DataType, NodeInv, Stays, Time
  <1>8. Placed'
    BY <1>1, <1>3, <1>4 DEF Placed, NodeInv, Stays
  <1>9. Apart'
    BY <1>1, <1>2, <1>3 DEF Apart, NodeInv
  <1>10. Times'
    <2>1. \A m \in LiveNodes : callback'[m] = callback[m] /\ callback[m] # c
                               /\ callback[m] \in Call
      BY <1>1, <1>2 DEF Issue, NodeInv, DataType, LiveHoldCalls, LiveNodes
    <2>2. callback'[n] = c /\ due'[c] = 0
      BY <1>1 DEF Issue, NodeInv, DataType
    <2>3. \A m \in LiveNodes' :
             due'[callback'[m]] <= IF m \in deferUsed THEN when[m] ELSE 0
      BY <1>1, <1>2, <1>6, <2>1, <2>2 DEF NodeInv, DataType, Times
    <2> QED
      BY <1>1, <2>3 DEF Times, NodeInv, Stays
  <1> QED
    BY <1>6, <1>7, <1>8, <1>9, <1>10 DEF NodeInv

LEMMA DeferredKeeps ==
    ASSUME NodeInv, pc # "aborted", NEW c \in Call, NEW d \in Delay,
           status[c] \in {"unused", "requested"}, Deferred(c, d), Stays
    PROVE  NodeInv'
  <1>1. PICK n \in Node : /\ d >= MinDelay /\ Issue(n, c) /\ last_now' = Now
                          /\ when' = [when EXCEPT ![n] = Now + d]
                          /\ deferUsed' = deferUsed \cup {n}
                          /\ deferQueue' = deferQueue \cup {n}
                          /\ due' = [due EXCEPT ![c] = epoch + d]
                          /\ immed' = immed
    BY DEF Deferred
  <1>2. n \notin Elements(immed) \cup deferUsed /\ n # running
        /\ n \notin LiveNodes /\ free' = free \ {n} /\ free' \subseteq Node
    BY <1>1, IssuedNodeIsNew
  <1>3. d \in Nat /\ Now \in Nat /\ epoch \in Nat /\ epoch <= Now /\ Now <= clock
        /\ clock \in Nat
    BY ToolAssumption DEF Now, NodeInv, DataType, Times, Time, Never
  <1>4. Unprocessed' = Unprocessed \cup {n}
    BY <1>1, <1>2 DEF Unprocessed, Stays
  <1>5. /\ LiveHoldCalls' /\ HandlesWereLive' /\ CancelAccounting'
        /\ LiveNodes' = LiveNodes \cup {n}
        /\ callback' \in [Node -> Call \cup {NoCall}]
        /\ cookie' \in [Node -> 0 .. CookieMod - 1]
        /\ current_cookie' \in 1 .. CookieMod - 1
        /\ handles' \subseteq [node : Node, cookie : 0 .. CookieMod - 1, call : Call]
        /\ status' \in [Call -> {"unused", "requested", "pending", "running",
                                 "done", "canceled"}]
    BY <1>1, <1>4, IssueKeeps
  <1>6. DataType'
    <2>1. when' \in [Node -> Time] /\ due' \in [Call -> Time]
      BY <1>1, <1>3 DEF DataType, NodeInv, Time
    <2>2. last_now' \in Time
      BY <1>1, <1>3 DEF Time
    <2>3. deferUsed' \subseteq Node /\ deferQueue' \subseteq Node
      BY <1>1 DEF DataType, NodeInv
    <2> QED
      BY <1>1, <1>2, <1>5, <2>1, <2>2, <2>3 DEF DataType, NodeInv, Stays
  <1>7. \A m \in deferUsed : when'[m] = when[m] /\ m \in Node
    BY <1>1, <1>2 DEF DataType, NodeInv
  <1>8. when'[n] = Now + d
    BY <1>1 DEF DataType, NodeInv
  <1>9. Placed'
    <2>1. ASSUME pc = "defer_cb"
          PROVE  /\ running \in deferUsed' /\ when'[running] <= last_now'
                 /\ \A m \in deferUsed' : when'[running] <= when'[m]
      <3>1. /\ running \in deferUsed /\ when[running] <= last_now
            /\ \A m \in deferUsed : when[running] <= when[m]
            /\ when[running] \in Nat /\ running \in Node
        BY <2>1 DEF Placed, NodeInv, DataType, Time
      <3>2. last_now # Never
        BY <3>1 DEF Never
      <3>3. last_now' = last_now /\ Now = last_now
        BY <1>1, <3>2 DEF Now
      <3>4. when'[running] <= when'[n]
        BY <1>3, <1>7, <1>8, <3>1, <3>3
      <3> QED
        BY <1>1, <1>7, <3>1, <3>3, <3>4
    <2> QED
      BY <1>1, <2>1 DEF Placed, NodeInv, Stays
  <1>10. Apart'
    BY <1>1, <1>2 DEF Apart, NodeInv
  <1>11. Times'
    <2>1. \A m \in LiveNodes : /\ callback'[m] = callback[m] /\ callback[m] # c
                               /\ callback[m] \in Call /\ m # n
      BY <1>1, <1>2 DEF Issue, NodeInv, DataType, LiveHoldCalls, LiveNodes
    <2>2. callback'[n] = c /\ due'[c] = epoch + d
      BY <1>1 DEF Issue, NodeInv, DataType
    <2>3. due'[c] <= when'[n]
      BY <1>3, <1>8, <2>2
    <2>4. \A m \in LiveNodes :
             due'[callback'[m]] <= IF m \in deferUsed' THEN when'[m] ELSE 0
      BY <1>1, <1>7, <2>1 DEF NodeInv, DataType, Times
    <2>5. \A m \in LiveNodes' :
             due'[callback'[m]] <= IF m \in deferUsed' THEN when'[m] ELSE 0
      BY <1>1, <1>5, <2>2, <2>3, <2>4
    <2> QED
      BY <1>1, <1>3, <2>5 DEF Times, NodeInv, Stays
  <1> QED
    BY <1>5, <1>6, <1>9, <1>10, <1>11 DEF NodeInv

----------------------------------------------------------------------------
(* cancel() and release_memory() *)

LEMMA CancelKeeps ==
    ASSUME NodeInv, NEW n \in Node, NEW k \in Nat \ {0}, Cancel(n, k), Stays,
           handles' \subseteq handles
    PROVE  NodeInv'
  <1>1. UNCHANGED <<immed, deferUsed, deferQueue, free, callback, when,
                    current_cookie, last_now, due, pc, pos, running, clock, epoch>>
    BY DEF Cancel, lists, Stays
  <1>2. CASE cookie[n] # k
    <2>1. UNCHANGED <<canceled, cookie, status>>
      BY <1>2 DEF Cancel
    <2>2. DataType' /\ Placed' /\ Apart' /\ HandlesWereLive'
      BY <1>1, <2>1 DEF NodeInv, DataType, Placed, Apart, HandlesWereLive
    <2>3. Unprocessed' = Unprocessed /\ LiveNodes' = LiveNodes
      BY <1>1, <2>1 DEF Unprocessed, LiveNodes
    <2>4. LiveHoldCalls' /\ Times'
      BY <1>1, <2>1, <2>3 DEF NodeInv, LiveHoldCalls, Times
    <2>5. CancelAccounting'
      BY <2>1, <2>3 DEF NodeInv, CancelAccounting
    <2> QED
      BY <2>2, <2>4, <2>5 DEF NodeInv
  <1>3. CASE cookie[n] = k
    <2>1. /\ canceled' = canceled + 1
          /\ cookie' = [cookie EXCEPT ![n] = 0]
          /\ status' = [status EXCEPT ![callback[n]] = "canceled"]
      BY <1>3 DEF Cancel
    <2>2. n \in LiveNodes /\ n \in Unprocessed /\ callback[n] \in Call
          /\ status[callback[n]] = "pending"
      BY <1>3 DEF LiveNodes, NodeInv, LiveHoldCalls
    <2>3. DataType'
      <3>1. cookie' \in [Node -> 0 .. CookieMod - 1]
        BY <2>1, ToolAssumption DEF NodeInv, DataType
      <3>2. status' \in [Call -> {"unused", "requested", "pending", "running",
                                  "done", "canceled"}]
        BY <2>1 DEF NodeInv, DataType
      <3> QED
        BY <1>1, <3>1, <3>2 DEF NodeInv, DataType
    <2>4. Placed' /\ Apart' /\ HandlesWereLive'
      BY <1>1 DEF NodeInv, Placed, Apart, HandlesWereLive
    <2>5. Unprocessed' = Unprocessed /\ LiveNodes' = LiveNodes \ {n}
      BY <1>1, <2>1 DEF Unprocessed, LiveNodes, NodeInv, DataType
    <2>6. Dead' = Dead \cup {n} /\ n \notin Dead
      <3>1. \A m \in Unprocessed : m \in Node
        BY UnprocessedAreNodes DEF NodeInv
      <3>2. \A m \in Unprocessed : cookie'[m] = IF m = n THEN 0 ELSE cookie[m]
        BY <2>1, <3>1 DEF NodeInv, DataType
      <3> QED
        BY <1>3, <2>2, <2>5, <3>2 DEF Dead
    <2>7. CancelAccounting'
      BY <2>1, <2>6, MoreDead DEF NodeInv
    <2>8. LiveHoldCalls'
      <3>1. \A m \in LiveNodes' : m # n /\ m \in LiveNodes /\ callback[m] \in Call
                                  /\ callback[m] # callback[n]
        BY <2>2, <2>5 DEF NodeInv, LiveHoldCalls
      <3>2. \A m \in LiveNodes' : status'[callback[m]] = "pending"
        BY <2>1, <3>1 DEF NodeInv, DataType, LiveHoldCalls
      <3>3. \A c \in Call : status'[c] = "pending" =>
                 c # callback[n] /\ status[c] = "pending"
        BY <2>1 DEF NodeInv, DataType
      <3>4. \A c \in Call : status'[c] = "pending" =>
                 \E m \in LiveNodes' : callback[m] = c
        BY <2>5, <3>3 DEF NodeInv, LiveHoldCalls
      <3>5. pc \in Callbacks => status'[callback[running]] = "running"
        BY <2>1, <2>2 DEF NodeInv, DataType, LiveHoldCalls
      <3> QED
        BY <1>1, <2>5, <3>1, <3>2, <3>4, <3>5 DEF NodeInv, LiveHoldCalls
    <2>9. Times'
      BY <1>1, <2>5 DEF NodeInv, Times
    <2> QED
      BY <2>3, <2>4, <2>7, <2>8, <2>9 DEF NodeInv
  <1> QED
    BY <1>2, <1>3

LEMMA ReleaseKeeps ==
    ASSUME NodeInv, Release, Stays PROVE NodeInv'
  <1>1. UNCHANGED <<immed, deferUsed, deferQueue, callback, cookie, when,
                    current_cookie, canceled, last_now, handles, status, due,
                    pc, pos, running, clock, epoch>> /\ free' = {}
    BY DEF Release, nodes, Stays
  <1>2. DataType' /\ Placed' /\ Apart' /\ HandlesWereLive'
    BY <1>1 DEF NodeInv, DataType, Placed, Apart, HandlesWereLive
  <1>3. Unprocessed' = Unprocessed /\ LiveNodes' = LiveNodes
    BY <1>1 DEF Unprocessed, LiveNodes
  <1>4. LiveHoldCalls' /\ Times' /\ CancelAccounting'
    BY <1>1, <1>3 DEF NodeInv, LiveHoldCalls, Times, CancelAccounting
  <1> QED
    BY <1>2, <1>4 DEF NodeInv

----------------------------------------------------------------------------
(* Callbacks: started, returned, or skipped because they were canceled *)

Rest(p) == {immed[i] : i \in p + 1 .. Len(immed)}

LEMMA NextOfRest ==
    ASSUME NodeInv, pos < Len(immed)
    PROVE  /\ immed[pos + 1] \in Rest(pos) /\ immed[pos + 1] \in Node
           /\ immed[pos + 1] \notin deferUsed
           /\ Rest(pos + 1) = Rest(pos) \ {immed[pos + 1]}
  <1>1. immed \in Seq(Node) /\ Distinct(immed) /\ pos \in Nat /\ Len(immed) \in Nat
        /\ DOMAIN immed = 1 .. Len(immed)
    BY DEF NodeInv, DataType, Apart
  <1>2. pos + 1 \in DOMAIN immed /\ pos + 1 \in pos + 1 .. Len(immed)
    BY <1>1
  <1>3. \A i \in pos + 1 .. Len(immed) :
           i \in DOMAIN immed /\ (i # pos + 1 <=> i \in (pos + 1) + 1 .. Len(immed))
    BY <1>1
  <1>4. Rest(pos + 1) = Rest(pos) \ {immed[pos + 1]}
    <2>1. ASSUME NEW x \in Rest(pos + 1)
          PROVE  x \in Rest(pos) /\ x # immed[pos + 1]
      <3>1. PICK i \in (pos + 1) + 1 .. Len(immed) : x = immed[i]
        BY DEF Rest
      <3>2. i \in pos + 1 .. Len(immed) /\ i # pos + 1 /\ i \in DOMAIN immed
        BY <1>1
      <3> QED
        BY <1>1, <1>2, <3>1, <3>2 DEF Rest, Distinct
    <2>2. ASSUME NEW x \in Rest(pos), x # immed[pos + 1]
          PROVE  x \in Rest(pos + 1)
      BY <1>3, <2>2 DEF Rest
    <2> QED
      BY <2>1, <2>2
  <1>5. immed[pos + 1] \in Elements(immed)
    BY <1>2 DEF Elements
  <1> QED
    <2>1. immed[pos + 1] \in Rest(pos)
      BY <1>2 DEF Rest
    <2>2. immed[pos + 1] \in Node
      BY <1>1, <1>2
    <2>3. immed[pos + 1] \notin deferUsed
      BY <1>5 DEF NodeInv, Apart
    <2> QED
      BY <1>4, <2>1, <2>2, <2>3

LEMMA UnprocessedIs ==
    Unprocessed = (Rest(pos) \cup deferUsed) \ {running}
  BY DEF Unprocessed, Rest

\* A node leaves the unprocessed ones when its callback starts.
LEMMA StartKeeps ==
    ASSUME NodeInv, running = NoNode, NEW n \in Unprocessed, Start(n),
           pc' \in Callbacks, Placed'
    PROVE  NodeInv'
  <1>1. /\ cookie[n] # 0 /\ cookie' = [cookie EXCEPT ![n] = 0]
        /\ status' = [status EXCEPT ![callback[n]] = "running"] /\ running' = n
        /\ UNCHANGED <<immed, deferUsed, deferQueue, free, callback, when,
                       current_cookie, canceled, pos, clock, last_now, handles,
                       due, epoch>>
    BY DEF Start, lists
  <1>2. n \in Node /\ n \in LiveNodes /\ callback[n] \in Call
        /\ status[callback[n]] = "pending"
    BY <1>1, UnprocessedAreNodes DEF LiveNodes, NodeInv, LiveHoldCalls
  <1>3. DataType'
    <2>1. cookie' \in [Node -> 0 .. CookieMod - 1]
      <3>1. 0 \in 0 .. CookieMod - 1 /\ cookie \in [Node -> 0 .. CookieMod - 1]
        BY ToolAssumption DEF NodeInv, DataType
      <3> QED
        BY <1>1, <3>1
    <2>2. status' \in [Call -> {"unused", "requested", "pending", "running",
                                "done", "canceled"}]
      BY <1>1 DEF NodeInv, DataType
    <2>3. running' \in Node \cup {NoNode}
      BY <1>1, <1>2
    <2> QED
      BY <1>1, <2>1, <2>2, <2>3 DEF NodeInv, DataType, Callbacks
  <1>4. Apart' /\ HandlesWereLive'
    BY <1>1 DEF NodeInv, Apart, HandlesWereLive
  <1>5. Unprocessed' = Unprocessed \ {n} /\ LiveNodes' = LiveNodes \ {n}
    <2>1. \A m \in Unprocessed : m \in Node
      BY UnprocessedAreNodes DEF NodeInv
    <2> QED
      BY <1>1, <2>1, ToolAssumption DEF Unprocessed, LiveNodes, NodeInv, DataType
  <1>6. Dead' = Dead
    <2>1. \A m \in Unprocessed : m \in Node
      BY UnprocessedAreNodes DEF NodeInv
    <2> QED
      BY <1>1, <1>5, <2>1 DEF Dead, NodeInv, DataType
  <1>7. CancelAccounting'
    BY <1>1, <1>6, SameDead DEF NodeInv
  <1>8. LiveHoldCalls'
    <2>1. \A m \in LiveNodes' : /\ m \in LiveNodes /\ m \in Unprocessed'
                                /\ callback[m] \in Call /\ callback[m] # callback[n]
      BY <1>2, <1>5 DEF NodeInv, LiveHoldCalls
    <2>2. \A m \in LiveNodes' : status'[callback[m]] = "pending"
      BY <1>1, <2>1 DEF NodeInv, DataType, LiveHoldCalls
    <2>3. \A c \in Call : status'[c] = "pending" =>
               c # callback[n] /\ status[c] = "pending"
      BY <1>1 DEF NodeInv, DataType
    <2>4. \A c \in Call : status'[c] = "pending" =>
               \E m \in LiveNodes' : callback[m] = c
      BY <1>5, <2>3 DEF NodeInv, LiveHoldCalls
    <2>5. status'[callback[n]] = "running"
      BY <1>1, <1>2 DEF NodeInv, DataType
    <2> QED
      BY <1>1, <1>2, <1>5, <2>1, <2>2, <2>4, <2>5 DEF NodeInv, LiveHoldCalls
  <1>9. Times'
    BY <1>1, <1>5 DEF NodeInv, Times
  <1> QED
    BY <1>3, <1>4, <1>7, <1>8, <1>9 DEF NodeInv

LEMMA RunImmediateKeeps == ASSUME NodeInv, RunImmediate PROVE NodeInv'
  <1>1. pc = "immed" /\ pos < Len(immed) /\ running = NoNode
        /\ Start(immed[pos + 1]) /\ pc' = "immed_cb"
    BY DEF RunImmediate, ImmediateNext, NodeInv, Placed, Callbacks
  <1>2. immed[pos + 1] \in Unprocessed /\ immed[pos + 1] \in Node
    BY <1>1, NextOfRest, UnprocessedIs, ToolAssumption
  <1>3. Placed'
    BY <1>1, <1>2 DEF Start, lists, NodeInv, Placed, Callbacks
  <1> QED
    BY <1>1, <1>2, <1>3, StartKeeps DEF Callbacks

LEMMA RunDeferredKeeps == ASSUME NodeInv, RunDeferred PROVE NodeInv'
  <1>1. PICK n \in Tops : /\ Expired(n) /\ Start(n)
                          /\ pc = "defer" /\ pc' = "defer_cb" /\ running = NoNode
    BY DEF RunDeferred, NodeInv, Placed, Callbacks
  <1>2. n \in deferUsed /\ n \in Node /\ \A m \in deferUsed : when[n] <= when[m]
    BY DEF Tops, NodeInv, Apart, DataType
  <1>3. n \in Unprocessed
    BY <1>1, <1>2, ToolAssumption DEF Unprocessed
  <1>4. Placed'
    BY <1>1, <1>2 DEF Start, lists, Expired, NodeInv, Placed, Callbacks
  <1> QED
    BY <1>1, <1>3, <1>4, StartKeeps DEF Callbacks

\* What returning from a callback changes apart from the list it was in.
LEMMA FinishKeeps ==
    ASSUME NodeInv, pc \in Callbacks, Finish, pc' \notin Callbacks,
           Unprocessed' = Unprocessed, DataType', Placed', Apart',
           \A n \in LiveNodes : n \in deferUsed' <=> n \in deferUsed
    PROVE  NodeInv'
  <1>1. /\ status' = [status EXCEPT ![callback[running]] = "done"]
        /\ UNCHANGED <<callback, cookie, when, current_cookie, canceled, clock,
                       last_now, handles, due, epoch>>
    BY DEF Finish, nodes
  <1>2. callback[running] \in Call /\ status[callback[running]] = "running"
    BY DEF NodeInv, LiveHoldCalls
  <1>3. LiveNodes' = LiveNodes /\ Dead' = Dead
    BY <1>1 DEF LiveNodes, Dead
  <1>4. LiveHoldCalls'
    <2>1. \A c \in Call : status'[c] = "pending" <=> status[c] = "pending"
      BY <1>1, <1>2 DEF NodeInv, DataType
    <2> QED
      BY <1>1, <1>3, <2>1 DEF NodeInv, LiveHoldCalls
  <1>5. Times' /\ HandlesWereLive'
    BY <1>1, <1>3 DEF NodeInv, Times, HandlesWereLive
  <1>6. CancelAccounting'
    BY <1>1, <1>3, SameDead DEF NodeInv
  <1> QED
    BY <1>4, <1>5, <1>6 DEF NodeInv

LEMMA FinishTypes ==
    ASSUME NodeInv, pc \in Callbacks, Finish
    PROVE  status' \in [Call -> {"unused", "requested", "pending", "running",
                                 "done", "canceled"}]
  BY DEF Finish, NodeInv, DataType, LiveHoldCalls

LEMMA ReturnImmediateKeeps == ASSUME NodeInv, ReturnImmediate PROVE NodeInv'
  <1>1. /\ pc = "immed_cb" /\ pc' = "immed" /\ Finish /\ pos' = pos + 1
        /\ running' = NoNode
        /\ UNCHANGED <<immed, deferUsed, deferQueue, free, callback, cookie, when,
                       current_cookie, canceled, clock, last_now, handles, due,
                       epoch>>
    BY DEF ReturnImmediate, Finish, nodes
  <1>2. pos < Len(immed) /\ running = immed[pos + 1] /\ pos \in Nat
        /\ Len(immed) \in Nat
    BY <1>1 DEF NodeInv, Placed, DataType
  <1>3. DataType'
    BY <1>1, <1>2, FinishTypes DEF NodeInv, DataType, Callbacks
  <1>4. Placed'
    BY <1>1, <1>2 DEF NodeInv, Placed, Callbacks
  <1>5. Apart'
    BY <1>1 DEF NodeInv, Apart
  <1>6. Unprocessed' = Unprocessed
    <2>1. Rest(pos)' = Rest(pos + 1)
      BY <1>1 DEF Rest
    <2>2. Unprocessed' = (Rest(pos + 1) \cup deferUsed) \ {NoNode}
      BY <1>1, <2>1 DEF Unprocessed, Rest
    <2>3. NoNode \notin Rest(pos + 1) \cup deferUsed
      <3>1. NoNode \notin Rest(pos)
        BY <1>2, ToolAssumption DEF Rest, NodeInv, DataType
      <3> QED
        BY <1>2, <3>1, NextOfRest, ToolAssumption DEF NodeInv, DataType
    <2> QED
      BY <1>2, <2>2, <2>3, NextOfRest, UnprocessedIs
  <1> QED
    BY <1>1, <1>3, <1>4, <1>5, <1>6, FinishKeeps DEF Callbacks

\* A canceled node is taken out of the unprocessed ones, and off the count.
LEMMA SkipKeeps ==
    ASSUME NodeInv, pc \notin Callbacks, NEW n \in Unprocessed, Skip(n),
           Unprocessed' = Unprocessed \ {n}, DataType', Placed', Apart',
           \A m \in LiveNodes : m \in deferUsed' <=> m \in deferUsed
    PROVE  NodeInv'
  <1>1. /\ cookie[n] = 0 /\ canceled' = canceled - 1
        /\ UNCHANGED <<immed, callback, cookie, when, current_cookie, pc, running,
                       clock, last_now, handles, status, due, epoch>>
    BY DEF Skip, nodes, history
  <1>2. LiveNodes' = LiveNodes /\ n \notin LiveNodes
    BY <1>1 DEF LiveNodes
  <1>3. n \in Dead /\ Dead' = Dead \ {n}
    BY <1>1 DEF Dead
  <1>4. CancelAccounting'
    BY <1>1, <1>3, LessDead DEF NodeInv
  <1>5. LiveHoldCalls' /\ Times' /\ HandlesWereLive'
    BY <1>1, <1>2 DEF NodeInv, LiveHoldCalls, Times, HandlesWereLive
  <1> QED
    BY <1>4, <1>5 DEF NodeInv

LEMMA SkipImmediateKeeps == ASSUME NodeInv, SkipImmediate PROVE NodeInv'
  <1>1. /\ pc = "immed" /\ pos < Len(immed) /\ Skip(immed[pos + 1])
        /\ pos' = pos + 1 /\ running = NoNode /\ pos \in Nat /\ Len(immed) \in Nat
        /\ UNCHANGED <<immed, deferUsed, deferQueue, free, callback, cookie, when,
                       current_cookie, pc, running, clock, last_now, handles,
                       status, due, epoch>>
    BY DEF SkipImmediate, ImmediateNext, Skip, nodes, history, NodeInv, Placed,
           Callbacks, DataType
  <1>2. immed[pos + 1] \in Unprocessed /\ immed[pos + 1] \in Node
    BY <1>1, NextOfRest, UnprocessedIs, ToolAssumption
  <1>3. DataType' /\ Placed' /\ Apart'
    BY <1>1 DEF NodeInv, DataType, Placed, Apart, Callbacks
  <1>4. Unprocessed' = Unprocessed \ {immed[pos + 1]}
    <2>1. Unprocessed' = (Rest(pos + 1) \cup deferUsed) \ {running}
      BY <1>1 DEF Unprocessed, Rest
    <2> QED
      BY <1>1, <2>1, NextOfRest, UnprocessedIs
  <1> QED
    BY <1>1, <1>2, <1>3, <1>4, SkipKeeps DEF Callbacks

----------------------------------------------------------------------------
(* The ends of a burst, and the deferred list *)

\* What is spliced off are the processed nodes, and nothing else.
LEMMA EndImmediatesKeeps == ASSUME NodeInv, EndImmediates PROVE NodeInv'
  <1>1. /\ pc = "immed" /\ running = NoNode /\ immed \in Seq(Node)
        /\ pos \in 0 .. Len(immed) /\ Distinct(immed)
        /\ Len(immed) \in Nat /\ DOMAIN immed = 1 .. Len(immed)
    BY DEF EndImmediates, NodeInv, DataType, Placed, Apart, Callbacks
  <1>2. /\ free' = free \cup Elements(SubSeq(immed, 1, pos))
        /\ immed' = SubSeq(immed, pos + 1, Len(immed)) /\ pos' = 0
        /\ pc' \in {"tasks", "defer"} /\ last_now' \in {last_now, Now}
        /\ UNCHANGED <<deferUsed, deferQueue, callback, cookie, when,
                       current_cookie, canceled, running, clock, handles, status,
                       due, epoch>>
    BY DEF EndImmediates, Remaining, nodes, history
  <1>3. /\ immed' \in Seq(Node) /\ Distinct(immed')
        /\ Elements(immed') = Elements(immed) \ {immed[i] : i \in 1 .. pos}
    <2>1. LET rest == SubSeq(immed, pos + 1, Len(immed))
          IN  /\ rest \in Seq(Node) /\ Len(rest) = Len(immed) - pos
              /\ Elements(rest) = Elements(immed) \ {immed[i] : i \in 1 .. pos}
              /\ Distinct(rest)
      BY <1>1, FrontTaken, Zenon
    <2> QED
      BY <1>2, <2>1
  <1>4. Elements(SubSeq(immed, 1, pos)) = {immed[i] : i \in 1 .. pos}
        /\ {immed[i] : i \in 1 .. pos} \subseteq Elements(immed)
        /\ Elements(immed) \subseteq Node
    <2>1. Elements(SubSeq(immed, 1, pos)) = {immed[i] : i \in 1 .. pos}
      BY <1>1, FrontElements
    <2>2. /\ \A i \in 1 .. pos : immed[i] \in Elements(immed)
          /\ \A i \in DOMAIN immed : immed[i] \in Node
          /\ Elements(immed) \subseteq Node
      BY <1>1 DEF Elements
    <2> QED
      BY <1>1, <2>1, <2>2
  <1>5. Elements(immed') = Rest(pos)
    <2>1. ASSUME NEW x \in Elements(immed), x \notin {immed[i] : i \in 1 .. pos}
          PROVE  x \in Rest(pos)
      <3>1. PICK i \in DOMAIN immed : x = immed[i]
        BY DEF Elements
      <3>2. i \in pos + 1 .. Len(immed)
        BY <1>1, <2>1, <3>1
      <3> QED
        BY <3>1, <3>2 DEF Rest
    <2>2. ASSUME NEW x \in Rest(pos)
          PROVE  x \in Elements(immed) /\ x \notin {immed[i] : i \in 1 .. pos}
      <3>1. PICK i \in pos + 1 .. Len(immed) : x = immed[i]
        BY DEF Rest
      <3>2. i \in DOMAIN immed /\ i > pos
        BY <1>1
      <3> QED
        BY <1>1, <3>1, <3>2 DEF Elements, Distinct
    <2> QED
      BY <1>3, <2>1, <2>2
  <1>6. Now \in Nat /\ last_now' \in Time \cup {Never}
        /\ (last_now' # Never => epoch <= last_now' /\ last_now' <= clock)
    BY <1>2 DEF Now, NodeInv, DataType, Times, Time, Never
  <1>7. DataType'
    BY <1>2, <1>3, <1>4, <1>6 DEF NodeInv, DataType
  <1>8. Placed'
    BY <1>1, <1>2, <1>3 DEF NodeInv, Placed, Callbacks
  <1>9. Apart'
    BY <1>2, <1>3, <1>4 DEF NodeInv, Apart
  <1>10. Unprocessed' = Unprocessed
    <2>1. immed' \in Seq(Node) /\ DOMAIN immed' = 1 .. Len(immed')
      BY <1>3
    <2>2. {immed'[i] : i \in 0 + 1 .. Len(immed')} = Elements(immed')
      BY <2>1 DEF Elements
    <2> QED
      BY <1>2, <1>5, <2>2 DEF Unprocessed, Rest
  <1>11. LiveNodes' = LiveNodes /\ Dead' = Dead
    BY <1>2, <1>10 DEF LiveNodes, Dead
  <1>12. LiveHoldCalls' /\ HandlesWereLive'
    BY <1>1, <1>2, <1>10, <1>11 DEF NodeInv, LiveHoldCalls, HandlesWereLive, Callbacks
  <1>13. Times'
    BY <1>2, <1>6, <1>11 DEF NodeInv, Times
  <1>14. CancelAccounting'
    BY <1>2, <1>11, SameDead DEF NodeInv
  <1> QED
    BY <1>7, <1>8, <1>9, <1>12, <1>13, <1>14 DEF NodeInv

\* The node that was processed is still on top of the queue: what a callback
\* scheduled meanwhile comes later.
LEMMA PopTakesTheNode ==
    ASSUME NodeInv, NEW n \in Tops, PopDeferred(n)
    PROVE  /\ n \in deferUsed /\ n \in Node
           /\ deferUsed' = deferUsed \ {n} /\ deferQueue' = deferUsed \ {n}
           /\ free' = free \cup {n}
  BY DEF PopDeferred, Tops, NodeInv, Apart, DataType

LEMMA ReturnDeferredKeeps == ASSUME NodeInv, ReturnDeferred PROVE NodeInv'
  <1>1. /\ pc = "defer_cb" /\ pc' = "defer" /\ Finish /\ PopDeferred(running)
        /\ pos' = pos /\ running' = NoNode
        /\ UNCHANGED <<immed, callback, cookie, when, current_cookie, canceled,
                       clock, last_now, handles, due, epoch>>
    BY DEF ReturnDeferred, PopDeferred, Finish, nodes
  <1>2. running \in Tops /\ pos = 0 /\ running \in Node
    BY <1>1 DEF NodeInv, Placed, Apart, Tops, Callbacks
  <1>3. /\ running \in deferUsed /\ deferUsed' = deferUsed \ {running}
        /\ deferQueue' = deferUsed \ {running} /\ free' = free \cup {running}
    BY <1>1, <1>2, PopTakesTheNode
  <1>4. DataType'
    BY <1>1, <1>2, <1>3, FinishTypes DEF NodeInv, DataType, Callbacks
  <1>5. Placed' /\ Apart'
    BY <1>1, <1>2, <1>3 DEF NodeInv, Placed, Apart, Callbacks
  <1>6. Unprocessed' = Unprocessed
    <2>1. Unprocessed' = (Rest(pos) \cup (deferUsed \ {running})) \ {NoNode}
      BY <1>1, <1>3 DEF Unprocessed, Rest
    <2>2. Rest(pos) \subseteq Elements(immed)
      BY DEF Rest, Elements, NodeInv, DataType
    <2>3. running \notin Rest(pos) /\ NoNode \notin Rest(pos) \cup deferUsed
      <3>1. Elements(immed) \subseteq Node
        BY DEF Elements, NodeInv, DataType
      <3> QED
        BY <1>3, <2>2, <3>1, ToolAssumption DEF NodeInv, Apart, DataType
    <2> QED
      BY <2>1, <2>3, UnprocessedIs
  <1>7. \A n \in LiveNodes : n # running
    BY DEF NodeInv, LiveHoldCalls, Unprocessed
  <1> QED
    BY <1>1, <1>3, <1>4, <1>5, <1>6, <1>7, FinishKeeps DEF Callbacks

LEMMA SkipDeferredKeeps == ASSUME NodeInv, SkipDeferred PROVE NodeInv'
  <1>1. PICK n \in Tops : /\ pc = "defer" /\ Skip(n) /\ PopDeferred(n)
    BY DEF SkipDeferred
  <1>2. /\ cookie[n] = 0 /\ running = NoNode /\ pos' = pos /\ pos = 0
        /\ UNCHANGED <<immed, callback, cookie, when, current_cookie, pc, running,
                       clock, last_now, handles, status, due, epoch>>
    BY <1>1 DEF Skip, PopDeferred, nodes, history, NodeInv, Placed, Callbacks
  <1>3. /\ n \in deferUsed /\ n \in Node /\ deferUsed' = deferUsed \ {n}
        /\ deferQueue' = deferUsed \ {n} /\ free' = free \cup {n}
    BY <1>1, PopTakesTheNode
  <1>4. DataType' /\ Placed' /\ Apart'
    BY <1>1, <1>2, <1>3 DEF NodeInv, DataType, Placed, Apart, Callbacks
  <1>5. n \in Unprocessed /\ Unprocessed' = Unprocessed \ {n}
    <2>1. Unprocessed' = (Rest(pos) \cup (deferUsed \ {n})) \ {running}
      BY <1>2, <1>3 DEF Unprocessed, Rest
    <2>2. n \notin Rest(pos) /\ n # running
      BY <1>2, <1>3, ToolAssumption DEF Rest, Elements, NodeInv, DataType, Apart
    <2> QED
      BY <1>3, <2>1, <2>2, UnprocessedIs
  <1>6. \A m \in LiveNodes : m # n
    BY <1>2 DEF LiveNodes
  <1> QED
    BY <1>1, <1>3, <1>4, <1>5, <1>6, SkipKeeps DEF Callbacks

\* Compaction takes exactly the dead deferred nodes off the lists and the count.
LEMMA EndDeferredKeeps == ASSUME NodeInv, EndDeferred PROVE NodeInv'
  <1>1. /\ pc = "defer" /\ pc' = "tasks" /\ running = NoNode /\ pos = 0
        /\ UNCHANGED <<immed, callback, cookie, when, current_cookie, pos, running,
                       clock, last_now, handles, status, due, epoch>>
    BY DEF EndDeferred, nodes, history, NodeInv, Placed, Callbacks
  <1>2. CASE UNCHANGED <<deferUsed, deferQueue, free, canceled>>
    <2>1. DataType' /\ Placed' /\ Apart' /\ HandlesWereLive'
      BY <1>1, <1>2 DEF NodeInv, DataType, Placed, Apart, HandlesWereLive, Callbacks
    <2>2. Unprocessed' = Unprocessed /\ LiveNodes' = LiveNodes
      BY <1>1, <1>2 DEF Unprocessed, LiveNodes
    <2> QED
      BY <1>1, <1>2, <2>1, <2>2
         DEF NodeInv, LiveHoldCalls, Times, CancelAccounting, Callbacks
  <1>3. CASE Compact
    <2>1. /\ deferQueue' = deferUsed \ DeadDeferred
          /\ deferUsed' = deferUsed \ DeadDeferred
          /\ free' = free \cup DeadDeferred
          /\ canceled' = canceled - Cardinality(DeadDeferred)
      BY <1>3 DEF Compact
    <2>2. DeadDeferred \subseteq deferUsed /\ DeadDeferred \subseteq Node
          /\ \A n \in DeadDeferred : n \notin LiveNodes
      BY DEF DeadDeferred, NodeInv, DataType, LiveNodes
    <2>3. DataType'
      BY <1>1, <2>1, <2>2 DEF NodeInv, DataType
    <2>4. Placed' /\ Apart' /\ HandlesWereLive'
      BY <1>1, <2>1, <2>2 DEF NodeInv, Placed, Apart, HandlesWereLive, Callbacks
    <2>5. Unprocessed' = Unprocessed \ DeadDeferred /\ DeadDeferred \subseteq Unprocessed
      <3>1. Unprocessed' = (Rest(pos) \cup (deferUsed \ DeadDeferred)) \ {running}
        BY <1>1, <2>1 DEF Unprocessed, Rest
      <3>2. \A n \in deferUsed : n \notin Rest(pos) /\ n # running
        BY <1>1, ToolAssumption DEF Rest, Elements, NodeInv, DataType, Apart
      <3> QED
        BY <2>2, <3>1, <3>2, UnprocessedIs
    <2>6. LiveNodes' = LiveNodes
      BY <1>1 DEF LiveNodes
    <2>7. LiveHoldCalls'
      BY <1>1, <2>2, <2>5, <2>6 DEF NodeInv, LiveHoldCalls, Callbacks
    <2>8. Times'
      BY <1>1, <2>1, <2>2, <2>6 DEF NodeInv, Times
    <2>9. CancelAccounting'
      <3>1. IsFiniteSet(Dead) /\ Cardinality(Dead) \in Nat
        BY UnprocessedAreNodes, NodesAreCounted DEF Dead, NodeInv
      <3>2. DeadDeferred \subseteq Dead /\ Dead' = Dead \ DeadDeferred
        BY <1>1, <2>5 DEF Dead, DeadDeferred
      <3>3. Dead \cap DeadDeferred = DeadDeferred
        BY <3>2
      <3>4. Cardinality(Dead \ DeadDeferred)
              = Cardinality(Dead) - Cardinality(DeadDeferred)
        BY <3>1, <3>3, FS_Difference
      <3> QED
        BY <2>1, <3>2, <3>4 DEF NodeInv, CancelAccounting, Dead
    <2> QED
      BY <2>3, <2>4, <2>7, <2>8, <2>9 DEF NodeInv
  <1> QED
    BY <1>2, <1>3 DEF EndDeferred

----------------------------------------------------------------------------
(* What is left to do: bursts, requests of other threads, the external loop *)

TaskType ==
    /\ handle_tasks \in Seq(Thread) /\ Len(handle_tasks) <= TaskCapacity
    /\ request \in [Thread -> [op : {"none", "immediate", "deferred", "cancel",
                                     "release"},
                               call : Call \cup {NoCall}, delay : Delay \cup {0},
                               node : Node \cup {NoNode},
                               cookie : 0 .. CookieMod - 1]]
    /\ fpc \in [Thread -> {"idle", "push", "wait"}]
    /\ left \in Nat
    /\ notified \in BOOLEAN /\ wake_at \in Time \cup {Never}
    /\ is_shutdown \in BOOLEAN
    /\ dtor \in {"none", "flagged", "joining", "draining", "stuck", "done"}

\* A burst is not over inside a callback, and a batch of tasks is queued.
LeftToDo ==
    /\ pc \in Callbacks => left > 0
    /\ pc = "tasks" \/ dtor = "draining" => left <= Len(handle_tasks)

Asks(t) == request[t].op \in {"immediate", "deferred"}

\* A request is for a call of its own, or cancels what was once a live node.
Asked ==
    \A t \in Thread :
      /\ request[t].op = "cancel" => request[t].node \in Node /\ request[t].cookie # 0
      /\ Asks(t) =>
           /\ request[t].call \in Call /\ status[request[t].call] = "requested"
           /\ \A u \in Thread : Asks(u) /\ request[u].call = request[t].call => u = t

\* An external loop that waits without a limit has no work; what was queued while
\* a pass ran is still to be served by it, or has poked.
Idles ==
    /\ pc = "outside" => ~Internal
    /\ ExternalLoopMayWait
    /\ pc = "tasks" /\ ~Internal /\ ~notified => left = Len(handle_tasks)

TaskInv == TaskType /\ LeftToDo /\ Asked /\ Idles

ReactorInv == NodeInv /\ TaskInv /\ WakeInv

\* There is a deferred node to wait for when the queue is not empty.
LEMMA TopsExist ==
    ASSUME DataType, deferQueue # {} PROVE Tops # {} /\ Deadline \in Nat
  <1> DEFINE T == {when[n] : n \in deferQueue}
  <1>1. T \subseteq Nat /\ T # {}
    BY DEF DataType, Time
  <1>2. PICK x \in T : \A y \in T : x <= y
    BY <1>1, LeastNumber
  <1>3. PICK n \in deferQueue : x = when[n]
    BY <1>2
  <1>4. n \in Tops
    BY <1>2, <1>3 DEF Tops
  <1>5. (CHOOSE m \in Tops : TRUE) \in Tops
    BY <1>4
  <1>6. \A m \in Tops : when[m] \in Nat
    BY DEF Tops, DataType, Time
  <1>7. when[CHOOSE m \in Tops : TRUE] \in Nat
    BY <1>5, <1>6
  <1> QED
    BY <1>4, <1>7, ToolAssumption DEF Deadline

LEMMA UserKeeps ==
    ASSUME ReactorInv, pc # "aborted", UserStep PROVE NodeInv' /\ TaskInv'
  <1>1. /\ UNCHANGED <<handle_tasks, request, fpc, pc, pos, left, running, notified,
                       clock, is_shutdown, dtor, epoch>> /\ Stays
        /\ NodeInv /\ TaskInv
    BY DEF UserStep, foreign, reactor, life, Stays, ReactorInv
  <1>2. pc \in Callbacks \/ (pc = "outside" /\ dtor = "none")
    BY DEF UserStep, UserCode, Callbacks
  <1>3. CASE \E c \in Call : /\ status[c] = "unused" /\ LoopIsDue
                             /\ \/ Immediate(c) \/ \E d \in Delay : Deferred(c, d)
    <2>1. PICK c \in Call : /\ status[c] = "unused" /\ LoopIsDue
                            /\ \/ Immediate(c) \/ \E d \in Delay : Deferred(c, d)
      BY <1>3
    <2>2. NodeInv'
      BY <1>1, <2>1, ImmediateKeeps, DeferredKeeps
    <2>3. status' = [status EXCEPT ![c] = "pending"]
      BY <2>1 DEF Immediate, Deferred, Issue
    <2>4. Asked'
      <3>1. \A t \in Thread : Asks(t) => status'[request[t].call] = "requested"
        BY <1>1, <2>1, <2>3 DEF TaskInv, Asked, NodeInv, DataType
      <3> QED
        BY <1>1, <3>1 DEF TaskInv, Asked, Asks
    <2>5. wake_at' = IF pc = "outside" THEN clock ELSE wake_at
      BY <2>1 DEF LoopIsDue
    <2>6. TaskType' /\ LeftToDo'
      BY <1>1, <2>5 DEF TaskInv, TaskType, LeftToDo, NodeInv, DataType
    <2>7. Idles'
      BY <1>1, <1>2, <2>5 DEF TaskInv, Idles, ExternalLoopMayWait, NodeInv, DataType,
                         Time, Never, Callbacks
    <2> QED
      BY <2>2, <2>4, <2>6, <2>7 DEF TaskInv
  <1>4. CASE \E h \in handles : /\ Cancel(h.node, h.cookie)
                                /\ handles' = handles \ {h}
                                /\ UNCHANGED wake_at
    <2>1. PICK h \in handles : /\ Cancel(h.node, h.cookie)
                               /\ handles' = handles \ {h}
                               /\ UNCHANGED wake_at
      BY <1>4
    <2>2. h.node \in Node /\ h.cookie \in Nat \ {0}
      BY <1>1, ToolAssumption DEF NodeInv, DataType, HandlesWereLive
    <2>3. NodeInv'
      BY <1>1, <2>1, <2>2, CancelKeeps
    <2>4. status' = status \/ (cookie[h.node] = h.cookie
                    /\ status' = [status EXCEPT ![callback[h.node]] = "canceled"])
      BY <2>1 DEF Cancel
    <2>5. cookie[h.node] = h.cookie => status[callback[h.node]] = "pending"
      BY <1>1, <2>2 DEF NodeInv, LiveHoldCalls, LiveNodes
    <2>6. Asked'
      <3>1. \A t \in Thread : Asks(t) => status'[request[t].call] = "requested"
        BY <1>1, <2>4, <2>5 DEF TaskInv, Asked, NodeInv, DataType
      <3> QED
        BY <1>1, <3>1 DEF TaskInv, Asked, Asks
    <2>7. immed' = immed /\ deferUsed' = deferUsed
      BY <2>1 DEF Cancel, lists
    <2> QED
      BY <1>1, <2>1, <2>3, <2>6, <2>7
         DEF TaskInv, TaskType, LeftToDo, Idles, ExternalLoopMayWait
  <1>5. CASE Release /\ UNCHANGED wake_at
    <2>1. NodeInv'
      BY <1>1, <1>5, ReleaseKeeps
    <2>2. UNCHANGED <<immed, deferUsed, status>>
      BY <1>5 DEF Release
    <2> QED
      BY <1>1, <1>5, <2>1, <2>2
         DEF TaskInv, TaskType, LeftToDo, Asked, Asks, Idles, ExternalLoopMayWait
  <1> QED
    BY <1>3, <1>4, <1>5 DEF UserStep

\* One task of another thread, in a pass or in the destructor.
LEMMA RunTaskKeeps ==
    ASSUME ReactorInv, pc # "aborted", pc \notin Callbacks, left > 0,
           pc = "tasks" \/ dtor = "draining", RunTask
    PROVE  NodeInv' /\ TaskInv'
  <1> DEFINE t == Head(handle_tasks)
             r == request[t]
  <1>1. /\ left' = left - 1 /\ handle_tasks' = Tail(handle_tasks)
        /\ request' = [request EXCEPT ![t] = NoRequest]
        /\ fpc' = [fpc EXCEPT ![t] = "idle"]
        /\ UNCHANGED <<pc, pos, running, notified, wake_at, clock, is_shutdown,
                       dtor, epoch>> /\ Stays
        /\ NodeInv /\ TaskInv
    BY DEF RunTask, wait, life, Stays, ReactorInv
  <1>2. handle_tasks # <<>> /\ t \in Thread /\ left <= Len(handle_tasks)
        /\ left \in Nat /\ Len(handle_tasks) \in Nat
    BY <1>1 DEF TaskInv, TaskType, LeftToDo
  <1>3. \/ r.op = "immediate" /\ Immediate(r.call)
        \/ r.op = "deferred" /\ Deferred(r.call, r.delay)
        \/ r.op = "cancel" /\ Cancel(r.node, r.cookie) /\ UNCHANGED handles
        \/ r.op = "release" /\ Release
    BY DEF RunTask
  <1>4. r \in [op : {"none", "immediate", "deferred", "cancel", "release"},
               call : Call \cup {NoCall}, delay : Delay \cup {0},
               node : Node \cup {NoNode}, cookie : 0 .. CookieMod - 1]
    BY <1>1, <1>2 DEF TaskInv, TaskType
  <1>5. Asks(t) => r.call \in Call /\ status[r.call] = "requested"
    BY <1>1, <1>2 DEF TaskInv, Asked
  <1>6. r.op = "cancel" => r.node \in Node /\ r.cookie \in Nat \ {0}
    <2>1. t \in Thread /\ request[t].op = r.op
      BY <1>2
    <2> HIDE DEF t
    <2>2. r.op = "cancel" => r.node \in Node /\ r.cookie # 0
      BY <1>1, <2>1 DEF TaskInv, Asked
    <2>3. r.cookie \in Nat
      BY <1>4, ToolAssumption
    <2> QED
      BY <2>2, <2>3
  <1> HIDE DEF t
  <1>7. NodeInv'
    <2>1. CASE r.op = "immediate" /\ Immediate(r.call)
      BY <1>1, <1>5, <2>1, ImmediateKeeps DEF Asks
    <2>2. CASE r.op = "deferred" /\ Deferred(r.call, r.delay)
      <3>1. r.delay \in Delay
        <4>1. r.delay >= MinDelay
          BY <2>2 DEF Deferred
        <4> QED
          BY <1>4, <4>1, ToolAssumption
      <3> QED
        BY <1>1, <1>5, <2>2, <3>1, DeferredKeeps DEF Asks
    <2>3. CASE r.op = "cancel" /\ Cancel(r.node, r.cookie) /\ UNCHANGED handles
      BY <1>1, <1>6, <2>3, CancelKeeps
    <2>4. CASE r.op = "release" /\ Release
      BY <1>1, <2>4, ReleaseKeeps
    <2> QED
      BY <1>3, <2>1, <2>2, <2>3, <2>4
  <1>8. \A u \in Thread : u # t /\ Asks(u) => status'[request[u].call] = "requested"
    <2>1. CASE Asks(t)
      <3>1. status' = [status EXCEPT ![r.call] = "pending"]
        BY <1>3, <2>1 DEF Asks, Immediate, Deferred, Issue
      <3> QED
        BY <1>1, <1>2, <2>1, <3>1 DEF TaskInv, Asked, NodeInv, DataType
    <2>2. CASE r.op = "cancel"
      <3>1. \/ status' = status
            \/ /\ cookie[r.node] = r.cookie
               /\ status' = [status EXCEPT ![callback[r.node]] = "canceled"]
        BY <1>3, <2>2 DEF Cancel
      <3>2. cookie[r.node] = r.cookie => status[callback[r.node]] = "pending"
        BY <1>1, <1>6, <2>2 DEF NodeInv, LiveHoldCalls, LiveNodes
      <3> QED
        BY <1>1, <3>1, <3>2 DEF TaskInv, Asked, NodeInv, DataType
    <2>3. CASE r.op = "release"
      <3>1. status' = status
        BY <1>3, <2>3 DEF Release
      <3> QED
        BY <1>1, <3>1 DEF TaskInv, Asked
    <2> QED
      BY <1>3, <2>1, <2>2, <2>3 DEF Asks
  <1>9. request' \in [Thread -> [op : {"none", "immediate", "deferred", "cancel",
                                       "release"},
                                 call : Call \cup {NoCall}, delay : Delay \cup {0},
                                 node : Node \cup {NoNode},
                                 cookie : 0 .. CookieMod - 1]]
    <2>1. NoRequest \in [op : {"none", "immediate", "deferred", "cancel", "release"},
                         call : Call \cup {NoCall}, delay : Delay \cup {0},
                         node : Node \cup {NoNode}, cookie : 0 .. CookieMod - 1]
      BY ToolAssumption DEF NoRequest
    <2> QED
      BY <1>1, <2>1 DEF TaskInv, TaskType
  <1>10. TaskType'
    <2>1. handle_tasks' \in Seq(Thread) /\ Len(handle_tasks') <= TaskCapacity
          /\ Len(handle_tasks') = Len(handle_tasks) - 1
      BY <1>1, <1>2, ToolAssumption DEF TaskInv, TaskType
    <2>2. fpc' \in [Thread -> {"idle", "push", "wait"}] /\ left' \in Nat
      BY <1>1, <1>2 DEF TaskInv, TaskType
    <2> QED
      BY <1>1, <1>9, <2>1, <2>2 DEF TaskInv, TaskType
  <1>11. LeftToDo'
    BY <1>1, <1>2 DEF TaskInv, LeftToDo
  <1>12. Asked'
    <2>1. \A u \in Thread : request'[u] = IF u = t THEN NoRequest ELSE request[u]
      BY <1>1 DEF TaskInv, TaskType
    <2>2. \A u \in Thread : Asks(u)' => u # t /\ Asks(u)
      BY <2>1 DEF Asks, NoRequest
    <2> QED
      BY <1>1, <1>8, <2>1, <2>2 DEF TaskInv, Asked, Asks, NoRequest
  <1>13. Idles'
    BY <1>1, <1>2 DEF TaskInv, Idles, ExternalLoopMayWait, TaskType
  <1> QED
    BY <1>7, <1>10, <1>11, <1>12, <1>13 DEF TaskInv

----------------------------------------------------------------------------
(* The other steps *)

Places == {"top", "immed", "immed_cb", "defer", "defer_cb", "tasks", "check",
           "asleep", "outside", "exit", "aborted"}

\* The reactor goes on outside of its lists.
LEMMA NodeFrame ==
    ASSUME NodeInv, pc \notin Callbacks, pc # "aborted", pos = 0,
           pc' \in Places \ Callbacks,
           UNCHANGED <<data, pos, running, clock, handles, status, due>>,
           \/ last_now' = last_now /\ epoch' = epoch
           \/ last_now' = Never /\ epoch' \in {epoch, clock}
    PROVE  NodeInv'
  <1>1. UNCHANGED <<immed, deferUsed, deferQueue, free, callback, cookie, when,
                    current_cookie, canceled>>
    BY DEF data, lists, nodes
  <1>2. DataType'
    BY <1>1 DEF NodeInv, DataType, Places, Callbacks
  <1>3. Placed' /\ Apart' /\ HandlesWereLive'
    BY <1>1 DEF NodeInv, Placed, Apart, HandlesWereLive, Callbacks
  <1>4. Unprocessed' = Unprocessed /\ LiveNodes' = LiveNodes
    BY <1>1 DEF Unprocessed, LiveNodes
  <1>5. LiveHoldCalls' /\ CancelAccounting'
    BY <1>1, <1>4 DEF NodeInv, LiveHoldCalls, CancelAccounting
  <1>6. Times'
    BY <1>1, <1>4 DEF NodeInv, Times, DataType, Time
  <1> QED
    BY <1>2, <1>3, <1>5, <1>6 DEF NodeInv

\* The reactor does not move: clients, other threads and time do.
LEMMA NodeSame ==
    ASSUME NodeInv, UNCHANGED <<data, pc, pos, running, last_now, due, epoch>>,
           clock' \in {clock, clock + 1}, handles' \subseteq handles,
           status' \in [Call -> {"unused", "requested", "pending", "running",
                                 "done", "canceled"}],
           \A c \in Call : /\ status'[c] = "pending" <=> status[c] = "pending"
                           /\ status'[c] = "running" <=> status[c] = "running"
    PROVE  NodeInv'
  <1>1. UNCHANGED <<immed, deferUsed, deferQueue, free, callback, cookie, when,
                    current_cookie, canceled>>
    BY DEF data, lists, nodes
  <1>2. DataType'
    BY <1>1 DEF NodeInv, DataType, Time
  <1>3. Placed' /\ Apart' /\ HandlesWereLive'
    BY <1>1 DEF NodeInv, Placed, Apart, HandlesWereLive, Callbacks
  <1>4. Unprocessed' = Unprocessed /\ LiveNodes' = LiveNodes
    BY <1>1 DEF Unprocessed, LiveNodes
  <1>5. LiveHoldCalls' /\ CancelAccounting'
    BY <1>1, <1>4 DEF NodeInv, LiveHoldCalls, CancelAccounting
  <1>6. Times'
    BY <1>1, <1>4 DEF NodeInv, Times, DataType, Time, Never
  <1> QED
    BY <1>2, <1>3, <1>5, <1>6 DEF NodeInv

LEMMA FatalKeeps ==
    ASSUME ReactorInv, Fatal PROVE NodeInv' /\ TaskInv'
  <1>1. /\ pc' = "aborted"
        /\ UNCHANGED <<immed, deferUsed, deferQueue, free, callback, cookie, when,
                       current_cookie, canceled, pos, left, running, handle_tasks,
                       request, fpc, notified, wake_at, clock, last_now,
                       is_shutdown, dtor, handles, status, due, epoch>>
        /\ NodeInv /\ TaskInv
    BY DEF Fatal, data, lists, nodes, foreign, wait, life, history, ReactorInv
  <1>2. DataType' /\ Placed' /\ Apart' /\ HandlesWereLive'
    BY <1>1 DEF NodeInv, DataType, Placed, Apart, HandlesWereLive, Callbacks
  <1>3. Unprocessed' = Unprocessed /\ LiveNodes' = LiveNodes
    BY <1>1 DEF Unprocessed, LiveNodes
  <1>4. LiveHoldCalls' /\ Times' /\ CancelAccounting'
    BY <1>1, <1>3 DEF NodeInv, LiveHoldCalls, Times, CancelAccounting, Callbacks
  <1>5. TaskType' /\ LeftToDo' /\ Asked' /\ Idles'
    BY <1>1 DEF TaskInv, TaskType, LeftToDo, Asked, Asks, Idles, ExternalLoopMayWait,
                Callbacks
  <1> QED
    BY <1>2, <1>4, <1>5 DEF NodeInv, TaskInv

\* Steps of a pass leave the requests, and the calls they ask for, alone.
LEMMA AskedSame ==
    ASSUME TaskInv, request' = request,
           \A c \in Call : status[c] = "requested" => status'[c] = "requested"
    PROVE  Asked'
  BY DEF TaskInv, Asked, Asks

LEMMA CallbackStepsKeep ==
    ASSUME ReactorInv, RunImmediate \/ RunDeferred \/ ReturnImmediate \/ ReturnDeferred
    PROVE  NodeInv' /\ TaskInv'
  <1>1. NodeInv /\ TaskInv
    BY DEF ReactorInv
  <1>2. NodeInv'
    BY <1>1, RunImmediateKeeps, RunDeferredKeeps, ReturnImmediateKeeps,
       ReturnDeferredKeeps
  <1>3. UNCHANGED <<handle_tasks, request, fpc, notified, wake_at, is_shutdown, dtor>>
    BY DEF RunImmediate, RunDeferred, ReturnImmediate, ReturnDeferred, Start, Finish,
           foreign, wait, life
  <1>4. /\ pc \in {"immed", "defer"} \cup Callbacks
        /\ pc' \in {"immed", "defer"} \cup Callbacks
        /\ left \in Nat /\ left > 0
        /\ left' = IF pc \in Callbacks THEN left - 1 ELSE left
        /\ pc \in Callbacks => pc' \notin Callbacks
    BY <1>1 DEF RunImmediate, ImmediateNext, RunDeferred, ReturnImmediate,
           ReturnDeferred, Start, PopDeferred, Callbacks, TaskInv, TaskType, LeftToDo
  <1>5. \A c \in Call : status[c] = "requested" => status'[c] = "requested"
    <2>1. CASE RunImmediate \/ RunDeferred
      <3>1. PICK n \in Unprocessed : Start(n)
        <4>1. CASE RunImmediate
          BY <1>1, <4>1, NextOfRest, UnprocessedIs, ToolAssumption
             DEF RunImmediate, ImmediateNext, NodeInv, Placed, Callbacks
        <4>2. CASE RunDeferred
          BY <1>1, <4>2, ToolAssumption
             DEF RunDeferred, NodeInv, Placed, Callbacks, Tops, Apart, Unprocessed,
                 DataType
        <4> QED
          BY <2>1, <4>1, <4>2
      <3>2. /\ status' = [status EXCEPT ![callback[n]] = "running"]
            /\ status[callback[n]] = "pending"
        BY <1>1, <3>1, UnprocessedAreNodes DEF Start, NodeInv, LiveHoldCalls, LiveNodes
      <3> QED
        BY <1>1, <3>2 DEF NodeInv, DataType
    <2>2. CASE ReturnImmediate \/ ReturnDeferred
      <3>1. /\ status' = [status EXCEPT ![callback[running]] = "done"]
            /\ status[callback[running]] = "running"
        BY <1>1, <2>2 DEF ReturnImmediate, ReturnDeferred, Finish, NodeInv,
                          LiveHoldCalls, Callbacks
      <3> QED
        BY <1>1, <3>1 DEF NodeInv, DataType
    <2> QED
      BY <2>1, <2>2
  <1>6. Asked'
    BY <1>1, <1>3, <1>5, AskedSame
  <1>7. TaskType'
    BY <1>1, <1>3, <1>4 DEF TaskInv, TaskType
  <1>8. LeftToDo'
    <2>1. dtor # "draining"
      BY <1>4 DEF ReactorInv, WakeInv, Callbacks
    <2> QED
      BY <1>3, <1>4, <2>1 DEF LeftToDo, Callbacks
  <1>9. Idles'
    BY <1>4 DEF Idles, ExternalLoopMayWait, Callbacks
  <1> QED
    BY <1>2, <1>6, <1>7, <1>8, <1>9 DEF TaskInv

\* The reactor goes over its lists: the requests stay what they are, and the
\* batch of tasks is what is queued when it starts.
LEMMA ListStepsKeep ==
    ASSUME ReactorInv, pc # "aborted",
           SkipImmediate \/ EndImmediates \/ SkipDeferred \/ EndDeferred
    PROVE  NodeInv' /\ TaskInv'
  <1>1. NodeInv /\ TaskInv
    BY DEF ReactorInv
  <1>2. NodeInv'
    BY <1>1, SkipImmediateKeeps, EndImmediatesKeeps, SkipDeferredKeeps,
       EndDeferredKeeps
  <1>3. UNCHANGED <<handle_tasks, request, fpc, notified, wake_at, is_shutdown, dtor,
                    status>>
    BY DEF SkipImmediate, EndImmediates, SkipDeferred, EndDeferred, Skip,
           foreign, wait, life, history
  <1>4. /\ pc \in {"immed", "defer"} /\ pc' \in {"immed", "defer", "tasks"}
        /\ pc' = "tasks" => left' = Len(handle_tasks)
    BY DEF SkipImmediate, EndImmediates, SkipDeferred, EndDeferred, Skip,
           ImmediateNext, TaskBatch
  <1>5. left' \in Nat
    <2>1. left \in Nat /\ Burst \in Nat /\ Len(handle_tasks) \in Nat
      BY <1>1, ToolAssumption DEF TaskInv, TaskType
    <2> QED
      BY <2>1 DEF SkipImmediate, EndImmediates, SkipDeferred, EndDeferred,
                  ImmediateNext, PopDeferred, TaskBatch
  <1>6. Asked'
    BY <1>1, <1>3, AskedSame
  <1>7. TaskType'
    BY <1>1, <1>3, <1>5 DEF TaskInv, TaskType
  <1>8. LeftToDo'
    <2>1. dtor # "draining"
      BY <1>4 DEF ReactorInv, WakeInv
    <2> QED
      BY <1>1, <1>3, <1>4, <2>1 DEF LeftToDo, Callbacks, TaskInv, TaskType
  <1>9. Idles'
    BY <1>3, <1>4 DEF Idles, ExternalLoopMayWait
  <1> QED
    BY <1>2, <1>6, <1>7, <1>8, <1>9 DEF TaskInv

LEMMA TaskStepsKeep ==
    ASSUME ReactorInv, pc # "aborted", ReactorTask \/ DrainTask
    PROVE  NodeInv' /\ TaskInv'
  <1>1. CASE ReactorTask
    BY <1>1, RunTaskKeeps DEF ReactorTask, Callbacks
  <1>2. CASE DrainTask
    <2>1. pc \notin Callbacks
      BY <1>2 DEF DrainTask, ReactorInv, WakeInv, Callbacks
    <2>2. left > 0 /\ dtor = "draining" /\ RunTask
      BY <1>2 DEF DrainTask
    <2> QED
      BY <2>1, <2>2, RunTaskKeeps
  <1> QED
    BY <1>1, <1>2

\* iterate() reports no work only when both lists are empty.
LEMMA CycleResultIsTime ==
    ASSUME NodeInv
    PROVE  /\ CycleResult \in Time \cup {Never}
           /\ CycleResult = Never => immed = <<>> /\ deferUsed = {}
  <1>1. clock \in Nat /\ Now \in Nat /\ Now <= clock
    BY DEF NodeInv, DataType, Times, Time, Never, Now
  <1>2. CASE immed = <<>> /\ deferQueue # {}
    <2>1. Deadline \in Nat
      BY <1>2, TopsExist DEF NodeInv
    <2>2. CycleResult = clock + (Deadline - Now)
      BY <1>2 DEF CycleResult
    <2> QED
      BY <1>1, <2>1, <2>2 DEF Time, Never
  <1>3. CASE immed # <<>>
    BY <1>1, <1>3 DEF CycleResult, Time, Never
  <1>4. CASE immed = <<>> /\ deferQueue = {}
    BY <1>4 DEF CycleResult, NodeInv, Apart
  <1> QED
    BY <1>2, <1>3, <1>4

LEMMA LoopStepsKeep ==
    ASSUME ReactorInv, pc # "aborted",
           BeginPass \/ EndPass \/ EndIterate \/ Sleep \/ Exit \/ Wake \/ SpuriousWake
    PROVE  NodeInv' /\ TaskInv'
  <1>1. NodeInv /\ TaskInv
    BY DEF ReactorInv
  <1>2. /\ pc \in {"top", "outside", "tasks", "check", "asleep"}
        /\ pc' \in {"immed", "top", "check", "outside", "asleep", "exit"}
        /\ UNCHANGED <<data, running, clock, handles, status, due, handle_tasks,
                       request, fpc, is_shutdown, dtor>>
        /\ \/ last_now' = last_now /\ epoch' = epoch
           \/ last_now' = Never /\ epoch' \in {epoch, clock}
        /\ pos' \in {pos, 0} /\ left' \in {left, Burst}
    BY DEF BeginPass, EndPass, EndIterate, Sleep, Exit, Wake, SpuriousWake, WakeIf,
           ForgetNow, foreign, wait, life, history
  <1>3. pos = 0 /\ pc \notin Callbacks
    BY <1>1, <1>2 DEF NodeInv, Placed, Callbacks
  <1>4. NodeInv'
    <2>1. pc' \in Places \ Callbacks
      BY <1>2 DEF Places, Callbacks
    <2>2. pos' = pos
      BY <1>2, <1>3
    <2> QED
      BY <1>1, <1>2, <1>3, <2>1, <2>2, NodeFrame
  <1>5. Asked'
    BY <1>1, <1>2, AskedSame
  <1>6. notified' \in BOOLEAN /\ wake_at' \in Time \cup {Never}
    <2>1. notified \in BOOLEAN /\ wake_at \in Time \cup {Never}
      BY <1>1 DEF TaskInv, TaskType
    <2>2. notified' \in {notified, FALSE} \cup {Internal /\ notified}
      BY DEF BeginPass, EndPass, EndIterate, Sleep, Exit, Wake, SpuriousWake, WakeIf,
             wait
    <2>3. wake_at' \in {wake_at, CycleResult}
      BY DEF BeginPass, EndPass, EndIterate, Sleep, Exit, Wake, SpuriousWake, WakeIf,
             wait
    <2>4. notified' \in BOOLEAN
      BY <2>1, <2>2, ToolAssumption
    <2> QED
      BY <1>1, <2>1, <2>3, <2>4, CycleResultIsTime
  <1>7. TaskType'
    BY <1>1, <1>2, <1>6, ToolAssumption DEF TaskInv, TaskType
  <1>8. LeftToDo'
    <2>1. CASE dtor # "draining"
      BY <1>2, <2>1 DEF LeftToDo, Callbacks
    <2>2. CASE dtor = "draining"
      <3>1. ~BeginPass
        <4>1. pc # "top"
          BY <2>2 DEF ReactorInv, WakeInv
        <4> QED
          BY <2>2, <4>1 DEF BeginPass
      <3>2. left' = left
        BY <3>1 DEF EndPass, EndIterate, Sleep, Exit, Wake, SpuriousWake, WakeIf
      <3> QED
        BY <1>1, <1>2, <2>2, <3>2 DEF LeftToDo, Callbacks, TaskInv
    <2> QED
      BY <2>1, <2>2
  <1>9. Idles'
    <2>1. CASE EndIterate
      <3>1. /\ ~Internal /\ pc = "tasks" /\ left = 0 /\ pc' = "outside"
            /\ wake_at' = CycleResult /\ notified' = notified
            /\ UNCHANGED <<immed, deferUsed, handle_tasks>>
        BY <2>1 DEF EndIterate, data, lists, foreign
      <3>2. ~notified => handle_tasks = <<>>
        BY <1>1, <3>1 DEF TaskInv, Idles, TaskType
      <3> QED
        BY <1>1, <3>1, <3>2, CycleResultIsTime DEF Idles, ExternalLoopMayWait
    <2>2. CASE ~EndIterate
      <3>1. pc' # "outside" /\ pc' # "tasks"
        BY <2>2 DEF BeginPass, EndPass, EndIterate, Sleep, Exit, Wake, SpuriousWake,
                    WakeIf
      <3> QED
        BY <3>1 DEF Idles, ExternalLoopMayWait
    <2> QED
      BY <2>1, <2>2
  <1> QED
    BY <1>4, <1>5, <1>7, <1>8, <1>9 DEF TaskInv

\* Another thread builds a request for an unused call, or for a valid handle.
LEMMA ForeignCallKeeps ==
    ASSUME ReactorInv, NEW t \in Thread, ForeignCall(t) PROVE NodeInv' /\ TaskInv'
  <1>1. /\ NodeInv /\ TaskInv /\ fpc[t] = "idle"
        /\ UNCHANGED <<data, pc, pos, left, running, notified, wake_at, clock,
                       last_now, due, epoch, handle_tasks, is_shutdown, dtor>>
    BY DEF ForeignCall, ReactorInv, reactor, wait, life
  <1>2. UNCHANGED <<immed, deferUsed>>
    BY <1>1 DEF data, lists
  <1>3. /\ handles' \subseteq handles
        /\ status' = status \/ \E c \in Call : /\ status[c] = "unused"
                                       /\ status' = [status EXCEPT ![c] = "requested"]
    BY DEF ForeignCall
  <1>4. /\ status' \in [Call -> {"unused", "requested", "pending", "running", "done",
                                 "canceled"}]
        /\ \A c \in Call : /\ status'[c] = "pending" <=> status[c] = "pending"
                           /\ status'[c] = "running" <=> status[c] = "running"
                           /\ status[c] = "requested" => status'[c] = "requested"
    BY <1>1, <1>3 DEF NodeInv, DataType
  <1>5. NodeInv'
    BY <1>1, <1>3, <1>4, NodeSame
  <1> DEFINE Builds(r) == /\ request' = [request EXCEPT ![t] = r]
                          /\ fpc' = [fpc EXCEPT ![t] = "push"]
             WellTyped(r) == r \in [op : {"none", "immediate", "deferred", "cancel",
                                      "release"},
                                call : Call \cup {NoCall}, delay : Delay \cup {0},
                                node : Node \cup {NoNode},
                                cookie : 0 .. CookieMod - 1]
             Fresh(r) == /\ r.op = "cancel" => r.node \in Node /\ r.cookie # 0
                         /\ r.op \in {"immediate", "deferred"} =>
                              /\ r.call \in Call /\ status[r.call] = "unused"
                              /\ status'[r.call] = "requested"
             Asking(c) == /\ status[c] = "unused"
                          /\ status' = [status EXCEPT ![c] = "requested"]
  <1>6. \/ request' = request /\ fpc' = fpc
        \/ \E r : Builds(r) /\ WellTyped(r) /\ Fresh(r)
    <2>1. 0 \in 0 .. CookieMod - 1
      BY ToolAssumption
    <2>2. ASSUME NEW c \in Call, Asking(c),
                 Builds([NoRequest EXCEPT !.op = "immediate", !.call = c])
          PROVE  \E r : Builds(r) /\ WellTyped(r) /\ Fresh(r)
      <3> DEFINE r == [NoRequest EXCEPT !.op = "immediate", !.call = c]
      <3>1. WellTyped(r) /\ r.op = "immediate" /\ r.call = c
        BY <2>1 DEF NoRequest
      <3>2. status'[c] = "requested"
        BY <1>1, <2>2 DEF NodeInv, DataType
      <3> QED
        BY <2>2, <3>1, <3>2
    <2>3. ASSUME NEW c \in Call, NEW d \in Delay, Asking(c),
                 Builds([NoRequest EXCEPT !.op = "deferred", !.call = c, !.delay = d])
          PROVE  \E r : Builds(r) /\ WellTyped(r) /\ Fresh(r)
      <3> DEFINE r == [NoRequest EXCEPT !.op = "deferred", !.call = c, !.delay = d]
      <3>1. WellTyped(r) /\ r.op = "deferred" /\ r.call = c
        BY <2>1 DEF NoRequest
      <3>2. status'[c] = "requested"
        BY <1>1, <2>3 DEF NodeInv, DataType
      <3> QED
        BY <2>3, <3>1, <3>2
    <2>4. ASSUME NEW h \in handles,
                 Builds([NoRequest EXCEPT !.op = "cancel", !.node = h.node,
                                          !.cookie = h.cookie])
          PROVE  \E r : Builds(r) /\ WellTyped(r) /\ Fresh(r)
      <3> DEFINE r == [NoRequest EXCEPT !.op = "cancel", !.node = h.node,
                                        !.cookie = h.cookie]
      <3>1. h.node \in Node /\ h.cookie \in 0 .. CookieMod - 1 /\ h.cookie # 0
        BY <1>1 DEF NodeInv, DataType, HandlesWereLive
      <3>2. WellTyped(r) /\ r.op = "cancel" /\ r.node \in Node /\ r.cookie # 0
        BY <3>1 DEF NoRequest
      <3> QED
        BY <2>4, <3>2
    <2>5. ASSUME Builds([NoRequest EXCEPT !.op = "release"])
          PROVE  \E r : Builds(r) /\ WellTyped(r) /\ Fresh(r)
      <3> DEFINE r == [NoRequest EXCEPT !.op = "release"]
      <3>1. WellTyped(r) /\ r.op = "release"
        BY <2>1 DEF NoRequest
      <3> QED
        BY <2>5, <3>1
    <2>6. \/ \E c \in Call :
               /\ Asking(c) /\ Builds([NoRequest EXCEPT !.op = "immediate", !.call = c])
          \/ \E c \in Call, d \in Delay :
               /\ Asking(c)
               /\ Builds([NoRequest EXCEPT !.op = "deferred", !.call = c, !.delay = d])
          \/ \E h \in handles :
               \/ Builds([NoRequest EXCEPT !.op = "cancel", !.node = h.node,
                                           !.cookie = h.cookie])
               \/ request' = request /\ fpc' = fpc
          \/ Builds([NoRequest EXCEPT !.op = "release"])
      BY DEF ForeignCall
    <2> HIDE DEF Builds, WellTyped, Fresh, Asking
    <2> QED
      BY <2>2, <2>3, <2>4, <2>5, <2>6, Zenon
  <1>7. TaskType'
    <2>1. CASE request' = request /\ fpc' = fpc
      BY <1>1, <2>1 DEF TaskInv, TaskType
    <2>2. ASSUME NEW r, Builds(r), WellTyped(r) PROVE TaskType'
      BY <1>1, <2>2 DEF TaskInv, TaskType
    <2> QED
      BY <1>6, <2>1, <2>2
  <1>8. Asked'
    <2>1. CASE request' = request
      BY <1>1, <1>4, <2>1, AskedSame
    <2>2. ASSUME NEW r, Builds(r), Fresh(r) PROVE Asked'
      <3>1. \A u \in Thread : request'[u] = IF u = t THEN r ELSE request[u]
        BY <1>1, <2>2 DEF TaskInv, TaskType
      <3>2. \A u \in Thread : u # t /\ Asks(u)' =>
              /\ request[u].call \in Call /\ status[request[u].call] = "requested"
              /\ status'[request[u].call] = "requested"
        BY <1>1, <1>4, <3>1 DEF TaskInv, Asked, Asks
      <3>3. Asks(t)' => \A u \in Thread : u # t /\ Asks(u)' => request[u].call # r.call
        BY <2>2, <3>1, <3>2 DEF Asks
      <3> QED
        BY <1>1, <2>2, <3>1, <3>2, <3>3 DEF TaskInv, Asked, Asks
    <2> QED
      BY <1>6, <2>1, <2>2
  <1>9. LeftToDo' /\ Idles'
    BY <1>1, <1>2 DEF TaskInv, LeftToDo, Idles, ExternalLoopMayWait
  <1> QED
    BY <1>5, <1>7, <1>8, <1>9 DEF TaskInv

\* What is left alone by a step that does not touch the lists and the calls.
LEMMA CallsSame ==
    ASSUME ReactorInv, clock' \in {clock, clock + 1},
           UNCHANGED <<data, request, pc, pos, running, wake_at, last_now, history>>
    PROVE  NodeInv' /\ Asked' /\ UNCHANGED <<immed, deferUsed>>
  <1>1. NodeInv /\ TaskInv /\ UNCHANGED <<handles, status, due, epoch>>
    BY DEF ReactorInv, history
  <1>2. NodeInv'
    <2>1. status' \in [Call -> {"unused", "requested", "pending", "running", "done",
                                "canceled"}]
      BY <1>1 DEF NodeInv, DataType
    <2> QED
      BY <1>1, <2>1, NodeSame
  <1> QED
    BY <1>1, <1>2, AskedSame DEF data, lists

LEMMA AddHandleTaskKeeps ==
    ASSUME ReactorInv, NEW t \in Thread, AddHandleTask(t) PROVE NodeInv' /\ TaskInv'
  <1>1. /\ TaskInv
        /\ UNCHANGED <<data, request, pc, pos, left, running, wake_at, clock,
                       last_now, is_shutdown, dtor, history>>
        /\ Len(handle_tasks) < TaskCapacity
        /\ handle_tasks' = Append(handle_tasks, t)
        /\ fpc' = [fpc EXCEPT ![t] = "wait"]
        /\ notified' = (notified \/ ~Internal \/ pc = "asleep")
    BY DEF AddHandleTask, Poke, ReactorInv, reactor, life
  <1>2. NodeInv' /\ Asked' /\ UNCHANGED <<immed, deferUsed>>
    BY <1>1, CallsSame
  <1>3. /\ handle_tasks' \in Seq(Thread)
        /\ Len(handle_tasks') = Len(handle_tasks) + 1
        /\ Len(handle_tasks) \in Nat
    BY <1>1 DEF TaskInv, TaskType
  <1>4. TaskType'
    <2>1. notified' \in BOOLEAN /\ Len(handle_tasks') <= TaskCapacity
      BY <1>1, <1>3, ToolAssumption
    <2> QED
      BY <1>1, <1>3, <2>1 DEF TaskInv, TaskType
  <1>5. LeftToDo'
    BY <1>1, <1>3 DEF TaskInv, TaskType, LeftToDo
  <1>6. Idles'
    BY <1>1 DEF TaskInv, Idles, ExternalLoopMayWait
  <1> QED
    BY <1>2, <1>4, <1>5, <1>6 DEF TaskInv

LEMMA DestroyKeeps ==
    ASSUME ReactorInv, pc # "aborted",
           DestroyFlag \/ DestroyPoke \/ DestroyJoin \/ DrainStuck \/ DestroyDone
    PROVE  NodeInv' /\ TaskInv'
  <1>1. /\ TaskInv
        /\ UNCHANGED <<data, request, handle_tasks, fpc, pc, pos, running, wake_at,
                       clock, last_now, history>>
        /\ is_shutdown' \in {is_shutdown, TRUE}
        /\ dtor' \in {"flagged", "joining", "draining", "stuck", "done"}
        /\ notified' \in {notified, notified \/ ~Internal \/ pc = "asleep"}
        /\ \/ left' = left /\ dtor' # "draining"
           \/ left' = Len(handle_tasks) /\ dtor' = "draining"
    BY DEF DestroyFlag, DestroyPoke, DestroyJoin, DrainStuck, DestroyDone, Poke,
           TaskBatch, ReactorInv, reactor, foreign, wait
  <1>2. NodeInv' /\ Asked' /\ UNCHANGED <<immed, deferUsed>>
    BY <1>1, CallsSame
  <1>3. Len(handle_tasks) \in Nat /\ left \in Nat /\ left' \in Nat
    BY <1>1 DEF TaskInv, TaskType
  <1>4. TaskType'
    <2>1. notified' \in BOOLEAN /\ is_shutdown' \in BOOLEAN
      BY <1>1, ToolAssumption DEF TaskInv, TaskType
    <2> QED
      BY <1>1, <1>3, <2>1 DEF TaskInv, TaskType
  <1>5. pc \notin Callbacks \/ left' = left
    BY DEF DestroyFlag, DestroyPoke, DestroyJoin, DrainStuck, DestroyDone, Callbacks,
           reactor
  <1>6. LeftToDo'
    BY <1>1, <1>3, <1>5 DEF TaskInv, LeftToDo
  <1>7. Idles'
    <2>1. ~notified' => ~notified
      BY <1>1 DEF TaskInv, TaskType
    <2>2. pc = "tasks" /\ ~Internal => left' = left
      BY DEF DestroyFlag, DestroyPoke, DestroyJoin, DrainStuck, DestroyDone, reactor
    <2> QED
      BY <1>1, <1>2, <2>1, <2>2 DEF TaskInv, Idles, ExternalLoopMayWait
  <1> QED
    BY <1>2, <1>4, <1>6, <1>7 DEF TaskInv

LEMMA TickKeeps == ASSUME ReactorInv, Tick PROVE NodeInv' /\ TaskInv'
  <1>1. /\ TaskInv /\ clock' = clock + 1
        /\ UNCHANGED <<data, request, handle_tasks, fpc, pc, pos, left, running,
                       notified, wake_at, last_now, is_shutdown, dtor, history>>
    BY DEF Tick, ReactorInv, reactor, foreign, wait, life
  <1>2. NodeInv' /\ Asked' /\ UNCHANGED <<immed, deferUsed>>
    BY <1>1, CallsSame
  <1> QED
    BY <1>1, <1>2 DEF TaskInv, TaskType, LeftToDo, Idles, ExternalLoopMayWait

LEMMA ForgetKeeps == ASSUME ReactorInv, Forget PROVE NodeInv' /\ TaskInv'
  <1>1. /\ NodeInv /\ TaskInv
        /\ UNCHANGED <<data, request, handle_tasks, fpc, pc, pos, left, running,
                       notified, wake_at, clock, last_now, is_shutdown, dtor, due,
                       epoch>>
    BY DEF Forget, ReactorInv, reactor, foreign, wait, life
  <1>2. PICK c \in Call : /\ status[c] \in {"done", "canceled"}
                          /\ status' = [status EXCEPT ![c] = "unused"]
                          /\ handles' = {h \in handles : h.call # c}
    BY DEF Forget
  <1>3. /\ status' \in [Call -> {"unused", "requested", "pending", "running", "done",
                                 "canceled"}]
        /\ \A d \in Call : /\ status'[d] = "pending" <=> status[d] = "pending"
                           /\ status'[d] = "running" <=> status[d] = "running"
                           /\ status[d] = "requested" => status'[d] = "requested"
    BY <1>1, <1>2 DEF NodeInv, DataType
  <1>4. NodeInv'
    BY <1>1, <1>2, <1>3, NodeSame
  <1>5. Asked'
    BY <1>1, <1>3, AskedSame
  <1>6. UNCHANGED <<immed, deferUsed>>
    BY <1>1 DEF data, lists
  <1> QED
    BY <1>1, <1>4, <1>5, <1>6
       DEF TaskInv, TaskType, LeftToDo, Idles, ExternalLoopMayWait

----------------------------------------------------------------------------
(* The invariant of the reactor *)

LEMMA InitReactor == Init => ReactorInv
  <1> SUFFICES ASSUME Init PROVE ReactorInv
    OBVIOUS
  <1>1. LiveNodes = {} /\ Unprocessed = {} /\ Elements(immed) = {} /\ Len(immed) = 0
    BY DEF Init, LiveNodes, Unprocessed, Elements
  <1>2. DataType
    <2>1. /\ immed \in Seq(Node) /\ 0 \in 0 .. CookieMod - 1
          /\ current_cookie \in 1 .. CookieMod - 1
      BY ToolAssumption DEF Init
    <2>2. /\ callback \in [Node -> Call \cup {NoCall}]
          /\ cookie \in [Node -> 0 .. CookieMod - 1] /\ when \in [Node -> Time]
          /\ due \in [Call -> Time]
          /\ status \in [Call -> {"unused", "requested", "pending", "running", "done",
                                  "canceled"}]
      BY <2>1 DEF Init, Time
    <2> QED
      BY <2>1, <2>2 DEF Init, DataType, Time
  <1>3. Placed /\ Apart /\ HandlesWereLive
    BY <1>1 DEF Init, Placed, Apart, HandlesWereLive, Distinct, Callbacks
  <1>4. LiveHoldCalls /\ Times
    BY <1>1 DEF Init, LiveHoldCalls, Times, Callbacks, Never
  <1>5. CancelAccounting
    <2>1. {n \in Unprocessed : cookie[n] = 0} = {}
      BY <1>1
    <2> QED
      BY <2>1, FS_EmptySet DEF Init, CancelAccounting
  <1>6. TaskType
    <2>1. NoRequest \in [op : {"none", "immediate", "deferred", "cancel", "release"},
                         call : Call \cup {NoCall}, delay : Delay \cup {0},
                         node : Node \cup {NoNode}, cookie : 0 .. CookieMod - 1]
      BY ToolAssumption DEF NoRequest
    <2>2. handle_tasks \in Seq(Thread) /\ Len(handle_tasks) <= TaskCapacity
      BY ToolAssumption DEF Init
    <2> QED
      BY <2>1, <2>2 DEF Init, TaskType
  <1>7. LeftToDo /\ Asked
    BY DEF Init, LeftToDo, Asked, Asks, NoRequest, Callbacks
  <1>8. Idles
    BY DEF Init, Idles, ExternalLoopMayWait
  <1> QED
    BY <1>2, <1>3, <1>4, <1>5, <1>6, <1>7, <1>8, InitWake
       DEF ReactorInv, NodeInv, TaskInv

LEMMA StepKeepsReactor == ReactorInv /\ [Next]_vars => ReactorInv'
  <1> SUFFICES ASSUME ReactorInv, [Next]_vars PROVE NodeInv' /\ TaskInv'
    BY StepKeepsWake DEF ReactorInv
  <1>1. CASE UNCHANGED vars
    <2>1. /\ NodeInv /\ TaskInv
          /\ UNCHANGED <<data, request, handle_tasks, fpc, pc, pos, left, running,
                         notified, wake_at, clock, last_now, is_shutdown, dtor,
                         history>>
      BY <1>1 DEF vars, ReactorInv, reactor, foreign, wait, life
    <2>2. NodeInv' /\ Asked' /\ UNCHANGED <<immed, deferUsed>>
      BY <2>1, CallsSame
    <2> QED
      BY <2>1, <2>2 DEF TaskInv, TaskType, LeftToDo, Idles, ExternalLoopMayWait
  <1>2. CASE Next
    <2>1. pc # "aborted"
      BY <1>2 DEF Next
    <2>2. CASE UserStep
      BY <2>1, <2>2, UserKeeps
    <2>3. CASE Fatal
      BY <2>3, FatalKeeps
    <2>4. CASE RunImmediate \/ RunDeferred \/ ReturnImmediate \/ ReturnDeferred
      BY <2>4, CallbackStepsKeep
    <2>5. CASE SkipImmediate \/ EndImmediates \/ SkipDeferred \/ EndDeferred
      BY <2>1, <2>5, ListStepsKeep
    <2>6. CASE ReactorTask \/ DrainTask
      BY <2>1, <2>6, TaskStepsKeep
    <2>7. CASE \/ BeginPass \/ EndPass \/ EndIterate \/ Sleep \/ Exit \/ Wake
               \/ SpuriousWake
      BY <2>1, <2>7, LoopStepsKeep
    <2>8. CASE \E t \in Thread : ForeignCall(t) \/ AddHandleTask(t)
      BY <2>8, ForeignCallKeeps, AddHandleTaskKeeps
    <2>9. CASE DestroyFlag \/ DestroyPoke \/ DestroyJoin \/ DrainStuck \/ DestroyDone
      BY <2>1, <2>9, DestroyKeeps
    <2>10. CASE Tick \/ Forget
      BY <2>10, TickKeeps, ForgetKeeps
    <2> QED
      BY <1>2, <2>2, <2>3, <2>4, <2>5, <2>6, <2>7, <2>8, <2>9, <2>10
         DEF Next, PassStep, DestroyStep
  <1> QED
    BY <1>1, <1>2

LEMMA ReactorIsSound == Spec => []ReactorInv
  BY InitReactor, StepKeepsReactor, PTL DEF Spec

\* Every variable of the reactor keeps its type: canceled_handles does not
\* underflow, and get_cookie() never hands out zero or leaves its width.
THEOREM TypesAreKept == Spec => []TypeOK
  <1>1. ReactorInv => TypeOK
    BY CanceledIsNat DEF ReactorInv, NodeInv, TaskInv, DataType, TaskType, TypeOK
  <1> QED
    BY <1>1, ReactorIsSound, PTL

(* A node is in one of immed_queue, defer_used_heap and                     *)
(* universal_free_heep at a time, and defer_queue points to exactly the     *)
(* nodes of the deferred list, through bursts, pops and compaction.         *)
THEOREM NodesAreOwned == Spec => []NodeOwnership
  <1>1. ReactorInv => NodeOwnership
    BY CanceledIsNat DEF ReactorInv, NodeInv, TaskInv, DataType, TaskType, TypeOK,
                         Apart, NodeOwnership
  <1> QED
    BY <1>1, ReactorIsSound, PTL

(* canceled_handles is exactly the number of dead nodes that a queue still  *)
(* holds, whoever cancels and whenever the heap is compacted.               *)
THEOREM CanceledAreCounted == Spec => []CancelAccounting
  <1>1. ReactorInv => CancelAccounting
    BY DEF ReactorInv, NodeInv
  <1> QED
    BY <1>1, ReactorIsSound, PTL

(* No call is lost, doubled or revived: one that was neither run nor        *)
(* canceled sits in exactly one live node of a queue, any other in none.    *)
THEOREM CallsAreNotLost == Spec => []PendingIsQueued
  <1>1. ASSUME ReactorInv, NEW c \in Call
        PROVE  Cardinality({n \in Unprocessed : cookie[n] # 0 /\ callback[n] = c})
                 = IF status[c] = "pending" THEN 1 ELSE 0
    <2> DEFINE Holders == {n \in Unprocessed : cookie[n] # 0 /\ callback[n] = c}
    <2>1. NodeInv /\ Unprocessed \subseteq Node
      BY <1>1, UnprocessedAreNodes DEF ReactorInv, NodeInv
    <2>2. Holders = {n \in LiveNodes : callback[n] = c}
      BY <2>1 DEF NodeInv, LiveHoldCalls, LiveNodes
    <2>3. CASE status[c] = "pending"
      <3>1. PICK n \in LiveNodes : callback[n] = c
        BY <2>1, <2>3 DEF NodeInv, LiveHoldCalls
      <3>2. Holders = {n}
        BY <2>1, <2>2, <3>1 DEF NodeInv, LiveHoldCalls
      <3> QED
        BY <2>3, <3>2, FS_Singleton
    <2>4. CASE status[c] # "pending"
      <3>1. Holders = {}
        BY <2>1, <2>2, <2>4 DEF NodeInv, LiveHoldCalls
      <3> QED
        BY <2>4, <3>1, FS_EmptySet
    <2> QED
      BY <2>3, <2>4
  <1>2. ReactorInv => PendingIsQueued
    BY <1>1 DEF PendingIsQueued
  <1> QED
    BY <1>2, ReactorIsSound, PTL

(* The loop of README.md:94 may wait without a limit when iterate() says    *)
(* there is no work: the queues are empty, or somebody has poked.           *)
THEOREM LoopMayWait == Spec => []ExternalLoopMayWait
  <1>1. ReactorInv => ExternalLoopMayWait
    BY DEF ReactorInv, TaskInv, Idles
  <1> QED
    BY <1>1, ReactorIsSound, PTL

\* A pending call begins to run in two steps only.
LEMMA OnlyTheseRun ==
    ASSUME ReactorInv, Next, NEW c \in Call, status[c] = "pending",
           status'[c] = "running"
    PROVE  RunImmediate \/ RunDeferred
  <1>1. /\ status \in [Call -> {"unused", "requested", "pending", "running", "done",
                                "canceled"}]
        /\ NodeInv
    BY DEF ReactorInv, NodeInv, DataType
  <1>2. ASSUME NEW d, NEW s, s # "running", status' = [status EXCEPT ![d] = s]
        PROVE  FALSE
    BY <1>1, <1>2
  <1>3. status' # status
    BY <1>1
  <1>4. \A d : Immediate(d) => FALSE
    BY <1>2 DEF Immediate, Issue
  <1>5. \A d, e : Deferred(d, e) => FALSE
    BY <1>2 DEF Deferred, Issue
  <1>6. \A n, k : Cancel(n, k) => FALSE
    BY <1>2, <1>3 DEF Cancel
  <1>7. ~Release
    BY <1>3 DEF Release
  <1>8. ~UserStep /\ ~ReactorTask /\ ~DrainTask
    BY <1>4, <1>5, <1>6, <1>7 DEF UserStep, ReactorTask, DrainTask, RunTask
  <1>9. ~(\E t \in Thread : ForeignCall(t)) /\ ~Forget /\ ~ReturnImmediate
        /\ ~ReturnDeferred
    <2>1. \A t \in Thread : ForeignCall(t) => \/ status' = status
            \/ \E d \in Call : status' = [status EXCEPT ![d] = "requested"]
      BY DEF ForeignCall
    <2>2. Forget => \E d \in Call : status' = [status EXCEPT ![d] = "unused"]
      BY DEF Forget
    <2>3. ReturnImmediate \/ ReturnDeferred =>
            status' = [status EXCEPT ![callback[running]] = "done"]
      BY DEF ReturnImmediate, ReturnDeferred, Finish
    <2>4. "requested" # "running" /\ "unused" # "running" /\ "done" # "running"
      OBVIOUS
    <2> QED
      BY <1>2, <1>3, <2>1, <2>2, <2>3, <2>4, Zenon
  <1>10. UNCHANGED history => FALSE
    BY <1>3 DEF history
  <1>11. /\ ~Fatal /\ ~SkipImmediate /\ ~EndImmediates /\ ~SkipDeferred /\ ~EndDeferred
         /\ ~EndPass /\ ~EndIterate /\ ~BeginPass /\ ~Sleep /\ ~Exit /\ ~Wake
         /\ ~SpuriousWake /\ ~(\E t \in Thread : AddHandleTask(t)) /\ ~DestroyFlag
         /\ ~DestroyPoke /\ ~DestroyJoin /\ ~DrainStuck /\ ~DestroyDone /\ ~Tick
    BY <1>3, <1>10 DEF Fatal, SkipImmediate, EndImmediates, SkipDeferred, EndDeferred,
       Skip, EndPass, EndIterate, BeginPass, Sleep, Exit, Wake, SpuriousWake, WakeIf,
       AddHandleTask, DestroyFlag, DestroyPoke, DestroyJoin, DrainStuck, DestroyDone,
       Tick
  <1> QED
    BY <1>8, <1>9, <1>11 DEF Next, PassStep, DestroyStep

(* deferred() never runs early, but for the time by which the cached clock  *)
(* may lag: the start of the pass that scheduled the call.                  *)
THEOREM DeferredAreNotEarly == Spec => NotEarly
  <1>1. ASSUME ReactorInv, Next, NEW c \in Call, status[c] = "pending",
               status'[c] = "running"
        PROVE  clock >= due[c]
    <2>1. NodeInv
      BY <1>1 DEF ReactorInv
    <2>2. /\ clock \in Nat /\ last_now \in Nat \cup {Never}
          /\ when \in [Node -> Nat] /\ due \in [Call -> Nat]
      BY <2>1 DEF NodeInv, DataType, Time
    <2>3. CASE RunImmediate
      <3>1. PICK n \in Elements(immed) : Start(n)
        <4>1. pos + 1 \in DOMAIN immed
          BY <2>1, <2>3 DEF RunImmediate, ImmediateNext, NodeInv, DataType
        <4> QED
          BY <2>3, <4>1 DEF RunImmediate, Elements
      <3>2. n \in LiveNodes /\ n \notin deferUsed
        BY <2>1, <3>1 DEF Start, LiveNodes, NodeInv, Apart, DataType, Elements
      <3>3. callback[n] = c
        BY <1>1, <2>1, <3>1 DEF Start, NodeInv, DataType
      <3> QED
        BY <2>1, <2>2, <3>2, <3>3 DEF NodeInv, Times
    <2>4. CASE RunDeferred
      <3>1. PICK n \in Tops : Expired(n) /\ Start(n)
        BY <2>4 DEF RunDeferred
      <3>2. n \in LiveNodes /\ n \in deferUsed /\ n \in Node
        BY <2>1, <3>1 DEF Start, LiveNodes, NodeInv, Apart, DataType, Tops
      <3>3. callback[n] = c
        BY <1>1, <2>1, <3>1 DEF Start, NodeInv, DataType
      <3>4. when[n] <= last_now /\ due[c] <= when[n]
        BY <2>1, <3>1, <3>2, <3>3 DEF NodeInv, Times, Expired
      <3>5. last_now <= clock
        BY <2>1, <2>2, <3>2, <3>4 DEF NodeInv, Times, Never
      <3>6. last_now \in Nat
        BY <2>2, <3>2, <3>4 DEF Never
      <3> QED
        BY <2>2, <3>2, <3>4, <3>5, <3>6
    <2> QED
      BY <1>1, <2>3, <2>4, OnlyTheseRun
  <1>2. ReactorInv /\ [Next]_vars =>
          [\A c \in Call : (status[c] = "pending" /\ status'[c] = "running")
                              => clock >= due[c]]_vars
    BY <1>1
  <1> QED
    BY <1>2, ReactorIsSound, PTL DEF Spec, NotEarly

----------------------------------------------------------------------------
(* Handles: HandleIdentity also needs that cookies do not repeat, and a     *)
(* cookie of w bits repeats after 2^w - 1 calls.                            *)

Issued == {c \in Call : status[c] \notin {"unused", "requested"}}

\* The handle of a pending call is valid, whatever happened to its node before.
Owned ==
    \A h \in handles :
        /\ h.call \in Issued
        /\ status[h.call] = "pending" => callback[h.node] = h.call /\ IsValid(h)

\* The tool is not asked for more calls than there are cookies.
NoWrap == ~Recycle /\ Cardinality(Call) < CookieMod

Exact == \A h \in handles : IsValid(h) => callback[h.node] = h.call

\* The next cookie is a new one; the last of them is 1, the initial value.
Counted ==
    Cardinality(Issued) <= CookieMod - 2 =>
        /\ current_cookie = Cardinality(Issued) + 1
        /\ \A h \in handles : h.cookie \in 2 .. current_cookie

HandleInv == Owned /\ (NoWrap => Exact /\ Counted)

LEMMA IssuedAreCounted == IsFiniteSet(Issued) /\ Cardinality(Issued) \in Nat
  <1>1. Issued \subseteq Call /\ IsFiniteSet(Call)
    BY EnoughNodes DEF Issued
  <1> QED
    BY <1>1, FS_Subset, FS_CardinalityType

\* No call is issued, and no pending call changes its node.
LEMMA HandlesStay ==
    ASSUME NodeInv, HandleInv, UNCHANGED <<callback, current_cookie>>,
           handles' \subseteq handles,
           \A n \in Node : cookie'[n] \in {cookie[n], 0},
           \A h \in handles' : h.call \in Issued',
           ~Recycle => Issued' = Issued,
           \A h \in handles' : status'[h.call] = "pending" =>
               status[h.call] = "pending" /\ cookie'[h.node] = cookie[h.node]
    PROVE  HandleInv'
  <1>1. Owned'
    BY DEF HandleInv, Owned, IsValid
  <1>2. \A h \in handles : h.node \in Node /\ h.cookie # 0
    BY DEF NodeInv, DataType, HandlesWereLive
  <1>3. NoWrap => Exact'
    BY <1>2 DEF HandleInv, Exact, IsValid
  <1>4. NoWrap => Counted'
    BY DEF HandleInv, Counted, NoWrap
  <1> QED
    BY <1>1, <1>3, <1>4 DEF HandleInv, NoWrap

\* The handles of the node's earlier calls have other cookies.
LEMMA IssueKeepsHandles ==
    ASSUME NodeInv, HandleInv, pc # "aborted", NEW c \in Call,
           status[c] \in {"unused", "requested"}, NEW n \in Node, Issue(n, c)
    PROVE  HandleInv'
  <1>1. /\ current_cookie' = NextCookie(current_cookie)
        /\ cookie' = [cookie EXCEPT ![n] = current_cookie']
        /\ callback' = [callback EXCEPT ![n] = c]
        /\ status' = [status EXCEPT ![c] = "pending"]
        /\ handles' = handles \cup {[node |-> n, cookie |-> current_cookie', call |-> c]}
    BY DEF Issue
  <1>2. /\ \A m \in Node : cookie'[m] = IF m = n THEN current_cookie' ELSE cookie[m]
        /\ \A m \in Node : callback'[m] = IF m = n THEN c ELSE callback[m]
        /\ \A d \in Call : status'[d] = IF d = c THEN "pending" ELSE status[d]
    BY <1>1 DEF NodeInv, DataType
  <1>3. \A h \in handles : /\ h.node \in Node /\ h.call \in Call /\ h.call # c
                           /\ h.cookie # 0
    BY DEF NodeInv, DataType, HandlesWereLive, HandleInv, Owned, Issued
  <1>4. Issued' = Issued \cup {c} /\ c \notin Issued
    BY <1>2 DEF Issued
  <1>5. n \notin LiveNodes
    BY IssuedNodeIsNew
  <1>6. Owned'
    <2>1. ASSUME NEW h \in handles
          PROVE  /\ h.call \in Issued'
                 /\ status'[h.call] = "pending" =>
                      callback'[h.node] = h.call /\ cookie'[h.node] = h.cookie
      <3>1. status'[h.call] = "pending" => h.node # n
        BY <1>2, <1>3, <1>5 DEF HandleInv, Owned, IsValid, LiveNodes
      <3> QED
        BY <1>2, <1>3, <1>4, <3>1 DEF HandleInv, Owned, IsValid
    <2> QED
      BY <1>1, <1>2, <1>4, <2>1 DEF Owned, IsValid
  <1>7. NoWrap => Exact' /\ Counted'
    <2> SUFFICES ASSUME NoWrap PROVE Exact' /\ Counted'
      OBVIOUS
    <2> DEFINE N == Cardinality(Issued)
    <2>1. N \in Nat /\ Cardinality(Issued') = N + 1
      BY <1>4, IssuedAreCounted, FS_AddElement
    <2>2. N + 1 <= Cardinality(Call) /\ Cardinality(Call) \in Nat
          /\ Cardinality(Call) < CookieMod /\ CookieMod \in Nat
      <3>1. Issued' \subseteq Call /\ IsFiniteSet(Call)
        BY EnoughNodes DEF Issued
      <3> QED
        BY <2>1, <3>1, FS_Subset, FS_CardinalityType, ToolAssumption DEF NoWrap
    <2>3. current_cookie = N + 1 /\ \A h \in handles : h.cookie \in 2 .. N + 1
      BY <2>1, <2>2 DEF HandleInv, Counted
    <2>4. /\ N + 2 < CookieMod => current_cookie' = N + 2
          /\ N + 2 = CookieMod => current_cookie' = 1
      <3>1. CASE N + 2 < CookieMod
        <4>1. current_cookie \in 1 .. CookieMod - 1 /\ current_cookie + 1 < CookieMod
          BY <2>1, <2>3, <3>1 DEF NodeInv, DataType
        <4> QED
          BY <1>1, <2>1, <2>3, <3>1, <4>1, CookiesAreNotZero
      <3>2. CASE N + 2 = CookieMod
        <4>1. current_cookie + 1 = CookieMod
          BY <2>1, <2>3, <3>2
        <4>2. (current_cookie + 1) % CookieMod = 0
          BY <4>1, ToolAssumption
        <4> QED
          BY <1>1, <3>2, <4>2, ToolAssumption DEF NextCookie
      <3> QED
        BY <3>1, <3>2, <2>1, <2>2
    <2>5. \A h \in handles : h.cookie # current_cookie'
      BY <2>1, <2>2, <2>3, <2>4
    <2>6. Exact'
      <3>1. ASSUME NEW h \in handles, cookie'[h.node] = h.cookie
            PROVE  callback'[h.node] = h.call
        BY <1>2, <1>3, <2>5, <3>1 DEF HandleInv, Exact, IsValid
      <3> QED
        BY <1>1, <1>2, <3>1 DEF Exact, IsValid
    <2>7. Counted'
      <3>1. SUFFICES ASSUME N + 1 <= CookieMod - 2
                     PROVE  /\ current_cookie' = N + 2
                            /\ \A h \in handles' : h.cookie \in 2 .. current_cookie'
        BY <2>1 DEF Counted
      <3>2. current_cookie' = N + 2
        BY <2>1, <2>2, <2>4, <3>1
      <3> QED
        BY <1>1, <2>1, <2>3, <3>2
    <2> QED
      BY <2>6, <2>7
  <1> QED
    BY <1>6, <1>7 DEF HandleInv, NoWrap

\* cancel() and the start of a callback clear the cookie of the call's node.
LEMMA ClearKeepsHandles ==
    ASSUME NodeInv, HandleInv, NEW n \in LiveNodes, NEW s \in {"running", "canceled"},
           cookie' = [cookie EXCEPT ![n] = 0],
           status' = [status EXCEPT ![callback[n]] = s],
           UNCHANGED <<callback, current_cookie>>, handles' \subseteq handles
    PROVE  HandleInv'
  <1>1. callback[n] \in Call /\ n \in Node /\ status[callback[n]] = "pending"
    BY DEF NodeInv, LiveHoldCalls, LiveNodes
  <1>2. /\ \A m \in Node : cookie'[m] = IF m = n THEN 0 ELSE cookie[m]
        /\ \A d \in Call : status'[d] = IF d = callback[n] THEN s ELSE status[d]
    BY DEF NodeInv, DataType
  <1>3. Issued' = Issued
    BY <1>1, <1>2 DEF Issued
  <1>4. \A h \in handles : h.node \in Node /\ h.call \in Call
    BY DEF NodeInv, DataType
  <1>5. \A h \in handles' : status'[h.call] = "pending" =>
               status[h.call] = "pending" /\ cookie'[h.node] = cookie[h.node]
    BY <1>1, <1>2, <1>4 DEF HandleInv, Owned
  <1> QED
    BY <1>2, <1>3, <1>5, HandlesStay DEF HandleInv, Owned

\* A task or a client cancels through a handle, which was live once.
LEMMA CancelKeepsHandles ==
    ASSUME NodeInv, HandleInv, NEW n \in Node, NEW k, k # 0, Cancel(n, k),
           handles' \subseteq handles
    PROVE  HandleInv'
  <1>1. UNCHANGED <<callback, current_cookie>>
    BY DEF Cancel
  <1>2. CASE cookie[n] = k
    BY <1>1, <1>2, ClearKeepsHandles DEF Cancel, LiveNodes
  <1>3. CASE cookie[n] # k
    <2>1. cookie' = cookie /\ status' = status
      BY <1>3 DEF Cancel
    <2> QED
      BY <1>1, <2>1, HandlesStay DEF HandleInv, Owned, Issued
  <1> QED
    BY <1>2, <1>3

LEMMA RunTaskKeepsHandles ==
    ASSUME ReactorInv, HandleInv, pc # "aborted", left > 0,
           pc = "tasks" \/ dtor = "draining", RunTask
    PROVE  HandleInv'
  <1> DEFINE t == Head(handle_tasks)
             r == request[t]
  <1>1. NodeInv /\ TaskInv
    BY DEF ReactorInv
  <1>2. t \in Thread
    <2>1. handle_tasks \in Seq(Thread) /\ Len(handle_tasks) > 0
      BY <1>1 DEF TaskInv, TaskType, LeftToDo
    <2> QED
      BY <2>1
  <1>3. /\ Asks(t) => r.call \in Call /\ status[r.call] = "requested"
        /\ r.op = "cancel" => r.node \in Node /\ r.cookie # 0
    BY <1>1, <1>2 DEF TaskInv, Asked
  <1>4. \/ r.op = "immediate" /\ Immediate(r.call)
        \/ r.op = "deferred" /\ Deferred(r.call, r.delay)
        \/ r.op = "cancel" /\ Cancel(r.node, r.cookie) /\ UNCHANGED handles
        \/ r.op = "release" /\ Release
    BY DEF RunTask
  <1> HIDE DEF t
  <1>5. CASE Asks(t)
    <2>1. \E n \in Node : Issue(n, r.call)
      BY <1>4, <1>5 DEF Asks, Immediate, Deferred
    <2> QED
      BY <1>1, <1>3, <1>5, <2>1, IssueKeepsHandles
  <1>6. CASE r.op = "cancel"
    BY <1>1, <1>3, <1>4, <1>6, CancelKeepsHandles
  <1>7. CASE r.op = "release"
    <2>1. UNCHANGED <<callback, cookie, current_cookie, handles, status>>
      BY <1>4, <1>7 DEF Release, nodes
    <2> QED
      BY <1>1, <2>1, HandlesStay DEF HandleInv, Owned, Issued
  <1> QED
    BY <1>4, <1>5, <1>6, <1>7 DEF Asks

LEMMA UserKeepsHandles ==
    ASSUME ReactorInv, HandleInv, pc # "aborted", UserStep PROVE HandleInv'
  <1>1. NodeInv
    BY DEF ReactorInv
  <1>2. CASE \E c \in Call : /\ status[c] = "unused"
                             /\ Immediate(c) \/ \E d \in Delay : Deferred(c, d)
    <2>1. \E c \in Call, n \in Node : status[c] = "unused" /\ Issue(n, c)
      BY <1>2 DEF Immediate, Deferred
    <2> QED
      BY <1>1, <2>1, IssueKeepsHandles
  <1>3. CASE \E h \in handles : Cancel(h.node, h.cookie) /\ handles' = handles \ {h}
    <2>1. \A h \in handles : h.node \in Node /\ h.cookie # 0
      BY <1>1 DEF NodeInv, DataType, HandlesWereLive
    <2> QED
      BY <1>1, <1>3, <2>1, CancelKeepsHandles
  <1>4. CASE Release
    <2>1. UNCHANGED <<callback, cookie, current_cookie, handles, status>>
      BY <1>4 DEF Release, nodes
    <2> QED
      BY <1>1, <2>1, HandlesStay DEF HandleInv, Owned, Issued
  <1> QED
    BY <1>2, <1>3, <1>4 DEF UserStep

\* From its start to its end a callback's handle is invalid.
LEMMA CallbacksKeepHandles ==
    ASSUME NodeInv, HandleInv,
           RunImmediate \/ RunDeferred \/ ReturnImmediate \/ ReturnDeferred
    PROVE  HandleInv'
  <1>1. CASE RunImmediate \/ RunDeferred
    <2>1. PICK n \in Node : Start(n)
      <3>1. CASE RunImmediate
        <4>1. immed[pos + 1] \in Node
          BY <3>1 DEF RunImmediate, ImmediateNext, NodeInv, DataType
        <4> QED
          BY <3>1, <4>1 DEF RunImmediate
      <3>2. CASE RunDeferred
        BY <3>2 DEF RunDeferred, Tops, NodeInv, DataType
      <3> QED
        BY <1>1, <3>1, <3>2
    <2>2. n \in LiveNodes
      BY <2>1 DEF Start, LiveNodes
    <2> QED
      BY <2>1, <2>2, ClearKeepsHandles DEF Start
  <1>2. CASE ReturnImmediate \/ ReturnDeferred
    <2>1. /\ status' = [status EXCEPT ![callback[running]] = "done"]
          /\ UNCHANGED <<callback, cookie, current_cookie, handles>>
          /\ pc \in Callbacks
      BY <1>2 DEF ReturnImmediate, ReturnDeferred, Finish, nodes, Callbacks
    <2>2. callback[running] \in Call /\ status[callback[running]] = "running"
      BY <2>1 DEF NodeInv, LiveHoldCalls
    <2>3. \A c \in Call : status'[c] = IF c = callback[running] THEN "done" ELSE status[c]
      BY <2>1, <2>2 DEF NodeInv, DataType
    <2>4. Issued' = Issued
      BY <2>2, <2>3 DEF Issued
    <2>5. \A h \in handles : h.call \in Call
      BY DEF NodeInv, DataType
    <2>6. \A h \in handles' : status'[h.call] = "pending" =>
               status[h.call] = "pending" /\ cookie'[h.node] = cookie[h.node]
      BY <2>1, <2>3, <2>5
    <2> QED
      BY <2>1, <2>4, <2>6, HandlesStay DEF HandleInv, Owned
  <1> QED
    BY <1>1, <1>2

\* A request for a new call issues nothing yet; a handle is dropped before its
\* call is issued again.
LEMMA RequestsKeepHandles ==
    ASSUME NodeInv, HandleInv, Forget \/ \E t \in Thread : ForeignCall(t)
    PROVE  HandleInv'
  <1>1. UNCHANGED <<callback, cookie, current_cookie>>
    BY DEF Forget, ForeignCall, data, nodes
  <1>2. \A h \in handles : h.call \in Call /\ h.call \in Issued
    BY DEF NodeInv, DataType, HandleInv, Owned
  <1>3. CASE Forget
    <2>1. PICK c \in Call : /\ Recycle /\ status[c] \in {"done", "canceled"}
                            /\ status' = [status EXCEPT ![c] = "unused"]
                            /\ handles' = {h \in handles : h.call # c}
      BY <1>3 DEF Forget
    <2>2. \A d \in Call : status'[d] = IF d = c THEN "unused" ELSE status[d]
      BY <2>1 DEF NodeInv, DataType
    <2>3. \A h \in handles' : h.call \in Issued' /\ status'[h.call] = status[h.call]
      BY <1>2, <2>1, <2>2 DEF Issued
    <2> QED
      BY <1>1, <2>1, <2>3, HandlesStay
  <1>4. CASE \E t \in Thread : ForeignCall(t)
    <2>1. /\ handles' \subseteq handles
          /\ \/ status' = status
             \/ \E c \in Call : /\ status[c] = "unused"
                                /\ status' = [status EXCEPT ![c] = "requested"]
      BY <1>4 DEF ForeignCall
    <2>2. /\ Issued' = Issued
          /\ \A c \in Issued : status'[c] = status[c]
      BY <2>1 DEF Issued, NodeInv, DataType
    <2> QED
      BY <1>1, <1>2, <2>1, <2>2, HandlesStay
  <1> QED
    BY <1>3, <1>4

LEMMA StepKeepsHandles == ReactorInv /\ HandleInv /\ [Next]_vars => HandleInv'
  <1> SUFFICES ASSUME ReactorInv, HandleInv, [Next]_vars PROVE HandleInv'
    OBVIOUS
  <1>1. NodeInv
    BY DEF ReactorInv
  <1>2. CASE UNCHANGED <<callback, cookie, current_cookie, handles, status>>
    BY <1>1, <1>2, HandlesStay DEF HandleInv, Owned, Issued
  <1>3. CASE Next
    <2>1. pc # "aborted"
      BY <1>3 DEF Next
    <2>2. CASE UserStep
      BY <2>1, <2>2, UserKeepsHandles
    <2>3. CASE ReactorTask \/ DrainTask
      BY <2>1, <2>3, RunTaskKeepsHandles DEF ReactorTask, DrainTask
    <2>4. CASE RunImmediate \/ RunDeferred \/ ReturnImmediate \/ ReturnDeferred
      BY <1>1, <2>4, CallbacksKeepHandles
    <2>5. CASE Forget \/ \E t \in Thread : ForeignCall(t)
      BY <1>1, <2>5, RequestsKeepHandles
    <2>6. CASE \/ Fatal \/ SkipImmediate \/ EndImmediates \/ SkipDeferred
               \/ EndDeferred \/ EndPass \/ EndIterate \/ BeginPass \/ Sleep \/ Exit
               \/ Wake \/ SpuriousWake \/ (\E t \in Thread : AddHandleTask(t))
               \/ DestroyFlag \/ DestroyPoke \/ DestroyJoin \/ DrainStuck
               \/ DestroyDone \/ Tick
      <3>1. UNCHANGED <<callback, cookie, current_cookie, handles, status>>
        BY <2>6 DEF Fatal, SkipImmediate, EndImmediates, SkipDeferred, EndDeferred,
           Skip, EndPass, EndIterate, BeginPass, Sleep, Exit, Wake, SpuriousWake,
           WakeIf, AddHandleTask, DestroyFlag, DestroyPoke, DestroyJoin, DrainStuck,
           DestroyDone, Tick, data, nodes, history
      <3> QED
        BY <1>2, <3>1
    <2> QED
      BY <1>3, <2>2, <2>3, <2>4, <2>5, <2>6 DEF Next, PassStep, DestroyStep
  <1>4. CASE UNCHANGED vars
    BY <1>2, <1>4 DEF vars, data, nodes, history
  <1> QED
    BY <1>3, <1>4

LEMMA HandlesAreOwned == Spec => [](ReactorInv /\ HandleInv)
  <1>1. Init => HandleInv
    <2> SUFFICES ASSUME Init PROVE HandleInv
      OBVIOUS
    <2>1. Issued = {} /\ handles = {} /\ current_cookie = 1
      BY DEF Init, Issued
    <2> QED
      BY <2>1, FS_EmptySet DEF HandleInv, Owned, Exact, Counted
  <1> QED
    BY <1>1, InitReactor, StepKeepsReactor, StepKeepsHandles, PTL DEF Spec

PendingIsCancelable ==
    \A h \in handles : status[h.call] = "pending" => IsValid(h)

(* A client that still holds the Handle of a pending call can cancel it, by *)
(* cancel() or on another thread, however often its node was used before.   *)
THEOREM PendingMayBeCanceled == Spec => []PendingIsCancelable
  <1>1. HandleInv => PendingIsCancelable
    BY DEF HandleInv, Owned, PendingIsCancelable
  <1> QED
    BY <1>1, HandlesAreOwned, PTL

(* A Handle is exact: is_valid() holds precisely while the handle's own     *)
(* call is pending, as long as fewer calls are made than there are cookies. *)
THEOREM HandlesAreExact == ASSUME NoWrap PROVE Spec => []HandleIdentity
  <1>1. ASSUME ReactorInv, HandleInv, NEW h \in handles
        PROVE  IsValid(h) <=> (status[h.call] = "pending" /\ callback[h.node] = h.call)
    <2>1. NodeInv /\ Owned /\ Exact
      BY <1>1, NoWrap DEF HandleInv, ReactorInv
    <2>2. h.node \in Node /\ h.cookie # 0
      BY <2>1 DEF NodeInv, DataType, HandlesWereLive
    <2>3. IsValid(h) => h.node \in LiveNodes
      BY <2>2 DEF IsValid, LiveNodes
    <2> QED
      BY <2>1, <2>3 DEF Owned, Exact, NodeInv, LiveHoldCalls
  <1>2. ReactorInv /\ HandleInv => HandleIdentity
    BY <1>1 DEF HandleIdentity
  <1> QED
    BY <1>2, HandlesAreOwned, PTL

=============================================================================
