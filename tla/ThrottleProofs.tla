--------------------------- MODULE ThrottleProofs ---------------------------
(* Proofs about the throttle, for every limit, period and lateness.        *)
EXTENDS Throttle, TLAPS, FiniteSetTheorems

\* The lists of flows.
INSTANCE ListProofs WITH Node <- Flow, None <- Off

(* The invariant has three parts that most steps leave apart: the clocks,   *)
(* the lists of flows, and PeriodWillEnd, which relates them.  Why the rate *)
(* is kept is in Schedule: the delay that reset_callback() computes makes   *)
(* up for the length of the period that it ends.                            *)

ClocksType ==
    /\ age \in 0 .. 2 * Period /\ before \in 0 .. 2 * Period
    /\ handle \in Timer
    /\ left \in [Timer -> (-(MaxLate + MaxLag) .. 2 * Period) \cup {Off}]
    /\ state \in {"alive", "fatal", "destroyed"}

ListsType ==
    /\ count \in Nat
    /\ queue \in Seq(Flow) /\ Len(queue) <= QueueMax
    /\ free \in Nat
    /\ iter \in [Flow -> BOOLEAN]
    /\ depth \in [Flow -> 0 .. MaxDepth]
    /\ phase \in [Flow -> {"run", "entering", "waiting"}]
    /\ entries \in Nat

\* A timer that runs ends the period no sooner than two periods, less the
\* errors of one delay, after the period before it began.
DueAfter(t) ==
    age = 2 * Period \/ before + age + left[t] >= 2 * Period - Res - MaxLag

Schedule == \A t \in Timer : left[t] # Off => DueAfter(t)

Counted == entries = count /\ count <= Max

ClocksInv == ClocksType /\ OneTimer /\ Schedule
ListsInv == ListsType /\ QueueIsWaiters /\ Counted
ThrottleInv == ClocksInv /\ ListsInv /\ PeriodWillEnd

----------------------------------------------------------------------------
(* The timer *)

LEMMA TimerExists == \E t \in Timer : TRUE
  <1>1. ASSUME Timer = {} PROVE FALSE
    BY <1>1, FS_EmptySet, ThrottleAssumption
  <1> QED
    BY <1>1

\* Rounding a delay to milliseconds loses less than one of them.
LEMMA Rounding ==
    ASSUME NEW d \in Nat
    PROVE  /\ Millis(d) \in Nat
           /\ Millis(d) * Res \in Nat
           /\ Millis(d) * Res <= d /\ Millis(d) * Res > d - Res
  <1> DEFINE m == d \div Res
  <1>1. m \in Int /\ m >= 0 /\ m * Res <= d /\ m * Res > d - Res
    BY ThrottleAssumption
  <1>2. m * Res \in Int /\ m * Res >= 0
    <2> HIDE DEF m
    <2> QED
      BY <1>1, ThrottleAssumption
  <1> QED
    BY <1>1, <1>2 DEF Millis

\* What Arm() does when no other timer runs.
LEMMA Armed ==
    ASSUME NEW live, NEW d \in 0 .. 2 * Period,
           live \in [Timer -> (-(MaxLate + MaxLag) .. 2 * Period) \cup {Off}],
           \A t \in Timer : live[t] = Off,
           Arm(d, live)
    PROVE  /\ handle' \in Timer
           /\ left' \in [Timer -> (-(MaxLate + MaxLag) .. 2 * Period) \cup {Off}]
           /\ TimerIsOn'
           /\ \A t \in Timer : left'[t] # Off =>
                 t = handle' /\ left'[t] \in Int /\ left'[t] >= d - MaxLag
  <1> DEFINE t0 == CHOOSE t \in Timer : live[t] = Off
  <1>1. t0 \in Timer /\ live[t0] = Off
    BY TimerExists
  <1>2. handle' = t0 /\ \E lag \in 0 .. MaxLag : left' = [live EXCEPT ![t0] = d - lag]
    BY DEF Arm
  <1> HIDE DEF t0
  <1>3. PICK lag \in 0 .. MaxLag : left' = [live EXCEPT ![t0] = d - lag]
    BY <1>2
  <1>4. d - lag \in -(MaxLate + MaxLag) .. 2 * Period /\ d - lag >= d - MaxLag
    BY ThrottleAssumption
  <1>5. left'[t0] = d - lag /\ \A t \in Timer \ {t0} : left'[t] = Off
    BY <1>1, <1>3
  <1>6. d - lag # Off /\ d - lag \in Int
    BY <1>4, ThrottleAssumption
  <1>7. left' \in [Timer -> (-(MaxLate + MaxLag) .. 2 * Period) \cup {Off}]
    BY <1>1, <1>3, <1>4
  <1> QED
    BY <1>1, <1>2, <1>4, <1>5, <1>6, <1>7 DEF TimerIsOn

LEMMA StartPeriodClocks ==
    ASSUME ClocksInv, state = "alive", state' = state, StartPeriod
    PROVE  ClocksInv' /\ TimerIsOn'
  <1>1. CASE TimerIsOn
    <2>1. UNCHANGED <<clocks, state>>
      BY <1>1 DEF StartPeriod
    <2> QED
      BY <1>1, <2>1 DEF clocks, ClocksInv, ClocksType, OneTimer, Schedule,
                        DueAfter, TimerIsOn
  <1>2. CASE ~TimerIsOn
    <2>1. Arm(Period, left) /\ age' = 0 /\ before' = Period
      BY <1>2 DEF StartPeriod
    <2>2. /\ left \in [Timer -> (-(MaxLate + MaxLag) .. 2 * Period) \cup {Off}]
          /\ \A t \in Timer : left[t] = Off
          /\ Period \in 0 .. 2 * Period
      BY <1>2, ThrottleAssumption DEF ClocksInv, ClocksType, OneTimer, TimerIsOn
    <2>3. /\ handle' \in Timer
          /\ left' \in [Timer -> (-(MaxLate + MaxLag) .. 2 * Period) \cup {Off}]
          /\ TimerIsOn'
          /\ \A t \in Timer : left'[t] # Off =>
                t = handle' /\ left'[t] \in Int /\ left'[t] >= Period - MaxLag
      BY <2>1, <2>2, Armed
    <2>4. ClocksType' /\ OneTimer'
      BY <2>1, <2>3, ThrottleAssumption DEF ClocksType, OneTimer
    <2>5. Schedule'
      BY <2>1, <2>3, ThrottleAssumption DEF Schedule, DueAfter
    <2> QED
      BY <2>3, <2>4, <2>5 DEF ClocksInv
  <1> QED
    BY <1>1, <1>2

\* reset_callback() for the timers that are left, of which none runs.
LEMMA ResetClocks ==
    ASSUME ClocksInv, state' = state, state = "alive",
           NEW live, NEW n,
           live \in [Timer -> (-(MaxLate + MaxLag) .. 2 * Period) \cup {Off}],
           \A t \in Timer : live[t] = Off,
           age' = 0 /\ before' = age,
           IF KeepTimer(n) THEN Arm(NextDelay * Res, live)
                           ELSE left' = live /\ UNCHANGED handle
    PROVE  ClocksInv' /\ (KeepTimer(n) => TimerIsOn')
  <1> DEFINE d == NextDelay * Res
  <1>1. age \in 0 .. 2 * Period /\ handle \in Timer
    BY DEF ClocksInv, ClocksType
  <1>2. d \in Nat /\ d <= 2 * Period - age /\ d > 2 * Period - age - Res
    <2>1. 2 * Period - age \in Nat
      BY <1>1, ThrottleAssumption
    <2> QED
      BY <2>1, Rounding DEF NextDelay
  <1>3. CASE KeepTimer(n)
    <2>1. d \in 0 .. 2 * Period /\ Arm(d, live)
      BY <1>1, <1>2, <1>3, ThrottleAssumption
    <2> HIDE DEF d
    <2>2. /\ handle' \in Timer
          /\ left' \in [Timer -> (-(MaxLate + MaxLag) .. 2 * Period) \cup {Off}]
          /\ TimerIsOn'
          /\ \A t \in Timer : left'[t] # Off =>
                t = handle' /\ left'[t] \in Int /\ left'[t] >= d - MaxLag
      BY <2>1, Armed
    <2>3. ClocksType' /\ OneTimer'
      BY <1>1, <2>2, ThrottleAssumption DEF ClocksType, OneTimer
    <2>4. Schedule'
      BY <1>1, <1>2, <2>2, ThrottleAssumption DEF Schedule, DueAfter
    <2> QED
      BY <2>2, <2>3, <2>4 DEF ClocksInv
  <1>4. CASE ~KeepTimer(n)
    <2>1. left' = live /\ handle' = handle
      BY <1>4
    <2> QED
      BY <1>1, <1>4, <2>1, ThrottleAssumption
         DEF ClocksInv, ClocksType, OneTimer, Schedule
  <1> QED
    BY <1>3, <1>4

LEMMA TickClocks ==
    ASSUME ClocksInv, state = "alive", Tick
    PROVE  ClocksInv' /\ (TimerIsOn => TimerIsOn')
  <1>1. /\ left \in [Timer -> (-(MaxLate + MaxLag) .. 2 * Period) \cup {Off}]
        /\ age \in 0 .. 2 * Period /\ before \in 0 .. 2 * Period
        /\ handle \in Timer /\ OneTimer /\ Schedule
    BY DEF ClocksInv, ClocksType
  <1>2. /\ \A t \in Timer : left[t] # Off => left[t] > -MaxLate
        /\ left' = [t \in Timer |-> IF left[t] = Off THEN Off ELSE left[t] - 1]
        /\ age' = Least(age + 1, 2 * Period)
        /\ before' = before /\ handle' = handle /\ state' = state
    BY DEF Tick
  <1>3. age' \in 0 .. 2 * Period /\ (age' = age + 1 \/ age' = 2 * Period)
    BY <1>1, <1>2, ThrottleAssumption DEF Least
  <1>4. ASSUME NEW t \in Timer, left[t] # Off
        PROVE  /\ left'[t] = left[t] - 1 /\ left[t] \in Int
               /\ left'[t] \in -(MaxLate + MaxLag) .. 2 * Period
               /\ left'[t] # Off
    BY <1>1, <1>2, <1>4, ThrottleAssumption
  <1>5. \A t \in Timer : left[t] = Off => left'[t] = Off
    BY <1>2
  <1>6. left' \in [Timer -> (-(MaxLate + MaxLag) .. 2 * Period) \cup {Off}]
    BY <1>2, <1>4, <1>5
  <1>7. ClocksType' /\ OneTimer'
    BY <1>1, <1>2, <1>3, <1>5, <1>6 DEF ClocksType, OneTimer
  <1>8. ASSUME NEW t \in Timer, left'[t] # Off PROVE DueAfter(t)'
    <2>1. left[t] # Off
      BY <1>5, <1>8
    <2> QED
      BY <1>1, <1>2, <1>3, <1>4, <2>1, ThrottleAssumption DEF Schedule, DueAfter
  <1> QED
    BY <1>1, <1>2, <1>4, <1>7, <1>8 DEF ClocksInv, Schedule, TimerIsOn

----------------------------------------------------------------------------
(* The lists *)

\* unlock() takes the node of f, if it has one, out of queue_.
LEMMA UnlockLists ==
    ASSUME ListsInv, NEW f \in Flow, Unlock(f)
    PROVE  /\ queue' \in Seq(Flow) /\ Len(queue') <= Len(queue)
           /\ Elements(queue') = Elements(queue) \ {f} /\ Distinct(queue')
           /\ free' \in Nat /\ iter' = [iter EXCEPT ![f] = FALSE]
           /\ queue' # <<>> => queue # <<>>
  <1>1. /\ queue \in Seq(Flow) /\ free \in Nat /\ iter \in [Flow -> BOOLEAN]
        /\ Distinct(queue) /\ (iter[f] <=> f \in Elements(queue))
    BY DEF ListsInv, ListsType, QueueIsWaiters
  <1>2. CASE iter[f]
    <2>1. /\ queue' = Without(queue, f) /\ free' = free + 1
          /\ iter' = [iter EXCEPT ![f] = FALSE]
      BY <1>2 DEF Unlock
    <2>2. f \in Elements(queue)
      BY <1>1, <1>2
    <2>3. /\ queue' \in Seq(Flow) /\ Len(queue') = Len(queue) - 1
          /\ Elements(queue') = Elements(queue) \ {f} /\ Distinct(queue')
      BY <1>1, <2>1, <2>2, WithoutElements
    <2>4. queue # <<>>
      BY <2>2 DEF Elements
    <2> QED
      BY <1>1, <2>1, <2>3, <2>4
  <1>3. CASE ~iter[f]
    <2>1. queue' = queue /\ free' = free /\ iter' = iter
      BY <1>3 DEF Unlock, lists
    <2> QED
      BY <1>1, <1>3, <2>1
  <1> QED
    BY <1>2, <1>3

\* The flow leaves sync steps and does not wait afterwards.
LEMMA UnlockStep ==
    ASSUME ThrottleInv, NEW f \in Flow, Unlock(f), NEW d \in 0 .. MaxDepth,
           depth' = [depth EXCEPT ![f] = d],
           phase' = [phase EXCEPT ![f] = "run"],
           UNCHANGED <<count, entries, clocks, state>>
    PROVE  ThrottleInv'
  <1>1. ListsInv /\ ClocksInv /\ PeriodWillEnd
    BY DEF ThrottleInv
  <1>2. /\ queue' \in Seq(Flow) /\ Len(queue') <= Len(queue)
        /\ Elements(queue') = Elements(queue) \ {f} /\ Distinct(queue')
        /\ free' \in Nat /\ iter' = [iter EXCEPT ![f] = FALSE]
        /\ queue' # <<>> => queue # <<>>
    BY <1>1, UnlockLists
  <1>3. ListsType /\ QueueIsWaiters /\ Counted
    BY <1>1 DEF ListsInv
  <1>4. ListsType'
    <2>1. /\ Len(queue) \in Nat /\ Len(queue') \in Nat /\ Len(queue) <= QueueMax
          /\ iter \in [Flow -> BOOLEAN] /\ depth \in [Flow -> 0 .. MaxDepth]
          /\ phase \in [Flow -> {"run", "entering", "waiting"}]
          /\ count \in Nat /\ entries \in Nat
      BY <1>2, <1>3 DEF ListsType
    <2>2. Len(queue') <= QueueMax
      BY <1>2, <2>1, ThrottleAssumption
    <2>3. /\ iter' \in [Flow -> BOOLEAN] /\ depth' \in [Flow -> 0 .. MaxDepth]
          /\ phase' \in [Flow -> {"run", "entering", "waiting"}]
      BY <1>2, <2>1
    <2> QED
      BY <1>2, <2>1, <2>2, <2>3 DEF ListsType
  <1>5. QueueIsWaiters'
    BY <1>2, <1>3 DEF ListsType, QueueIsWaiters
  <1>6. Counted'
    BY <1>3 DEF Counted
  <1>7. ClocksInv' /\ PeriodWillEnd'
    BY <1>1, <1>2
       DEF clocks, ClocksInv, ClocksType, OneTimer, Schedule, DueAfter,
           PeriodWillEnd, TimerIsOn
  <1> QED
    BY <1>4, <1>5, <1>6, <1>7 DEF ThrottleInv, ListsInv

LEMMA EnterStep ==
    ASSUME ThrottleInv, NEW f \in Flow, Enter(f)
    PROVE  ThrottleInv'
  <1>1. ListsType /\ QueueIsWaiters /\ Counted /\ ClocksInv /\ PeriodWillEnd
    BY DEF ThrottleInv, ListsInv
  <1>2. ListsType'
    BY <1>1, ThrottleAssumption DEF Enter, lists, ListsType
  <1>3. QueueIsWaiters' /\ Counted'
    BY <1>1 DEF Enter, lists, ListsType, QueueIsWaiters, Counted
  <1>4. ClocksInv' /\ PeriodWillEnd'
    BY <1>1 DEF Enter, lists, clocks, ClocksInv, ClocksType, OneTimer, Schedule,
                DueAfter, PeriodWillEnd, TimerIsOn
  <1> QED
    BY <1>2, <1>3, <1>4 DEF ThrottleInv, ListsInv

LEMMA PassedStep ==
    ASSUME ThrottleInv, state = "alive", state' = state,
           NEW f \in Flow, phase[f] = "entering", Passed(f)
    PROVE  ThrottleInv'
  <1>1. ListsType /\ QueueIsWaiters /\ Counted /\ ClocksInv
    BY DEF ThrottleInv, ListsInv
  <1>2. /\ queue = <<>> /\ count < Max
        /\ count' = count + 1 /\ entries' = entries + 1
        /\ phase' = [phase EXCEPT ![f] = "run"]
        /\ UNCHANGED <<queue, free, iter, depth>>
    BY DEF Passed, MayPass, lists
  <1>3. ClocksInv' /\ TimerIsOn'
    BY <1>1, StartPeriodClocks DEF Passed
  <1>4. ListsType'
    BY <1>1, <1>2 DEF ListsType
  <1>5. QueueIsWaiters'
    BY <1>1, <1>2 DEF ListsType, QueueIsWaiters
  <1>6. Counted'
    BY <1>1, <1>2, ThrottleAssumption DEF ListsType, Counted
  <1>7. PeriodWillEnd'
    BY <1>2, <1>3 DEF PeriodWillEnd
  <1> QED
    BY <1>3, <1>4, <1>5, <1>6, <1>7 DEF ThrottleInv, ListsInv

LEMMA QueuedStep ==
    ASSUME ThrottleInv, state = "alive", state' = state,
           NEW f \in Flow, phase[f] = "entering", Queued(f)
    PROVE  ThrottleInv'
  <1>1. ListsType /\ QueueIsWaiters /\ Counted /\ ClocksInv /\ PeriodWillEnd
    BY DEF ThrottleInv, ListsInv
  <1>2. /\ ~MayPass /\ Len(queue) < QueueMax
        /\ queue' = Append(queue, f) /\ free' = TakeNode
        /\ iter' = [iter EXCEPT ![f] = TRUE]
        /\ phase' = [phase EXCEPT ![f] = "waiting"]
        /\ UNCHANGED <<count, entries, clocks, depth>>
    BY DEF Queued
  <1>3. queue \in Seq(Flow) /\ Distinct(queue) /\ f \notin Elements(queue)
    BY <1>1 DEF ListsType, QueueIsWaiters
  <1>4. /\ queue' \in Seq(Flow) /\ Elements(queue') = Elements(queue) \cup {f}
        /\ Distinct(queue') /\ Len(queue') = Len(queue) + 1
    BY <1>2, <1>3, AppendElements, AppendDistinct
  <1>5. ListsType'
    BY <1>1, <1>2, <1>4, ThrottleAssumption DEF ListsType, TakeNode
  <1>6. QueueIsWaiters' /\ Counted'
    BY <1>1, <1>2, <1>4 DEF ListsType, QueueIsWaiters, Counted
  <1>7. count = Max
    BY <1>1, <1>2, ThrottleAssumption
       DEF MayPass, ListsType, Counted, PeriodWillEnd
  <1>8. ClocksInv' /\ PeriodWillEnd'
    BY <1>1, <1>2, <1>7
       DEF clocks, ClocksInv, ClocksType, OneTimer, Schedule, DueAfter,
           PeriodWillEnd, TimerIsOn
  <1> QED
    BY <1>5, <1>6, <1>8 DEF ThrottleInv, ListsInv

LEMMA RefusedStep ==
    ASSUME ThrottleInv, state' = state,
           NEW f \in Flow, phase[f] = "entering", Refused(f)
    PROVE  ThrottleInv'
  <1>1. ListsType /\ QueueIsWaiters /\ Counted /\ ClocksInv /\ PeriodWillEnd
    BY DEF ThrottleInv, ListsInv
  <1>2. PICK d \in 0 .. depth[f] - 1 : depth' = [depth EXCEPT ![f] = d]
    BY DEF Refused
  <1>3. /\ iter' = [iter EXCEPT ![f] = FALSE]
        /\ phase' = [phase EXCEPT ![f] = "run"]
        /\ UNCHANGED <<count, entries, clocks, queue, free>>
    BY DEF Refused
  <1>4. d \in 0 .. MaxDepth
    BY <1>1, <1>2, ThrottleAssumption DEF ListsType
  <1>5. ListsType'
    BY <1>1, <1>2, <1>3, <1>4 DEF ListsType
  <1>6. QueueIsWaiters' /\ Counted'
    BY <1>1, <1>3 DEF ListsType, QueueIsWaiters, Counted
  <1>7. ClocksInv' /\ PeriodWillEnd'
    BY <1>1, <1>3
       DEF clocks, ClocksInv, ClocksType, OneTimer, Schedule, DueAfter,
           PeriodWillEnd, TimerIsOn
  <1> QED
    BY <1>5, <1>6, <1>7 DEF ThrottleInv, ListsInv

LEMMA LeaveStep ==
    ASSUME ThrottleInv, NEW f \in Flow, Leave(f)
    PROVE  ThrottleInv'
  <1>1. PICK d \in 0 .. depth[f] - 1 : depth' = [depth EXCEPT ![f] = d]
    BY DEF Leave
  <1>2. depth[f] \in 0 .. MaxDepth /\ phase \in [Flow -> {"run", "entering", "waiting"}]
    BY DEF ThrottleInv, ListsInv, ListsType
  <1>3. d \in 0 .. MaxDepth /\ phase' = [phase EXCEPT ![f] = "run"]
    BY <1>1, <1>2, ThrottleAssumption DEF Leave
  <1> QED
    BY <1>1, <1>3, UnlockStep DEF Leave

LEMMA CancelStep ==
    ASSUME ThrottleInv, NEW f \in Flow, Cancel(f)
    PROVE  ThrottleInv'
  <1>1. 0 \in 0 .. MaxDepth
    BY ThrottleAssumption
  <1> QED
    BY <1>1, UnlockStep DEF Cancel

----------------------------------------------------------------------------
(* The end of a period *)

LEMMA AdmitLists ==
    ASSUME ListsInv, Admit(Admitted)
    PROVE  /\ ListsInv'
           /\ count' > 0 => KeepTimer(Admitted)
           /\ queue' # <<>> => count' = Max
  <1> DEFINE n == Admitted
             first == {queue[i] : i \in 1 .. n}
  <1>1. ListsType /\ QueueIsWaiters /\ Counted
    BY DEF ListsInv
  <1>2. /\ n \in 0 .. Len(queue) /\ n <= Max /\ Len(queue) \in Nat
        /\ n = Max \/ n = Len(queue)
    BY <1>1, ThrottleAssumption DEF ListsType, Admitted, Least
  <1>3. /\ count' = n /\ entries' = n /\ free' = free + n
        /\ queue' = SubSeq(queue, n + 1, Len(queue))
        /\ iter' = [f \in Flow |-> iter[f] /\ f \notin first]
        /\ phase' = [f \in Flow |-> IF f \in first THEN "run" ELSE phase[f]]
        /\ depth' = depth
    BY DEF Admit
  <1> HIDE DEF n, first
  <1>4. /\ queue' \in Seq(Flow) /\ Len(queue') = Len(queue) - n
        /\ Elements(queue') = Elements(queue) \ first /\ Distinct(queue')
    <2>1. queue \in Seq(Flow) /\ Distinct(queue)
      BY <1>1 DEF ListsType, QueueIsWaiters
    <2>2. LET rest == SubSeq(queue, n + 1, Len(queue))
          IN  /\ rest \in Seq(Flow) /\ Len(rest) = Len(queue) - n
              /\ Elements(rest) = Elements(queue) \ {queue[i] : i \in 1 .. n}
              /\ Distinct(rest)
      BY <1>2, <2>1, FrontTaken, Zenon
    <2> QED
      BY <1>3, <2>2 DEF first
  <1>5. ListsType'
    BY <1>1, <1>2, <1>3, <1>4, ThrottleAssumption DEF ListsType
  <1>6. QueueIsWaiters'
    BY <1>1, <1>3, <1>4 DEF ListsType, QueueIsWaiters
  <1>7. Counted'
    BY <1>2, <1>3 DEF Counted
  <1>8. queue' # <<>> => n = Max
    <2>1. queue' # <<>> => Len(queue') # 0
      BY <1>4
    <2> QED
      BY <1>2, <1>4, <2>1
  <1> QED
    BY <1>2, <1>3, <1>5, <1>6, <1>7, <1>8 DEF ListsInv, KeepTimer, n

LEMMA ResetStep ==
    ASSUME ThrottleInv, state = "alive", NEW live, ResetCallback(live),
           live \in [Timer -> (-(MaxLate + MaxLag) .. 2 * Period) \cup {Off}],
           \A t \in Timer : live[t] = Off
    PROVE  ThrottleInv'
  <1>1. CASE /\ state' = "fatal"
             /\ UNCHANGED <<count, lists, clocks, flows, entries>>
    BY <1>1
       DEF lists, clocks, flows, ThrottleInv, ClocksInv, ClocksType, OneTimer,
           Schedule, DueAfter, PeriodWillEnd, ListsInv, ListsType, QueueIsWaiters,
           Counted
  <1>2. CASE /\ age' = 0 /\ before' = age
             /\ IF KeepTimer(Admitted)
                THEN Arm(NextDelay * Res, live)
                ELSE left' = live /\ UNCHANGED handle
             /\ Admit(Admitted)
    <2>1. state' = state
      BY <1>2 DEF Admit
    <2>2. ClocksInv' /\ (KeepTimer(Admitted) => TimerIsOn')
      BY <1>2, <2>1, ResetClocks DEF ThrottleInv
    <2>3. /\ ListsInv' /\ (count' > 0 => KeepTimer(Admitted))
          /\ queue' # <<>> => count' = Max
      BY <1>2, AdmitLists DEF ThrottleInv
    <2> QED
      BY <2>2, <2>3 DEF ThrottleInv, PeriodWillEnd
  <1> QED
    BY <1>1, <1>2 DEF ResetCallback

LEMMA FireStep ==
    ASSUME ThrottleInv, state = "alive", NEW t \in Timer, Fire(t)
    PROVE  ThrottleInv'
  <1> DEFINE live == [left EXCEPT ![t] = Off]
  <1>1. /\ left \in [Timer -> (-(MaxLate + MaxLag) .. 2 * Period) \cup {Off}]
        /\ \A u \in Timer : left[u] # Off => u = handle
    BY DEF ThrottleInv, ClocksInv, ClocksType, OneTimer
  <1>2. /\ live \in [Timer -> (-(MaxLate + MaxLag) .. 2 * Period) \cup {Off}]
        /\ \A u \in Timer : live[u] = Off
    BY <1>1 DEF Fire
  <1> QED
    BY <1>2, ResetStep DEF Fire

LEMMA DisarmedIsOff ==
    ASSUME ClocksInv
    PROVE  /\ Disarmed \in
                 [Timer -> (-(MaxLate + MaxLag) .. 2 * Period) \cup {Off}]
           /\ \A t \in Timer : Disarmed[t] = Off
  BY DEF ClocksInv, ClocksType, OneTimer, Disarmed

LEMMA DestroyStep ==
    ASSUME ThrottleInv, Destroy
    PROVE  ThrottleInv'
  <1>1. ClocksInv /\ ListsInv
    BY DEF ThrottleInv
  <1>2. /\ left' \in [Timer -> (-(MaxLate + MaxLag) .. 2 * Period) \cup {Off}]
        /\ \A t \in Timer : left'[t] = Off
    BY <1>1, DisarmedIsOff DEF Destroy
  <1>3. ClocksInv' /\ PeriodWillEnd'
    BY <1>1, <1>2
       DEF Destroy, ClocksInv, ClocksType, OneTimer, Schedule, PeriodWillEnd
  <1>4. ListsInv'
    BY <1>1 DEF Destroy, lists, flows, ListsInv, ListsType, QueueIsWaiters, Counted
  <1> QED
    BY <1>3, <1>4 DEF ThrottleInv

----------------------------------------------------------------------------
(* The theorems *)

LEMMA InitInv == Init => ThrottleInv
  <1> SUFFICES ASSUME Init PROVE ThrottleInv
    OBVIOUS
  <1>1. handle \in Timer
    BY TimerExists DEF Init
  <1>2. PICK lag \in 0 .. MaxLag :
           left = [t \in Timer |-> IF t = handle THEN Period - lag ELSE Off]
    BY DEF Init
  <1>3. /\ Period - lag \in -(MaxLate + MaxLag) .. 2 * Period
        /\ Period - lag >= Period - MaxLag
    BY ThrottleAssumption
  <1>4. ClocksType
    BY <1>1, <1>2, <1>3, ThrottleAssumption DEF Init, ClocksType
  <1>5. OneTimer /\ Schedule
    BY <1>2, <1>3, ThrottleAssumption DEF Init, OneTimer, Schedule, DueAfter
  <1>6. ListsType /\ QueueIsWaiters /\ Counted
    BY ThrottleAssumption
       DEF Init, ListsType, QueueIsWaiters, Elements, Distinct, Counted
  <1>7. PeriodWillEnd
    BY DEF Init, PeriodWillEnd
  <1> QED
    BY <1>4, <1>5, <1>6, <1>7 DEF ThrottleInv, ClocksInv, ListsInv

LEMMA StepInv == ThrottleInv /\ [Next]_vars => ThrottleInv'
  <1> SUFFICES ASSUME ThrottleInv, [Next]_vars PROVE ThrottleInv'
    OBVIOUS
  <1>1. CASE UNCHANGED vars
    BY <1>1
       DEF vars, lists, clocks, flows, ThrottleInv, ClocksInv, ClocksType,
           OneTimer, Schedule, DueAfter, PeriodWillEnd, TimerIsOn, ListsInv,
           ListsType, QueueIsWaiters, Counted
  <1>2. CASE Next
    <2>1. state = "alive"
      BY <1>2 DEF Next
    <2>2. CASE Tick
      <3>1. ClocksInv' /\ (TimerIsOn => TimerIsOn')
        BY <2>1, <2>2, TickClocks DEF ThrottleInv
      <3>2. ListsInv' /\ PeriodWillEnd'
        BY <2>1, <2>2, <3>1
           DEF Tick, lists, flows, ThrottleInv, PeriodWillEnd, ListsInv, ListsType,
               QueueIsWaiters, Counted
      <3> QED
        BY <3>1, <3>2 DEF ThrottleInv
    <2>3. CASE Reset
      BY <2>1, <2>3, DisarmedIsOff, ResetStep DEF Reset, ThrottleInv
    <2>4. CASE ShrinkToFit
      BY <2>4
         DEF ShrinkToFit, clocks, flows, ThrottleInv, ClocksInv, ClocksType,
             OneTimer, Schedule, DueAfter, PeriodWillEnd, TimerIsOn, ListsInv,
             ListsType, QueueIsWaiters, Counted
    <2>5. CASE Destroy
      BY <2>5, DestroyStep
    <2>6. ASSUME NEW t \in Timer, Fire(t) PROVE ThrottleInv'
      BY <2>1, <2>6, FireStep
    <2>7. ASSUME NEW f \in Flow, FlowStep(f) PROVE ThrottleInv'
      <3>1. CASE Lock(f)
        BY <2>1, <3>1, PassedStep, QueuedStep, RefusedStep DEF Lock
      <3> QED
        BY <2>7, <3>1, EnterStep, LeaveStep, CancelStep DEF FlowStep
    <2> QED
      BY <1>2, <2>2, <2>3, <2>4, <2>5, <2>6, <2>7 DEF Next
  <1> QED
    BY <1>1, <1>2

\* The lists, the timer and the schedule of the throttle, in every reachable state.
THEOREM ThrottleInvariant == Spec => []ThrottleInv
  BY InitInv, StepInv, PTL DEF Spec

\* Every variable keeps its type, the queue its limit, and no timer is ever
\* later than the reactor and its cached time are.
THEOREM TypeCorrect == Spec => []TypeOK
  <1>1. ThrottleInv => TypeOK
    BY DEF ThrottleInv, ClocksInv, ClocksType, ListsInv, ListsType, TypeOK
  <1> QED
    BY <1>1, ThrottleInvariant, PTL

\* No timer runs that timer_ does not name: lock() arms one only when none runs, and
\* reset_callback() only when its own has fired or was canceled.
THEOREM NeverTwoTimers == Spec => []OneTimer
  <1>1. ThrottleInv => OneTimer
    BY DEF ThrottleInv, ClocksInv
  <1> QED
    BY <1>1, ThrottleInvariant, PTL

\* Whoever passed has started the timer that ends the period, and flows are
\* pending only when max_ have passed, for every limit.
THEOREM PeriodsEnd == Spec => []PeriodWillEnd
  <1>1. ThrottleInv => PeriodWillEnd
    BY DEF ThrottleInv
  <1> QED
    BY <1>1, ThrottleInvariant, PTL

\* queue_ lists the flows that wait, once each, however flows are admitted,
\* refused and canceled: success() is called on live steps only.
THEOREM QueueListsWaiters == Spec => []QueueIsWaiters
  <1>1. ThrottleInv => QueueIsWaiters
    BY DEF ThrottleInv, ListsInv
  <1> QED
    BY <1>1, ThrottleInvariant, PTL

\* The rate is kept for every limit, period and lateness of the reactor: the
\* correction by the last period leaves less than a millisecond and the error
\* of one cached time, which do not add up over the periods.
THEOREM RateIsKept == Spec => RateKept
  <1>1. ThrottleInv /\ ThrottleInv' /\ [Next]_vars =>
           [/\ entries' <= Max
            /\ \A t \in Timer :
                  Fire(t) => before + age >= 2 * Period - Res - MaxLag]_vars
    <2> SUFFICES ASSUME ThrottleInv, ThrottleInv'
                 PROVE  /\ entries' <= Max
                        /\ \A t \in Timer :
                              Fire(t) => before + age >= 2 * Period - Res - MaxLag
      OBVIOUS
    <2>1. entries' <= Max
      BY DEF ThrottleInv, ListsInv, Counted
    <2>2. ASSUME NEW t \in Timer, Fire(t)
          PROVE  before + age >= 2 * Period - Res - MaxLag
      <3>1. left[t] # Off /\ left[t] <= 0
        BY <2>2 DEF Fire
      <3>2. /\ age \in Int /\ before \in Int /\ before >= 0
            /\ left[t] \in Int /\ DueAfter(t)
        BY <3>1, ThrottleAssumption
           DEF ThrottleInv, ClocksInv, ClocksType, Schedule
      <3> QED
        BY <3>1, <3>2, ThrottleAssumption DEF DueAfter
    <2> QED
      BY <2>1, <2>2
  <1> QED
    BY <1>1, ThrottleInvariant, PTL DEF Spec, RateKept

----------------------------------------------------------------------------
(* The order of the flows *)

LEMMA AheadPrecede == \A f, g : g \in Ahead(f) <=> Precedes(queue, g, f)
  BY DEF Ahead, Precedes

\* What NoOvertaking says of one flow and one step.
Fair(f) ==
    /\ phase[f] = "waiting" /\ phase'[f] = "waiting" =>
          \A g : Precedes(queue', g, f) => Precedes(queue, g, f)
    /\ phase[f] = "waiting" /\ phase'[f] = "run" /\ depth'[f] > 0 =>
          \A g : Precedes(queue, g, f) => phase'[g] # "waiting"
    /\ phase[f] = "entering" /\ entries' > entries => queue = <<>>

\* Those that a reset lets pass are the first of the queue.
LEMMA AdmitIsFair ==
    ASSUME ThrottleInv, state = "alive", Admit(Admitted), NEW f \in Flow
    PROVE  Fair(f)
  <1> DEFINE n == Admitted
             first == {queue[i] : i \in 1 .. n}
  <1>1. ListsType /\ QueueIsWaiters /\ Counted /\ PeriodWillEnd
    BY DEF ThrottleInv, ListsInv
  <1>2. /\ n \in 0 .. Len(queue) /\ n <= Max /\ Len(queue) \in Nat
        /\ queue \in Seq(Flow) /\ DOMAIN queue = 1 .. Len(queue)
    BY <1>1, ThrottleAssumption DEF ListsType, Admitted, Least
  <1>3. /\ entries' = n
        /\ queue' = SubSeq(queue, n + 1, Len(queue))
        /\ phase' = [g \in Flow |-> IF g \in first THEN "run" ELSE phase[g]]
    BY DEF Admit
  <1> HIDE DEF n, first
  <1>4. \A g : Precedes(queue', g, f) => Precedes(queue, g, f)
    BY <1>2, <1>3, FrontTakenOrder
  <1>5. ASSUME phase[f] = "waiting", phase'[f] = "run", NEW g, Precedes(queue, g, f)
        PROVE  phase'[g] # "waiting"
    <2>1. f \in first
      BY <1>3, <1>5
    <2>2. PICK b \in 1 .. n : f = queue[b]
      BY <2>1 DEF first
    <2>3. PICK i, j \in DOMAIN queue : i < j /\ queue[i] = g /\ queue[j] = f
      BY <1>5 DEF Precedes
    <2>4. b \in DOMAIN queue
      BY <1>2
    <2>5. j = b
      BY <1>1, <2>2, <2>3, <2>4 DEF QueueIsWaiters, Distinct
    <2>6. i \in 1 .. n /\ g \in Flow
      BY <1>2, <2>3, <2>5
    <2>7. g \in first
      BY <2>3, <2>6 DEF first
    <2> QED
      BY <1>3, <2>6, <2>7
  <1>6. entries' > entries => queue = <<>>
    <2>1. queue # <<>> => count = Max
      BY <1>1 DEF PeriodWillEnd
    <2> QED
      BY <1>1, <1>2, <1>3, <2>1, ThrottleAssumption DEF Counted, ListsType
  <1> QED
    BY <1>4, <1>5, <1>6 DEF Fair

LEMMA FlowStepIsFair ==
    ASSUME ThrottleInv, NEW g \in Flow, FlowStep(g), NEW f \in Flow
    PROVE  Fair(f)
  <1>1. ListsType /\ QueueIsWaiters /\ Counted
    BY DEF ThrottleInv, ListsInv
  <1>2. /\ queue \in Seq(Flow) /\ entries \in Nat
        /\ phase \in [Flow -> {"run", "entering", "waiting"}]
        /\ depth \in [Flow -> 0 .. MaxDepth]
        /\ iter[g] => g \in Elements(queue)
    BY <1>1 DEF ListsType, QueueIsWaiters
  <1>3. CASE Enter(g) \/ (phase[g] = "entering" /\ Refused(g))
    <2>1. UNCHANGED <<queue, entries>>
      BY <1>3 DEF Enter, Refused, lists
    <2>2. \A h \in Flow : phase[h] = "waiting" => phase'[h] = "waiting"
      BY <1>2, <1>3 DEF Enter, Refused
    <2> QED
      BY <1>2, <2>1, <2>2 DEF Fair
  <1>4. CASE phase[g] = "entering" /\ Passed(g)
    <2>1. queue = <<>> /\ queue' = queue
      BY <1>4 DEF Passed, MayPass, lists
    <2>2. \A h \in Flow : phase[h] = "waiting" => phase'[h] = "waiting"
      BY <1>2, <1>4 DEF Passed
    <2> QED
      BY <2>1, <2>2 DEF Fair
  <1>5. CASE phase[g] = "entering" /\ Queued(g)
    <2>1. queue' = Append(queue, g) /\ entries' = entries
      BY <1>5 DEF Queued
    <2>2. \A h \in Flow : phase[h] = "waiting" => phase'[h] = "waiting" /\ h # g
      BY <1>2, <1>5 DEF Queued
    <2>3. ASSUME phase[f] = "waiting", NEW h, Precedes(queue', h, f)
          PROVE  Precedes(queue, h, f)
      BY <1>2, <2>1, <2>2, <2>3, AppendOrder
    <2> QED
      BY <1>2, <2>1, <2>2, <2>3 DEF Fair
  <1>6. CASE Leave(g) \/ Cancel(g)
    <2>1. Unlock(g) /\ entries' = entries
      BY <1>6 DEF Leave, Cancel
    <2>2. \A h : Precedes(queue', h, f) => Precedes(queue, h, f)
      <3>1. CASE iter[g]
        BY <1>2, <2>1, <3>1, WithoutOrder DEF Unlock
      <3>2. CASE ~iter[g]
        BY <2>1, <3>2 DEF Unlock, lists
      <3> QED
        BY <3>1, <3>2
    <2>3. phase[f] = "waiting" /\ phase'[f] = "run" => depth'[f] = 0
      BY <1>2, <1>6 DEF Leave, Cancel
    <2> QED
      BY <1>2, <2>1, <2>2, <2>3 DEF Fair
  <1> QED
    BY <1>3, <1>4, <1>5, <1>6 DEF FlowStep, Lock

LEMMA StepIsFair ==
    ASSUME ThrottleInv, [Next]_vars, NEW f \in Flow PROVE Fair(f)
  <1>1. CASE UNCHANGED <<queue, phase, entries>>
    <2>1. entries \in Nat
      BY DEF ThrottleInv, ListsInv, ListsType
    <2> QED
      BY <1>1, <2>1 DEF Fair
  <1>2. CASE Next
    <2>1. CASE Tick \/ ShrinkToFit \/ Destroy
      BY <1>1, <2>1 DEF Tick, ShrinkToFit, Destroy, lists, flows
    <2>2. CASE Reset \/ \E t \in Timer : Fire(t)
      <3>1. Admit(Admitted) \/ UNCHANGED <<queue, phase, entries>>
        BY <2>2 DEF Reset, Fire, ResetCallback, lists, flows
      <3> QED
        BY <1>1, <1>2, <3>1, AdmitIsFair DEF Next
    <2>3. CASE \E g \in Flow : FlowStep(g)
      BY <2>3, FlowStepIsFair
    <2> QED
      BY <1>2, <2>1, <2>2, <2>3 DEF Next
  <1>3. CASE UNCHANGED vars
    BY <1>1, <1>3 DEF vars, lists, flows
  <1> QED
    BY <1>2, <1>3

\* Flows pass in the order in which they became pending, whatever is
\* canceled, refused or reset meanwhile: nobody gets ahead of one that waits.
THEOREM NobodyOvertakes == Spec => NoOvertaking
  <1>1. ASSUME ThrottleInv, [Next]_vars, NEW f \in Flow
        PROVE  /\ phase[f] = "waiting" /\ phase'[f] = "waiting" =>
                     Ahead(f)' \subseteq Ahead(f)
               /\ phase[f] = "waiting" /\ phase'[f] = "run" /\ depth'[f] > 0 =>
                     \A g \in Ahead(f) : phase'[g] # "waiting"
               /\ phase[f] = "entering" /\ entries' > entries => queue = <<>>
    <2>1. Fair(f)
      BY <1>1, StepIsFair
    <2>2. \A g : g \in Ahead(f)' <=> Precedes(queue', g, f)
      BY DEF Ahead, Precedes
    <2> QED
      BY <2>1, <2>2, AheadPrecede DEF Fair
  <1>2. ThrottleInv /\ [Next]_vars =>
          [\A f \in Flow :
             /\ phase[f] = "waiting" /\ phase'[f] = "waiting" =>
                   Ahead(f)' \subseteq Ahead(f)
             /\ phase[f] = "waiting" /\ phase'[f] = "run" /\ depth'[f] > 0 =>
                   \A g \in Ahead(f) : phase'[g] # "waiting"
             /\ phase[f] = "entering" /\ entries' > entries => queue = <<>>]_vars
    BY <1>1
  <1> QED
    BY <1>2, ThrottleInvariant, PTL DEF Spec, NoOvertaking

=============================================================================
