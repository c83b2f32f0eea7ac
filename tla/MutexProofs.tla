---------------------------- MODULE MutexProofs ----------------------------
(* Proofs about the mutex, for every number of flows, reactors and nested   *)
(* sync steps, and about the limiter, for every rate, burst and number of   *)
(* places and flows: each of its steps is a step of its mutex or leaves the *)
(* mutex alone, so what is shown of a mutex holds of the limiter's.         *)
EXTENDS Limiter, TLAPS, FiniteSetTheorems

\* The lists of flows.
INSTANCE ListProofs WITH Node <- Flow

(* Why no more than Max flows are inside.  The lists are bounded by the     *)
(* code's own comparison with max_ (Counted), so the question is whether    *)
(* every flow that runs protected code still has its node in locked_list_.  *)
(* An unlock() too many would take it away: hence for each flow what its    *)
(* phase and mode say about its node and its recursion count (Placed), and  *)
(* that nobody else touches the node meanwhile (Alone, Callee).             *)

MutexType ==
    /\ locked \subseteq Flow
    /\ queue \in Seq(Flow)
    /\ iter \in [Flow -> BOOLEAN] /\ count \in [Flow -> Nat]
    /\ os \in Reactor \cup {None}
    /\ depth \in [Flow -> Nat]
    /\ phase \in [Flow -> {"run", "entering", "waiting"} \cup InHandler]
    /\ mode \in [Flow -> {"ok", "fail", "cancel"}]

Counted == Cardinality(locked) <= Max /\ Len(queue) <= QueueMax

NoTwice == Distinct(queue)

\* The node of the flow is in locked_list_ (with n recursions), in queue_, or
\* there is none.
Holds(f, n) == /\ f \in locked /\ f \notin Elements(queue)
               /\ iter[f] /\ count[f] = n /\ n >= 1
Pends(f) == /\ f \notin locked /\ f \in Elements(queue)
            /\ iter[f] /\ count[f] = 0
Absent(f) == f \notin locked /\ f \notin Elements(queue) /\ ~iter[f]

OkPlaced(f) ==
    mode[f] = "ok" =>
      /\ phase[f] = "run" =>
           IF depth[f] = 0 THEN Absent(f) ELSE Holds(f, depth[f])
      /\ phase[f] = "entering" =>
           depth[f] >= 1 /\ IF depth[f] = 1 THEN Absent(f)
                                            ELSE Holds(f, depth[f] - 1)
      /\ phase[f] = "locking" => depth[f] = 1 /\ Absent(f)
      /\ phase[f] = "waiting" => depth[f] = 1 /\ (Pends(f) \/ Holds(f, 1))
      /\ phase[f] = "releasing" => depth[f] = 0 /\ Holds(f, 1)
      /\ phase[f] \in {"granting", "calling"} => depth[f] = 0 /\ Absent(f)

FailPlaced(f) ==
    mode[f] = "fail" =>
      /\ phase[f] = "run" =>
           IF depth[f] = 0 THEN Absent(f)
                           ELSE Holds(f, depth[f]) \/ Absent(f)
      /\ phase[f] = "releasing" => depth[f] = 0 /\ Holds(f, 1)
      /\ phase[f] \in {"granting", "calling"} => depth[f] = 0 /\ Absent(f)
      /\ phase[f] \notin {"entering", "locking", "waiting"}

CancelPlaced(f) ==
    mode[f] = "cancel" =>
      /\ phase[f] = "run" =>
           \/ Absent(f)
           \/ depth[f] >= 1 /\ Holds(f, depth[f])
           \/ depth[f] >= 2 /\ Holds(f, depth[f] - 1)
           \/ depth[f] = 1 /\ Pends(f)
      /\ phase[f] = "releasing" => Holds(f, 1) \/ Pends(f)
      /\ phase[f] \in {"granting", "calling"} => Absent(f)
      /\ phase[f] \notin {"entering", "locking", "waiting"}

PlacedAt(f) == OkPlaced(f) /\ FailPlaced(f) /\ CancelPlaced(f)
Placed == \A f \in Flow : PlacedAt(f)

\* One handler at a time on each reactor, one holder of mutex_ at a time.
IsBusy(f) == phase[f] \in InHandler \/ mode[f] # "ok"
HoldsOs(f) == phase[f] \in {"granting", "calling"}

Alone ==
    /\ \A f, g \in Flow :
          Home[f] = Home[g] /\ IsBusy(f) /\ IsBusy(g) => f = g
    /\ \A f \in Flow : HoldsOs(f) => os = Home[f]
    /\ \A f, g \in Flow : HoldsOs(f) /\ HoldsOs(g) => f = g

\* The flow whose success() is awaited has the lock and still waits for it, or
\* has been canceled and blocks in its own unlock().
Called(g) == /\ Holds(g, 1)
             /\ \/ mode[g] = "ok" /\ phase[g] = "waiting"
                \/ mode[g] = "cancel"

Callee ==
    \A f \in Flow : phase[f] = "calling" =>
        callee \in Flow \ {f} /\ \A g \in Flow : g = callee => Called(g)

MutexInv == /\ MutexType /\ Counted /\ NoTwice /\ NoIdleRoom
            /\ Placed /\ Alone /\ Callee

----------------------------------------------------------------------------
(* What the parts of the invariant say of the flows a step does not touch   *)

LEMMA FramePlaced ==
    ASSUME NEW g \in Flow, PlacedAt(g),
           mode'[g] = mode[g], phase'[g] = phase[g], depth'[g] = depth[g],
           iter'[g] = iter[g], count'[g] = count[g],
           g \in locked' <=> g \in locked,
           g \in Elements(queue') <=> g \in Elements(queue)
    PROVE  PlacedAt(g)'
  BY DEF PlacedAt, OkPlaced, FailPlaced, CancelPlaced, Holds, Pends, Absent

LEMMA IdleReactor ==
    ASSUME NEW f \in Flow, Idle(f)
    PROVE  \A g \in Flow : Home[g] = Home[f] => ~IsBusy(g)
  BY DEF Idle, Busy, IsBusy

LEMMA NobodyHoldsOs ==
    ASSUME Alone, OsFree
    PROVE  \A g \in Flow : ~HoldsOs(g)
  BY MutexAssumption DEF Alone, OsFree

LEMMA LockedFinite ==
    ASSUME MutexType
    PROVE  IsFiniteSet(locked) /\ Cardinality(locked) \in Nat
  BY MutexAssumption, FS_Subset, FS_CardinalityType DEF MutexType

\* A step of flow f that leaves both lists and the OS mutex alone.
LEMMA LocalStep ==
    ASSUME MutexInv, NEW f \in Flow, MutexType',
           UNCHANGED <<locked, queue, iter, os, callee>>,
           \A g \in Flow \ {f} :
              /\ mode'[g] = mode[g] /\ phase'[g] = phase[g]
              /\ depth'[g] = depth[g] /\ count'[g] = count[g],
           PlacedAt(f)',
           phase[f] \notin {"granting", "calling"},
           phase'[f] \notin {"granting", "calling"},
           IsBusy(f) \/ Idle(f),
           Called(f) => Called(f)'
    PROVE  MutexInv'
  <1>1. Counted' /\ NoTwice' /\ NoIdleRoom'
    BY DEF MutexInv, Counted, NoTwice, NoIdleRoom
  <1>2. ASSUME NEW g \in Flow PROVE PlacedAt(g)'
    <2>1. CASE g = f
      BY <2>1
    <2>2. CASE g # f
      BY <2>2, FramePlaced DEF MutexInv, Placed
    <2> QED
      BY <2>1, <2>2
  <1>3. \A g \in Flow : IsBusy(g)' /\ g # f => IsBusy(g)
    BY DEF IsBusy
  <1>4. \A g \in Flow : HoldsOs(g)' => HoldsOs(g) /\ g # f
    BY DEF HoldsOs
  <1>5. Alone'
    <2>1. ASSUME NEW g \in Flow, NEW h \in Flow, Home[g] = Home[h],
                 IsBusy(g)', IsBusy(h)'
          PROVE  g = h
      <3>1. CASE g # f /\ h # f
        BY <1>3, <2>1, <3>1 DEF MutexInv, Alone
      <3>2. CASE g = f /\ h # f
        BY <1>3, <2>1, <3>2, IdleReactor DEF MutexInv, Alone
      <3>3. CASE g # f /\ h = f
        BY <1>3, <2>1, <3>3, IdleReactor DEF MutexInv, Alone
      <3> QED
        BY <3>1, <3>2, <3>3
    <2>2. ASSUME NEW g \in Flow, HoldsOs(g)' PROVE os' = Home[g]
      BY <1>4, <2>2 DEF MutexInv, Alone
    <2>3. ASSUME NEW g \in Flow, NEW h \in Flow, HoldsOs(g)', HoldsOs(h)'
          PROVE  g = h
      BY <1>4, <2>3 DEF MutexInv, Alone
    <2> QED
      BY <2>1, <2>2, <2>3 DEF Alone
  <1>6. Callee'
    <2>1. ASSUME NEW c \in Flow, Called(c) PROVE Called(c)'
      <3>1. CASE c = f
        BY <2>1, <3>1
      <3>2. CASE c # f
        BY <2>1, <3>2 DEF Called, Holds
      <3> QED
        BY <3>1, <3>2
    <2>2. \A g \in Flow : phase'[g] = "calling" => phase[g] = "calling"
      OBVIOUS
    <2> QED
      BY <2>1, <2>2 DEF MutexInv, Callee
  <1> QED
    BY <1>1, <1>2, <1>5, <1>6 DEF MutexInv, Placed

----------------------------------------------------------------------------
(* The steps outside of the critical sections *)

LEMMA IdleFlow ==
    ASSUME NEW f \in Flow, Idle(f)
    PROVE  mode[f] = "ok" /\ phase[f] \notin InHandler
  BY DEF Idle, Busy

LEMMA UnlockStep ==
    ASSUME MutexInv, NEW f \in Flow, Unlock(f), UNCHANGED mode,
           phase[f] = "run", depth[f] > 0, IsBusy(f) \/ Idle(f)
    PROVE  MutexInv'
  <1>1. /\ count \in [Flow -> Nat] /\ depth \in [Flow -> Nat]
        /\ phase \in [Flow -> {"run", "entering", "waiting"} \cup InHandler]
    BY DEF MutexInv, MutexType
  <1>2. MutexType'
    <2>1. count' \in [Flow -> Nat]
      BY <1>1 DEF Unlock
    <2>2. depth' \in [Flow -> Nat]
      BY <1>1 DEF Unlock
    <2>3. phase' \in [Flow -> {"run", "entering", "waiting"} \cup InHandler]
      BY <1>1 DEF Unlock, InHandler
    <2> QED
      BY <2>1, <2>2, <2>3 DEF MutexInv, MutexType, Unlock
  <1>3. PlacedAt(f)
    BY DEF MutexInv, Placed
  <1>4. mode[f] \in {"ok", "fail", "cancel"}
    BY DEF MutexInv, MutexType
  <1>5. PlacedAt(f)'
    <2>1. locked' = locked /\ queue' = queue /\ iter' = iter /\ mode' = mode
      BY DEF Unlock
    <2>2. depth'[f] = depth[f] - 1 /\ depth[f] \in Nat /\ count[f] \in Nat
      BY <1>1 DEF Unlock
    <2>3. CASE iter[f] /\ count[f] > 1
      <3>1. count'[f] = count[f] - 1 /\ phase'[f] = "run"
        BY <1>1, <2>3 DEF Unlock
      <3> QED
        BY <1>3, <1>4, <2>1, <2>2, <2>3, <3>1
           DEF PlacedAt, OkPlaced, FailPlaced, CancelPlaced, Holds, Pends, Absent
    <2>4. CASE iter[f] /\ count[f] <= 1
      <3>1. count'[f] = count[f] /\ phase'[f] = "releasing"
        BY <1>1, <2>4 DEF Unlock
      <3> QED
        BY <1>3, <1>4, <2>1, <2>2, <2>4, <3>1
           DEF PlacedAt, OkPlaced, FailPlaced, CancelPlaced, Holds, Pends, Absent
    <2>5. CASE ~iter[f]
      <3>1. count'[f] = count[f] /\ phase'[f] = "run"
        BY <1>1, <2>5 DEF Unlock
      <3> QED
        BY <1>3, <1>4, <2>1, <2>2, <2>5, <3>1
           DEF PlacedAt, OkPlaced, FailPlaced, CancelPlaced, Holds, Pends, Absent
    <2> QED
      BY <2>2, <2>3, <2>4, <2>5
  <1>6. phase'[f] \in {"run", "releasing"}
    BY <1>1 DEF Unlock
  <1>7. Called(f) => Called(f)'
    BY <1>1 DEF Unlock, Called, Holds
  <1>8. \A g \in Flow \ {f} : /\ mode'[g] = mode[g] /\ phase'[g] = phase[g]
                              /\ depth'[g] = depth[g] /\ count'[g] = count[g]
    BY <1>1 DEF Unlock
  <1> QED
    BY <1>2, <1>5, <1>6, <1>7, <1>8, LocalStep DEF Unlock

LEMMA EnterStep ==
    ASSUME MutexInv, NEW f \in Flow, Enter(f)
    PROVE  MutexInv'
  <1>1. MutexType'
    BY DEF MutexInv, MutexType, Enter, InHandler, lists
  <1>2. PlacedAt(f)'
    BY IdleFlow DEF MutexInv, MutexType, Placed, Enter, lists,
           PlacedAt, OkPlaced, FailPlaced, CancelPlaced, Holds, Pends, Absent
  <1>3. IsBusy(f) \/ Idle(f)
    BY DEF Enter, lists, IsBusy
  <1>4. Called(f) => Called(f)'
    BY IdleFlow DEF MutexInv, MutexType, Placed, Enter, lists,
           PlacedAt, OkPlaced, CancelPlaced, Called, Holds, Absent
  <1>5. phase[f] \notin {"granting", "calling"}
        /\ phase'[f] \notin {"granting", "calling"}
    BY DEF MutexInv, MutexType, Enter, lists
  <1> QED
    BY <1>1, <1>2, <1>3, <1>4, <1>5, LocalStep
       DEF MutexInv, MutexType, Enter, lists

LEMMA LockStep ==
    ASSUME MutexInv, NEW f \in Flow, Lock(f)
    PROVE  MutexInv'
  <1>1. MutexType'
    <2>1. count' \in [Flow -> Nat]
      <3>1. count \in [Flow -> Nat]
        BY DEF MutexInv, MutexType
      <3>2. CASE iter[f]
        BY <3>1, <3>2 DEF Lock
      <3>3. CASE ~iter[f]
        BY <3>1, <3>3 DEF Lock
      <3> QED
        BY <3>2, <3>3
    <2>2. phase' \in [Flow -> {"run", "entering", "waiting"} \cup InHandler]
      BY DEF MutexInv, MutexType, Lock, InHandler
    <2> QED
      BY <2>1, <2>2 DEF MutexInv, MutexType, Lock
  <1>2. PlacedAt(f)'
    BY IdleFlow DEF MutexInv, MutexType, Placed, Lock, lists,
           PlacedAt, OkPlaced, FailPlaced, CancelPlaced, Holds, Pends, Absent
  <1>3. IsBusy(f) \/ Idle(f)
    BY DEF Lock, lists, IsBusy
  <1>4. Called(f) => Called(f)'
    BY IdleFlow DEF MutexInv, MutexType, Placed, Lock, lists,
           PlacedAt, OkPlaced, CancelPlaced, Called, Holds, Absent
  <1>5. phase[f] \notin {"granting", "calling"}
        /\ phase'[f] \notin {"granting", "calling"}
    BY DEF MutexInv, MutexType, Lock, lists
  <1> QED
    BY <1>1, <1>2, <1>3, <1>4, <1>5, LocalStep
       DEF MutexInv, MutexType, Lock, lists

LEMMA FailStep ==
    ASSUME MutexInv, NEW f \in Flow, Fail(f)
    PROVE  MutexInv'
  <1>1. MutexType'
    BY DEF MutexInv, MutexType, Fail, InHandler, lists
  <1>2. PlacedAt(f)'
    BY IdleFlow DEF MutexInv, MutexType, Placed, Fail, lists,
           PlacedAt, OkPlaced, FailPlaced, CancelPlaced, Holds, Pends, Absent
  <1>3. IsBusy(f) \/ Idle(f)
    BY DEF Fail, lists, IsBusy
  <1>4. Called(f) => Called(f)'
    BY IdleFlow DEF MutexInv, MutexType, Placed, Fail, lists,
           PlacedAt, OkPlaced, CancelPlaced, Called, Holds, Absent
  <1>5. phase[f] \notin {"granting", "calling"}
        /\ phase'[f] \notin {"granting", "calling"}
    BY DEF MutexInv, MutexType, Fail, lists
  <1> QED
    BY <1>1, <1>2, <1>3, <1>4, <1>5, LocalStep
       DEF MutexInv, MutexType, Fail, lists

LEMMA CancelStep ==
    ASSUME MutexInv, NEW f \in Flow, Cancel(f)
    PROVE  MutexInv'
  <1>1. MutexType'
    BY DEF MutexInv, MutexType, Cancel, InHandler, lists
  <1>2. PlacedAt(f)'
    BY IdleFlow DEF MutexInv, MutexType, Placed, Cancel, lists,
           PlacedAt, OkPlaced, FailPlaced, CancelPlaced, Holds, Pends, Absent
  <1>3. IsBusy(f) \/ Idle(f)
    BY DEF Cancel, lists, IsBusy
  <1>4. Called(f) => Called(f)'
    BY IdleFlow DEF MutexInv, MutexType, Placed, Cancel, lists,
           PlacedAt, OkPlaced, CancelPlaced, Called, Holds, Absent
  <1>5. phase[f] \notin {"granting", "calling"}
        /\ phase'[f] \notin {"granting", "calling"}
    BY DEF MutexInv, MutexType, Cancel, lists
  <1> QED
    BY <1>1, <1>2, <1>3, <1>4, <1>5, LocalStep
       DEF MutexInv, MutexType, Cancel, lists

LEMMA UnwindEndStep ==
    ASSUME MutexInv, NEW f \in Flow, UnwindEnd(f)
    PROVE  MutexInv'
  <1>1. MutexType'
    BY DEF MutexInv, MutexType, UnwindEnd, InHandler, lists
  <1>2. PlacedAt(f)'
    BY DEF MutexInv, MutexType, Placed, UnwindEnd, lists,
           PlacedAt, OkPlaced, FailPlaced, CancelPlaced, Holds, Pends, Absent
  <1>3. IsBusy(f) \/ Idle(f)
    BY DEF UnwindEnd, lists, IsBusy
  <1>4. Called(f) => Called(f)'
    <2>1. SUFFICES ASSUME Called(f) PROVE FALSE
      OBVIOUS
    <2>2. mode[f] = "cancel" /\ phase[f] = "run" /\ iter[f]
      BY <2>1 DEF UnwindEnd, Called, Holds
    <2>3. depth[f] = 0
      BY <2>2 DEF UnwindEnd
    <2>4. CancelPlaced(f)
      BY DEF MutexInv, Placed, PlacedAt
    <2>5. Absent(f)
      BY <2>2, <2>3, <2>4 DEF CancelPlaced
    <2> QED
      BY <2>2, <2>5 DEF Absent
  <1>5. phase[f] \notin {"granting", "calling"}
        /\ phase'[f] \notin {"granting", "calling"}
    BY DEF MutexInv, MutexType, UnwindEnd, lists
  <1> QED
    BY <1>1, <1>2, <1>3, <1>4, <1>5, LocalStep
       DEF MutexInv, MutexType, UnwindEnd, lists

LEMMA ExitStep ==
    ASSUME MutexInv, NEW f \in Flow, Exit(f)
    PROVE  MutexInv'
  BY UnlockStep DEF Exit

LEMMA UnwindLevelStep ==
    ASSUME MutexInv, NEW f \in Flow, UnwindLevel(f)
    PROVE  MutexInv'
  BY UnlockStep DEF UnwindLevel, IsBusy

LEMMA ShrinkStep ==
    ASSUME MutexInv, Shrink
    PROVE  MutexInv'
  BY DEF MutexInv, Shrink, MutexType, Counted, NoTwice, NoIdleRoom, Placed,
         PlacedAt, OkPlaced, FailPlaced, CancelPlaced, Holds, Pends, Absent,
         Alone, IsBusy, HoldsOs, Callee, Called

----------------------------------------------------------------------------
(* The steps that take mutex_ *)

\* The critical section of flow f, entered while nobody holds mutex_.
LEMMA SectionStep ==
    ASSUME MutexInv, NEW f \in Flow, OsFree, IsBusy(f),
           MutexType', Counted', NoTwice', NoIdleRoom',
           \A g \in Flow \ {f} :
              /\ mode'[g] = mode[g] /\ phase'[g] = phase[g]
              /\ depth'[g] = depth[g] /\ iter'[g] = iter[g]
              /\ count'[g] = count[g]
              /\ g \in locked' <=> g \in locked
              /\ g \in Elements(queue') <=> g \in Elements(queue),
           PlacedAt(f)',
           phase'[f] # "calling", HoldsOs(f)' => os' = Home[f]
    PROVE  MutexInv'
  <1>1. ASSUME NEW g \in Flow PROVE PlacedAt(g)'
    <2>1. CASE g = f
      BY <2>1
    <2>2. CASE g # f
      BY <2>2, FramePlaced DEF MutexInv, Placed
    <2> QED
      BY <2>1, <2>2
  <1>2. \A g \in Flow : ~HoldsOs(g)
    BY NobodyHoldsOs DEF MutexInv
  <1>3. \A g \in Flow \ {f} : ~HoldsOs(g)'
    BY <1>2 DEF HoldsOs
  <1>4. \A g \in Flow : IsBusy(g)' => IsBusy(g)
    BY DEF IsBusy
  <1>5. Alone'
    BY <1>3, <1>4 DEF MutexInv, Alone
  <1>6. Callee'
    <2>1. \A g \in Flow : phase'[g] # "calling"
      BY <1>3 DEF HoldsOs
    <2> QED
      BY <2>1 DEF Callee
  <1> QED
    BY <1>1, <1>5, <1>6 DEF MutexInv, Placed

LEMMA LockSectionStep ==
    ASSUME MutexInv, NEW f \in Flow, LockSection(f)
    PROVE  MutexInv'
  <1>1. /\ phase[f] = "locking" /\ OsFree /\ UNCHANGED <<os, callee, depth>>
        /\ IsBusy(f)
    BY DEF LockSection, IsBusy, InHandler
  <1>2. mode[f] = "ok" /\ depth[f] = 1 /\ Absent(f)
    BY <1>1 DEF MutexInv, MutexType, Placed, PlacedAt, OkPlaced, FailPlaced,
                CancelPlaced
  <1>3. MutexType /\ Counted /\ NoTwice /\ NoIdleRoom
    BY DEF MutexInv
  <1>4. IsFiniteSet(locked) /\ Cardinality(locked) \in Nat
    BY <1>3, LockedFinite
  <1>5. CASE queue = <<>> /\ HasRoom /\ Granted(f)
             /\ iter' = [iter EXCEPT ![f] = TRUE] /\ UNCHANGED mode
    <2>1. /\ locked' = locked \cup {f} /\ queue' = queue
          /\ count' = [count EXCEPT ![f] = 1]
          /\ phase' = [phase EXCEPT ![f] = "run"]
      BY <1>5 DEF Granted
    <2>2. MutexType'
      BY <1>1, <1>3, <1>5, <2>1 DEF MutexType
    <2>3. Cardinality(locked') = Cardinality(locked) + 1
      BY <1>2, <1>4, <2>1, FS_AddElement DEF Absent
    <2>4. Counted' /\ NoTwice' /\ NoIdleRoom'
      BY <1>3, <1>4, <1>5, <2>1, <2>3, MutexAssumption
         DEF Counted, NoTwice, NoIdleRoom, HasRoom
    <2>5. PlacedAt(f)'
      BY <1>1, <1>2, <1>3, <1>5, <2>1
         DEF MutexType, PlacedAt, OkPlaced, FailPlaced, CancelPlaced, Holds, Absent
    <2>6. phase'[f] = "run"
      BY <1>3, <2>1 DEF MutexType
    <2> QED
      BY <1>1, <1>3, <1>5, <2>1, <2>2, <2>4, <2>5, <2>6, SectionStep
         DEF MutexType, HoldsOs
  <1>6. CASE ~(queue = <<>> /\ HasRoom) /\ HasQueueRoom /\ Queued(f)
             /\ iter' = [iter EXCEPT ![f] = TRUE] /\ UNCHANGED mode
    <2>1. /\ locked' = locked /\ queue' = Append(queue, f)
          /\ count' = [count EXCEPT ![f] = 0]
          /\ phase' = [phase EXCEPT ![f] = "waiting"]
      BY <1>6 DEF Queued
    <2>2. queue' \in Seq(Flow) /\ Elements(queue') = Elements(queue) \cup {f}
      BY <1>3, <2>1, AppendElements DEF MutexType
    <2>3. MutexType'
      BY <1>1, <1>3, <1>6, <2>1, <2>2 DEF MutexType
    <2>4. NoTwice'
      <3>1. queue \in Seq(Flow) /\ f \notin Elements(queue)
            /\ Distinct(queue)
        BY <1>2, <1>3 DEF MutexType, NoTwice, Absent
      <3>2. Distinct(Append(queue, f))
        BY <3>1, AppendDistinct
      <3> QED
        BY <2>1, <3>2 DEF NoTwice
    <2>5. Len(queue') = Len(queue) + 1
      BY <1>3, <2>1 DEF MutexType
    <2>6. Counted'
      BY <1>3, <1>6, <2>1, <2>5, MutexAssumption
         DEF MutexType, Counted, HasQueueRoom
    <2>7. NoIdleRoom'
      BY <1>1, <1>3, <1>4, <1>6, <2>1, MutexAssumption
         DEF Counted, NoIdleRoom, HasRoom, OsFree
    <2>8. PlacedAt(f)'
      BY <1>1, <1>2, <1>3, <1>6, <2>1, <2>2
         DEF MutexType, PlacedAt, OkPlaced, FailPlaced, CancelPlaced, Pends, Absent
    <2>9. phase'[f] = "waiting"
      BY <1>3, <2>1 DEF MutexType
    <2> QED
      BY <1>1, <1>3, <1>6, <2>1, <2>2, <2>3, <2>4, <2>6, <2>7, <2>8, <2>9,
         SectionStep DEF MutexType, HoldsOs
  <1>7. CASE /\ phase' = [phase EXCEPT ![f] = "run"]
             /\ mode' = [mode EXCEPT ![f] = "fail"]
             /\ UNCHANGED <<locked, queue, iter, count>>
    <2>1. MutexType'
      BY <1>1, <1>3, <1>7 DEF MutexType
    <2>2. Counted' /\ NoTwice' /\ NoIdleRoom'
      BY <1>1, <1>3, <1>7 DEF Counted, NoTwice, NoIdleRoom
    <2>3. PlacedAt(f)'
      BY <1>1, <1>2, <1>3, <1>7
         DEF MutexType, PlacedAt, OkPlaced, FailPlaced, CancelPlaced, Absent
    <2>4. phase'[f] = "run"
      BY <1>3, <1>7 DEF MutexType
    <2> QED
      BY <1>1, <1>3, <1>7, <2>1, <2>2, <2>3, <2>4, SectionStep
         DEF MutexType, HoldsOs
  <1> QED
    BY <1>5, <1>6, <1>7 DEF LockSection

LEMMA ReleaseSectionStep ==
    ASSUME MutexInv, NEW f \in Flow, ReleaseSection(f)
    PROVE  MutexInv'
  <1>1. /\ phase[f] = "releasing" /\ OsFree /\ os' = Home[f]
        /\ iter' = [iter EXCEPT ![f] = FALSE]
        /\ phase' = [phase EXCEPT ![f] = "granting"]
        /\ UNCHANGED <<count, callee, depth, mode>>
        /\ IsBusy(f)
    BY DEF ReleaseSection, IsBusy, InHandler
  <1>2. MutexType /\ Counted /\ NoTwice /\ NoIdleRoom
    BY DEF MutexInv
  <1>3. mode[f] \in {"ok", "fail", "cancel"} /\ Home[f] \in Reactor
    BY <1>2, MutexAssumption DEF MutexType
  <1>4. PlacedAt(f) /\ (Holds(f, 1) \/ Pends(f))
    BY <1>1, <1>3
       DEF MutexInv, Placed, PlacedAt, OkPlaced, FailPlaced, CancelPlaced
  <1>5. IsFiniteSet(locked) /\ Cardinality(locked) \in Nat
    BY <1>2, LockedFinite
  <1>6. phase'[f] = "granting" /\ ~iter'[f]
    BY <1>1, <1>2 DEF MutexType
  <1>7. NoIdleRoom'
    BY <1>1, <1>3, MutexAssumption DEF NoIdleRoom
  <1>8. CASE count[f] = 0
    <2>1. queue' = Without(queue, f) /\ locked' = locked /\ Pends(f)
      BY <1>4, <1>8 DEF ReleaseSection, Holds
    <2>2. /\ queue' \in Seq(Flow) /\ Elements(queue') = Elements(queue) \ {f}
          /\ NoTwice'
      BY <1>2, <2>1, WithoutElements DEF MutexType, NoTwice, Pends
    <2>3. Len(queue') = Len(queue) - 1 /\ Len(queue) \in Nat
      <3>1. Len(queue) - 1 \in Nat
        BY <1>2, <2>1 DEF MutexType, Pends, Elements
      <3> QED
        BY <1>2, <2>1, <3>1 DEF MutexType, Without
    <2>4. MutexType'
      BY <1>1, <1>2, <1>3, <2>1, <2>2 DEF MutexType, InHandler
    <2>5. Counted'
      BY <1>2, <2>1, <2>3, MutexAssumption DEF Counted
    <2>6. PlacedAt(f)'
      BY <1>1, <1>3, <1>4, <1>6, <2>1, <2>2
         DEF PlacedAt, OkPlaced, FailPlaced, CancelPlaced, Holds, Pends, Absent
    <2> QED
      BY <1>1, <1>2, <1>6, <1>7, <2>1, <2>2, <2>4, <2>5, <2>6, SectionStep
         DEF MutexType
  <1>9. CASE count[f] # 0
    <2>1. locked' = locked \ {f} /\ queue' = queue /\ Holds(f, 1)
      BY <1>4, <1>9 DEF ReleaseSection, Pends
    <2>2. MutexType'
      BY <1>1, <1>2, <1>3, <2>1 DEF MutexType, InHandler
    <2>3. Cardinality(locked') <= Cardinality(locked)
          /\ Cardinality(locked') \in Nat
      BY <1>5, <2>1, FS_Subset, FS_CardinalityType
    <2>4. Counted' /\ NoTwice'
      BY <1>2, <1>5, <2>1, <2>3, MutexAssumption DEF Counted, NoTwice
    <2>5. PlacedAt(f)'
      BY <1>1, <1>3, <1>4, <1>6, <2>1
         DEF PlacedAt, OkPlaced, FailPlaced, CancelPlaced, Holds, Pends, Absent
    <2> QED
      BY <1>1, <1>2, <1>6, <1>7, <2>1, <2>2, <2>4, <2>5, SectionStep
         DEF MutexType
  <1> QED
    BY <1>8, <1>9

LEMMA GrantEndStep ==
    ASSUME MutexInv, NEW f \in Flow, GrantEnd(f)
    PROVE  MutexInv'
  <1>1. /\ phase[f] = "granting" /\ ~(HasRoom /\ queue # <<>>)
        /\ os' = None /\ phase' = [phase EXCEPT ![f] = "run"]
        /\ UNCHANGED <<locked, queue, iter, count, callee, depth, mode>>
    BY DEF GrantEnd, lists
  <1>2. MutexType /\ Counted /\ NoTwice /\ PlacedAt(f)
    BY DEF MutexInv, Placed
  <1>3. phase'[f] = "run" /\ \A g \in Flow \ {f} : phase'[g] = phase[g]
    BY <1>1, <1>2 DEF MutexType
  <1>4. MutexType' /\ Counted' /\ NoTwice'
    BY <1>1, <1>2 DEF MutexType, Counted, NoTwice
  <1>5. NoIdleRoom'
    <2>1. Cardinality(locked) \in Nat
      BY <1>2, LockedFinite
    <2> QED
      BY <1>1, <1>2, <2>1, MutexAssumption DEF NoIdleRoom, HasRoom, Counted
  <1>6. ASSUME NEW g \in Flow PROVE PlacedAt(g)'
    <2>1. CASE g = f
      BY <1>1, <1>2, <1>3, <2>1
         DEF PlacedAt, OkPlaced, FailPlaced, CancelPlaced, Holds, Pends, Absent
    <2>2. CASE g # f
      BY <1>1, <1>3, <2>2, FramePlaced DEF MutexInv, Placed
    <2> QED
      BY <2>1, <2>2
  <1>7. \A g \in Flow : ~HoldsOs(g)'
    <2>1. \A g \in Flow \ {f} : ~HoldsOs(g)
      BY <1>1 DEF MutexInv, Alone, HoldsOs
    <2> QED
      BY <1>3, <2>1 DEF HoldsOs
  <1>8. \A g \in Flow : IsBusy(g)' => IsBusy(g)
    BY <1>1, <1>3 DEF IsBusy, InHandler
  <1>9. Alone'
    BY <1>7, <1>8 DEF MutexInv, Alone
  <1>10. Callee'
    BY <1>7 DEF Callee, HoldsOs
  <1> QED
    BY <1>4, <1>5, <1>6, <1>9, <1>10 DEF MutexInv, Placed

\* The oldest pending flow is one that waits, or a canceled one that has not
\* yet released its node.
LEMMA OldestPends ==
    ASSUME MutexInv, queue # <<>>
    PROVE  /\ Head(queue) \in Flow /\ Pends(Head(queue))
           /\ \/ mode[Head(queue)] = "ok" /\ phase[Head(queue)] = "waiting"
                 /\ depth[Head(queue)] = 1
              \/ mode[Head(queue)] = "cancel"
  <1> DEFINE next == Head(queue)
  <1>1. MutexType /\ NoTwice
    BY DEF MutexInv
  <1>2. next \in Flow /\ next \in Elements(queue)
    BY <1>1, TailElements DEF MutexType, NoTwice
  <1> HIDE DEF next
  <1>3. /\ mode[next] \in {"ok", "fail", "cancel"}
        /\ phase[next] \in {"run", "entering", "waiting"} \cup InHandler
    BY <1>1, <1>2 DEF MutexType
  <1>4. PlacedAt(next)
    BY <1>2 DEF MutexInv, Placed
  <1>5. ~Absent(next) /\ \A n \in Nat : ~Holds(next, n)
    BY <1>2 DEF Absent, Holds
  <1>6. depth[next] \in Nat
    BY <1>1, <1>2 DEF MutexType
  <1>7. mode[next] # "fail"
    BY <1>2, <1>3, <1>4 DEF PlacedAt, FailPlaced, InHandler, Absent, Holds
  <1>8. mode[next] = "ok" =>
           phase[next] = "waiting" /\ depth[next] = 1 /\ Pends(next)
    BY <1>2, <1>3, <1>4 DEF PlacedAt, OkPlaced, InHandler, Absent, Holds
  <1>9. mode[next] = "cancel" => Pends(next)
    BY <1>2, <1>3, <1>4 DEF PlacedAt, CancelPlaced, InHandler, Absent, Holds
  <1> QED
    BY <1>2, <1>3, <1>7, <1>8, <1>9 DEF next

LEMMA GrantStep ==
    ASSUME MutexInv, NEW f \in Flow, Grant(f)
    PROVE  MutexInv'
  <1> DEFINE next == Head(queue)
  <1>1. /\ phase[f] = "granting" /\ HasRoom /\ queue # <<>>
        /\ locked' = locked \cup {next} /\ queue' = Tail(queue)
        /\ count' = [count EXCEPT ![next] = 1]
        /\ UNCHANGED <<iter, os, depth, mode>>
        /\ IF Home[next] = Home[f]
           THEN phase' = [phase EXCEPT ![next] = "run"] /\ callee' = callee
           ELSE phase' = [phase EXCEPT ![f] = "calling"] /\ callee' = next
    BY DEF Grant
  <1>2. MutexType /\ Counted /\ NoTwice /\ PlacedAt(f)
    BY DEF MutexInv, Placed
  <1>3. /\ next \in Flow /\ Pends(next)
        /\ \/ mode[next] = "ok" /\ phase[next] = "waiting" /\ depth[next] = 1
           \/ mode[next] = "cancel"
    BY <1>1, OldestPends
  <1>4. /\ queue' \in Seq(Flow) /\ Elements(queue') = Elements(queue) \ {next}
        /\ NoTwice' /\ Len(queue') = Len(queue) - 1 /\ Len(queue) \in Nat
    <2>1. queue \in Seq(Flow) /\ Distinct(queue)
      BY <1>2 DEF MutexType, NoTwice
    <2>2. /\ Tail(queue) \in Seq(Flow)
          /\ Elements(Tail(queue)) = Elements(queue) \ {Head(queue)}
          /\ Distinct(Tail(queue))
      BY <1>1, <2>1, TailElements
    <2>3. Len(Tail(queue)) = Len(queue) - 1 /\ Len(queue) \in Nat
      BY <1>1, <2>1
    <2> QED
      BY <1>1, <2>2, <2>3 DEF NoTwice
  <1> HIDE DEF next
  <1>5. Absent(f) /\ f # next
    <2>1. Absent(f)
      BY <1>1, <1>2 DEF MutexType, PlacedAt, OkPlaced, FailPlaced, CancelPlaced
    <2> QED
      BY <1>3, <2>1 DEF Absent, Pends
  <1>6. IsFiniteSet(locked) /\ Cardinality(locked) \in Nat
    BY <1>2, LockedFinite
  <1>7. Counted'
    <2>1. Cardinality(locked') = Cardinality(locked) + 1
      BY <1>1, <1>3, <1>6, FS_AddElement DEF Pends
    <2> QED
      BY <1>1, <1>2, <1>4, <1>6, <2>1, MutexAssumption DEF Counted, HasRoom
  <1>8. MutexType'
    <2>1. phase' \in [Flow -> {"run", "entering", "waiting"} \cup InHandler]
      BY <1>1, <1>2, <1>3 DEF MutexType, InHandler
    <2> QED
      BY <1>1, <1>2, <1>3, <1>4, <2>1 DEF MutexType
  <1>9. HoldsOs(f) /\ os = Home[f] /\ \A g \in Flow \ {f} : ~HoldsOs(g)
    BY <1>1 DEF MutexInv, Alone, HoldsOs
  <1>10. NoIdleRoom'
    BY <1>1, <1>9, MutexAssumption DEF NoIdleRoom
  <1>11. Home[next] = Home[f] => mode[next] = "ok"
    BY <1>1, <1>3, <1>5 DEF MutexInv, Alone, IsBusy, InHandler
  <1>12. ASSUME NEW g \in Flow PROVE PlacedAt(g)'
    <2>1. CASE g = next
      <3>1. Holds(g, 1)'
        BY <1>1, <1>2, <1>3, <1>4, <2>1 DEF MutexType, Holds, Pends
      <3>2. PlacedAt(g) /\ mode'[g] = mode[g] /\ depth'[g] = depth[g]
        BY <1>1 DEF MutexInv, Placed
      <3>3. CASE Home[next] = Home[f]
        <4>1. phase'[g] = "run" /\ mode[g] = "ok" /\ depth[g] = 1
          BY <1>1, <1>2, <1>3, <1>11, <2>1, <3>3 DEF MutexType
        <4> QED
          BY <3>1, <3>2, <4>1
             DEF PlacedAt, OkPlaced, FailPlaced, CancelPlaced
      <3>4. CASE Home[next] # Home[f]
        <4>1. phase'[g] = phase[g]
          BY <1>1, <1>2, <1>5, <2>1, <3>4 DEF MutexType
        <4>2. Pends(g)
          BY <1>3, <2>1
        <4>3. depth[g] \in Nat
          BY <1>2 DEF MutexType
        <4> QED
          BY <1>3, <2>1, <3>1, <3>2, <4>1, <4>2, <4>3
             DEF PlacedAt, OkPlaced, FailPlaced, CancelPlaced, Pends, Holds, Absent
      <3> QED
        BY <3>3, <3>4
    <2>2. CASE g = f
      <3>1. Absent(g)'
        BY <1>1, <1>4, <1>5, <2>2 DEF Absent
      <3>2. phase'[g] \in {"granting", "calling"}
        BY <1>1, <1>2, <1>3, <1>5, <2>2 DEF MutexType
      <3>3. mode'[g] = mode[g] /\ depth'[g] = depth[g]
        BY <1>1
      <3> QED
        BY <1>1, <1>2, <2>2, <3>1, <3>2, <3>3
           DEF PlacedAt, OkPlaced, FailPlaced, CancelPlaced
    <2>3. CASE g # next /\ g # f
      <3>1. /\ mode'[g] = mode[g] /\ phase'[g] = phase[g]
            /\ depth'[g] = depth[g] /\ iter'[g] = iter[g]
            /\ count'[g] = count[g]
            /\ g \in locked' <=> g \in locked
            /\ g \in Elements(queue') <=> g \in Elements(queue)
        BY <1>1, <1>2, <1>3, <1>4, <2>3 DEF MutexType
      <3> QED
        BY <3>1, FramePlaced DEF MutexInv, Placed
    <2> QED
      BY <2>1, <2>2, <2>3
  <1>13. \A g \in Flow : IsBusy(g)' => IsBusy(g)
    BY <1>1, <1>2, <1>3 DEF IsBusy, InHandler, MutexType
  <1>14. \A g \in Flow \ {f} : ~HoldsOs(g)'
    BY <1>1, <1>2, <1>3, <1>9 DEF HoldsOs, MutexType
  <1>15. Alone'
    BY <1>1, <1>9, <1>13, <1>14 DEF MutexInv, Alone
  <1>16. Callee'
    <2>1. CASE Home[next] = Home[f]
      <3>1. \A g \in Flow : phase'[g] # "calling"
        BY <1>1, <1>2, <1>3, <1>5, <1>14, <2>1 DEF HoldsOs, MutexType
      <3> QED
        BY <3>1 DEF Callee
    <2>2. CASE Home[next] # Home[f]
      <3>1. \A g \in Flow : phase'[g] = "calling" => g = f
        BY <1>14 DEF HoldsOs
      <3>2. callee' = next /\ next \in Flow \ {f}
        BY <1>1, <1>3, <1>5, <2>2
      <3>3. phase'[next] = phase[next] /\ mode'[next] = mode[next]
        BY <1>1, <1>2, <1>3, <1>5, <2>2 DEF MutexType
      <3>4. /\ next \in locked' /\ next \notin Elements(queue')
            /\ iter'[next] /\ count'[next] = 1
        BY <1>1, <1>2, <1>3, <1>4 DEF MutexType, Pends
      <3>5. \A g \in Flow : g = next => Called(g)'
        BY <1>3, <3>3, <3>4 DEF Called, Holds
      <3> QED
        BY <3>1, <3>2, <3>5 DEF Callee
    <2> QED
      BY <2>1, <2>2
  <1> QED
    BY <1>4, <1>7, <1>8, <1>10, <1>12, <1>15, <1>16 DEF MutexInv, Placed

LEMMA AnswerStep ==
    ASSUME MutexInv, NEW f \in Flow, Answer(f)
    PROVE  MutexInv'
  <1>1. /\ phase[f] = "calling" /\ Idle(callee)
        /\ phase' = [phase EXCEPT ![f] = "granting", ![callee] = "run"]
        /\ UNCHANGED <<locked, queue, iter, count, os, depth, mode>>
    BY DEF Answer, lists
  <1>2. MutexType /\ Counted /\ NoTwice /\ NoIdleRoom
    BY DEF MutexInv
  <1>3. PICK c \in Flow \ {f} : c = callee /\ Called(c)
    BY <1>1 DEF MutexInv, Callee
  <1>4. /\ mode[c] = "ok" /\ phase[c] = "waiting" /\ Holds(c, 1)
        /\ \A g \in Flow : Home[g] = Home[c] => ~IsBusy(g)
    BY <1>1, <1>3, IdleFlow, IdleReactor DEF Called
  <1>5. /\ phase'[f] = "granting" /\ phase'[c] = "run"
        /\ \A g \in Flow \ {f, c} : phase'[g] = phase[g]
    BY <1>1, <1>2, <1>3 DEF MutexType
  <1>6. MutexType' /\ Counted' /\ NoTwice' /\ NoIdleRoom'
    BY <1>1, <1>2, <1>3 DEF MutexType, Counted, NoTwice, NoIdleRoom, InHandler
  <1>7. ASSUME NEW g \in Flow PROVE PlacedAt(g)'
    <2>1. PlacedAt(g)
      BY DEF MutexInv, Placed
    <2>2. CASE g = c
      BY <1>1, <1>4, <1>5, <2>1, <2>2
         DEF PlacedAt, OkPlaced, FailPlaced, CancelPlaced, Holds, Absent
    <2>3. CASE g = f
      BY <1>1, <1>5, <2>1, <2>3
         DEF PlacedAt, OkPlaced, FailPlaced, CancelPlaced, Absent
    <2>4. CASE g # c /\ g # f
      BY <1>1, <1>5, <2>1, <2>4, FramePlaced
    <2> QED
      BY <2>2, <2>3, <2>4
  <1>8. \A g \in Flow : IsBusy(g)' => IsBusy(g)
    BY <1>1, <1>3, <1>4, <1>5 DEF IsBusy, InHandler
  <1>9. \A g \in Flow : HoldsOs(g)' => HoldsOs(g)
    BY <1>1, <1>5 DEF HoldsOs
  <1>10. Alone'
    BY <1>1, <1>8, <1>9 DEF MutexInv, Alone
  <1>11. Callee'
    <2>1. \A g \in Flow \ {f} : ~HoldsOs(g)
      BY <1>1 DEF MutexInv, Alone, HoldsOs
    <2>2. \A g \in Flow : phase'[g] # "calling"
      BY <1>5, <2>1 DEF HoldsOs
    <2> QED
      BY <2>2 DEF Callee
  <1> QED
    BY <1>6, <1>7, <1>10, <1>11 DEF MutexInv, Placed

----------------------------------------------------------------------------
(* The theorems *)

LEMMA InitInv == Init => MutexInv
  <1> SUFFICES ASSUME Init PROVE MutexInv
    OBVIOUS
  <1>1. Cardinality(locked) = 0 /\ Elements(queue) = {}
    BY FS_EmptySet DEF Init, Elements
  <1>2. MutexType /\ NoTwice /\ NoIdleRoom
    BY DEF Init, MutexType, NoTwice, Distinct, NoIdleRoom
  <1>3. Counted
    BY <1>1, MutexAssumption DEF Init, Counted
  <1>4. Placed
    BY <1>1
       DEF Init, Placed, PlacedAt, OkPlaced, FailPlaced, CancelPlaced, Absent
  <1>5. Alone /\ Callee
    BY DEF Init, Alone, Callee, IsBusy, HoldsOs, InHandler
  <1> QED
    BY <1>2, <1>3, <1>4, <1>5 DEF MutexInv

LEMMA StepInv == MutexInv /\ [Next]_vars => MutexInv'
  <1> SUFFICES ASSUME MutexInv, [Next]_vars PROVE MutexInv'
    OBVIOUS
  <1>1. CASE Shrink
    BY <1>1, ShrinkStep
  <1>2. ASSUME NEW f \in Flow, FlowStep(f) PROVE MutexInv'
    BY <1>2, EnterStep, LockStep, LockSectionStep, ExitStep, FailStep, CancelStep,
       UnwindLevelStep, UnwindEndStep, ReleaseSectionStep, GrantStep, AnswerStep,
       GrantEndStep DEF FlowStep
  <1>3. CASE UNCHANGED vars
    BY <1>3 DEF vars, lists, MutexInv, MutexType, Counted, NoTwice, NoIdleRoom,
       Placed, PlacedAt, OkPlaced, FailPlaced, CancelPlaced, Holds, Pends, Absent,
       Alone, IsBusy, HoldsOs, Callee, Called
  <1> QED
    BY <1>1, <1>2, <1>3 DEF Next

\* Every reachable state satisfies the invariant.
THEOREM MutexInvariant == Spec => []MutexInv
  BY InitInv, StepInv, PTL DEF Spec

\* No more than max_ flows execute code that their sync steps protect, for any
\* number of flows, reactors and nested steps: a flow inside still has its node
\* in locked_list_, whatever errors and cancels did to other steps and flows.
THEOREM AtMostMaxInside == Spec => []MutualExclusion
  <1>1. MutexInv => MutualExclusion
    <2> SUFFICES ASSUME MutexInv PROVE MutualExclusion
      OBVIOUS
    <2>1. {f \in Flow : Inside(f)} \subseteq locked
      BY DEF MutexInv, MutexType, Placed, PlacedAt, OkPlaced, Inside, Holds
    <2>2. IsFiniteSet(locked) /\ Cardinality(locked) \in Nat
      BY LockedFinite DEF MutexInv
    <2>3. Cardinality({f \in Flow : Inside(f)}) <= Cardinality(locked)
          /\ Cardinality({f \in Flow : Inside(f)}) \in Nat
      BY <2>1, <2>2, FS_Subset, FS_CardinalityType
    <2> QED
      BY <2>2, <2>3, MutexAssumption DEF MutexInv, Counted, MutualExclusion
  <1> QED
    BY <1>1, MutexInvariant, PTL

\* The recursion count of a flow is the number of sync steps it is inside of.
THEOREM RecursionIsCounted == Spec => []CountIsDepth
  <1>1. MutexInv => CountIsDepth
    BY
       DEF MutexInv, MutexType, Placed, PlacedAt, OkPlaced, CountIsDepth, Inside,
           Holds
  <1> QED
    BY <1>1, MutexInvariant, PTL

\* A flow that has left its sync steps has left no node in the lists.
THEOREM FlowsLeaveNothing == Spec => []NothingLeftBehind
  <1>1. MutexInv => NothingLeftBehind
    BY DEF MutexInv, MutexType, Placed, PlacedAt, OkPlaced, FailPlaced,
           CancelPlaced, NothingLeftBehind, Absent, Pends, Holds
  <1> QED
    BY <1>1, MutexInvariant, PTL

\* While mutex_ is free, flows are pending only when all places are taken.
THEOREM RoomIsUsed == Spec => []NoIdleRoom
  <1>1. MutexInv => NoIdleRoom
    BY DEF MutexInv
  <1> QED
    BY <1>1, MutexInvariant, PTL

\* DefenseRejected is raised only while the lock and its queue are full.
THEOREM RefusalsAreDue == Spec => RefusedWhenFull
  <1>1. MutexInv /\ [Next]_vars =>
           [\A f \in Flow : phase[f] = "locking" /\ mode'[f] = "fail" =>
               Cardinality(locked) = Max /\ Len(queue) = QueueMax]_vars
    <2> SUFFICES ASSUME MutexInv, Next, NEW f \in Flow,
                        phase[f] = "locking", mode'[f] = "fail"
                 PROVE  Cardinality(locked) = Max /\ Len(queue) = QueueMax
      OBVIOUS
    <2>1. mode[f] = "ok"
      BY DEF MutexInv, MutexType, Placed, PlacedAt, FailPlaced, CancelPlaced
    <2>2. /\ mode \in [Flow -> {"ok", "fail", "cancel"}]
          /\ phase \in [Flow -> {"run", "entering", "waiting"} \cup InHandler]
      BY DEF MutexInv, MutexType
    <2>3. PICK g \in Flow : FlowStep(g)
      BY <2>1 DEF Next, Shrink
    <2>4. g = f /\ LockSection(f)
      BY <2>1, <2>2, <2>3
         DEF FlowStep, Enter, Lock, LockSection, Exit, Fail, Cancel, UnwindLevel,
             UnwindEnd, ReleaseSection, Grant, Answer, GrantEnd, Unlock
    <2>5. /\ ~(queue = <<>> /\ HasRoom) /\ ~HasQueueRoom /\ OsFree
      BY <2>1, <2>2, <2>4 DEF LockSection
    <2>6. Cardinality(locked) \in Nat /\ Len(queue) \in Nat
      BY LockedFinite DEF MutexInv, MutexType
    <2>7. Cardinality(locked) <= Max /\ Len(queue) <= QueueMax /\ NoIdleRoom
      BY DEF MutexInv, Counted
    <2> QED
      BY <2>5, <2>6, <2>7, MutexAssumption
         DEF NoIdleRoom, OsFree, HasRoom, HasQueueRoom
  <1> QED
    BY <1>1, MutexInvariant, PTL DEF Spec, RefusedWhenFull

----------------------------------------------------------------------------
(* The mutex implements the semaphore *)

LEMMA SameCardinality == Sem!Cardinality(locked) = Cardinality(locked)
  BY Zenon DEF Cardinality, Sem!Cardinality

LEMMA ReleaseRefines ==
    ASSUME MutexInv, NEW f \in Flow, ReleaseSection(f)
    PROVE  Sem!Leave(f) \/ Sem!Withdraw(f)
  <1>1. MutexType /\ phase[f] = "releasing" /\ PlacedAt(f)
    BY DEF MutexInv, Placed, ReleaseSection
  <1>2. Holds(f, 1) \/ Pends(f)
    BY <1>1 DEF MutexType, PlacedAt, OkPlaced, FailPlaced, CancelPlaced
  <1>3. CASE count[f] = 0
    <2>1. queue' = Without(queue, f) /\ locked' = locked /\ f \in Elements(queue)
      BY <1>2, <1>3 DEF ReleaseSection, Holds, Pends
    <2> DEFINE i == CHOOSE i \in DOMAIN queue : queue[i] = f
    <2>2. i \in DOMAIN queue /\ queue[i] = f
      BY <2>1 DEF Elements
    <2>3. queue' = [j \in 1 .. Len(queue) - 1 |->
                      queue[IF j < i THEN j ELSE j + 1]]
      BY <2>1 DEF Without
    <2> HIDE DEF i
    <2> QED
      BY <2>1, <2>2, <2>3 DEF Sem!Withdraw
  <1>4. CASE count[f] # 0
    BY <1>2, <1>4 DEF ReleaseSection, Pends, Holds, Sem!Leave
  <1> QED
    BY <1>3, <1>4

LEMMA LockRefines ==
    ASSUME MutexInv, NEW f \in Flow, LockSection(f)
    PROVE  [Sem!Acquire(f) \/ Sem!Wait(f)]_<<locked, queue>>
  <1>1. MutexType /\ Counted /\ NoIdleRoom /\ PlacedAt(f)
        /\ phase[f] = "locking" /\ os = None
    BY DEF MutexInv, Placed, LockSection, OsFree
  <1>2. Absent(f)
    BY <1>1 DEF MutexType, PlacedAt, OkPlaced, FailPlaced, CancelPlaced
  <1>3. CASE queue = <<>> /\ HasRoom /\ Granted(f)
    BY <1>2, <1>3, SameCardinality DEF Granted, HasRoom, Absent, Sem!Acquire
  <1>4. CASE ~(queue = <<>> /\ HasRoom) /\ HasQueueRoom /\ Queued(f)
    <2>1. Cardinality(locked) = Max
      BY <1>1, <1>4, LockedFinite, MutexAssumption
         DEF NoIdleRoom, Counted, HasRoom
    <2>2. f \notin Sem!Pending
      BY <1>2 DEF Absent, Elements, Sem!Pending
    <2> QED
      BY <1>2, <1>4, <2>1, <2>2, SameCardinality
         DEF Queued, HasQueueRoom, Absent, Sem!Wait
  <1>5. CASE UNCHANGED <<locked, queue>>
    BY <1>5
  <1> QED
    BY <1>3, <1>4, <1>5 DEF LockSection

LEMMA StepRefines ==
    MutexInv /\ [Next]_vars => [Sem!Next]_(Sem!vars)
  <1> SUFFICES ASSUME MutexInv, [Next]_vars
               PROVE  [Sem!Next]_<<locked, queue>>
    BY DEF Sem!vars
  <1>1. CASE Shrink \/ UNCHANGED vars
    BY <1>1 DEF Shrink, vars, lists
  <1>2. ASSUME NEW f \in Flow, FlowStep(f)
        PROVE  [Sem!Next]_<<locked, queue>>
    <2>1. CASE LockSection(f)
      BY <2>1, LockRefines DEF Sem!Next
    <2>2. CASE ReleaseSection(f)
      BY <2>2, ReleaseRefines DEF Sem!Next
    <2>3. CASE Grant(f)
      BY <2>3, SameCardinality DEF Grant, HasRoom, Sem!Admit, Sem!Next
    <2>4. CASE \/ Enter(f) \/ Lock(f) \/ Exit(f) \/ Fail(f) \/ Cancel(f)
               \/ UnwindLevel(f) \/ UnwindEnd(f) \/ Answer(f) \/ GrantEnd(f)
      BY <2>4 DEF Enter, Lock, Exit, Fail, Cancel, UnwindLevel, UnwindEnd,
                  Answer, GrantEnd, Unlock, lists
    <2> QED
      BY <1>2, <2>1, <2>2, <2>3, <2>4 DEF FlowStep
  <1> QED
    BY <1>1, <1>2 DEF Next

\* Whatever the flows do, the two lists behave as a semaphore with a strictly
\* ordered and bounded queue, as README.md promises: nobody overtakes a
\* pending flow and only a full mutex makes a flow wait.
THEOREM IsSemaphore == Spec => OrderedAdmission
  <1>1. Init => Sem!Init
    BY DEF Init, Sem!Init
  <1> QED
    BY <1>1, StepRefines, MutexInvariant, PTL
       DEF Spec, OrderedAdmission, Sem!Spec

\* The bounds that TypeOK states beyond MutexType follow the nesting of the
\* sync steps: a recursion count never passes MaxDepth.
LEMMA StepType ==
    MutexInv /\ TypeOK /\ [Next]_vars => TypeOK'
  <1> SUFFICES ASSUME MutexInv, TypeOK, [Next]_vars PROVE TypeOK'
    OBVIOUS
  <1>1. MutexInv'
    BY StepInv
  <1>2. /\ locked' \subseteq Flow /\ queue' \in Seq(Flow)
        /\ Len(queue') <= QueueMax
        /\ iter' \in [Flow -> BOOLEAN] /\ os' \in Reactor \cup {None}
        /\ phase' \in [Flow -> {"run", "entering", "waiting"} \cup InHandler]
        /\ mode' \in [Flow -> {"ok", "fail", "cancel"}]
    BY <1>1 DEF MutexInv, MutexType, Counted
  <1>3. /\ free \in Nat /\ count \in [Flow -> 0 .. MaxDepth]
        /\ callee \in Flow \cup {None} /\ depth \in [Flow -> 0 .. MaxDepth]
        /\ MaxDepth \in Nat \ {0}
    BY MutexAssumption DEF TypeOK
  <1>4. CASE Shrink \/ UNCHANGED vars
    BY <1>2, <1>3, <1>4 DEF Shrink, vars, lists, TypeOK
  <1>5. ASSUME NEW f \in Flow, FlowStep(f)
        PROVE  /\ free' \in Nat /\ count' \in [Flow -> 0 .. MaxDepth]
               /\ callee' \in Flow \cup {None}
               /\ depth' \in [Flow -> 0 .. MaxDepth]
    <2>1. CASE Enter(f)
      BY <1>3, <2>1 DEF Enter, lists
    <2>2. CASE Lock(f)
      <3>1. iter[f] => count[f] + 1 <= depth[f]
        BY <2>2, IdleFlow
           DEF Lock, MutexInv, MutexType, Placed, PlacedAt, OkPlaced, Holds, Absent
      <3>2. iter[f] => count[f] + 1 \in 0 .. MaxDepth
        BY <1>3, <3>1
      <3>3. count' \in [Flow -> 0 .. MaxDepth]
        <4>1. CASE iter[f]
          BY <1>3, <2>2, <3>2, <4>1 DEF Lock
        <4>2. CASE ~iter[f]
          BY <1>3, <2>2, <4>2 DEF Lock
        <4> QED
          BY <4>1, <4>2
      <3> QED
        BY <1>3, <2>2, <3>3 DEF Lock
    <2>3. CASE LockSection(f)
      <3>1. free' \in Nat
        BY <1>3, <2>3 DEF LockSection, TakeNode
      <3>2. count' \in [Flow -> 0 .. MaxDepth]
        <4>1. count' \in {count, [count EXCEPT ![f] = 0], [count EXCEPT ![f] = 1]}
          BY <2>3 DEF LockSection, Granted, Queued
        <4> QED
          BY <1>3, <4>1
      <3> QED
        BY <1>3, <2>3, <3>1, <3>2 DEF LockSection
    <2>4. CASE Unlock(f) /\ depth[f] > 0
      <3>1. count' \in [Flow -> 0 .. MaxDepth]
        BY <1>3, <2>4 DEF Unlock
      <3>2. depth' \in [Flow -> 0 .. MaxDepth]
        BY <1>3, <2>4 DEF Unlock
      <3> QED
        BY <1>3, <2>4, <3>1, <3>2 DEF Unlock
    <2>5. CASE Fail(f) \/ Cancel(f) \/ UnwindEnd(f) \/ GrantEnd(f)
      BY <1>3, <2>5 DEF Fail, Cancel, UnwindEnd, GrantEnd, lists
    <2>6. CASE ReleaseSection(f)
      BY <1>3, <2>6 DEF ReleaseSection
    <2>7. CASE Grant(f)
      <3>1. Head(queue) \in Flow
        BY <2>7, OldestPends DEF Grant
      <3> QED
        BY <1>3, <2>7, <3>1 DEF Grant
    <2>8. CASE Answer(f)
      BY <1>3, <2>8 DEF Answer, lists
    <2> QED
      BY <1>5, <2>1, <2>2, <2>3, <2>4, <2>5, <2>6, <2>7, <2>8
         DEF FlowStep, Exit, UnwindLevel
  <1>6. CASE \E f \in Flow : FlowStep(f)
    BY <1>2, <1>5, <1>6 DEF TypeOK
  <1> QED
    BY <1>4, <1>6 DEF Next

\* The type invariant, with the bounds on the queue and on the recursion count.
THEOREM TypeCorrect == Spec => []TypeOK
  <1>1. Init => TypeOK
    <2> SUFFICES ASSUME Init PROVE TypeOK
      OBVIOUS
    <2>1. /\ locked \subseteq Flow /\ queue \in Seq(Flow) /\ Len(queue) = 0
          /\ free \in Nat /\ os = None /\ callee = None
      BY DEF Init
    <2>2. /\ iter \in [Flow -> BOOLEAN] /\ count \in [Flow -> 0 .. MaxDepth]
          /\ depth \in [Flow -> 0 .. MaxDepth]
          /\ phase \in [Flow -> {"run", "entering", "waiting"} \cup InHandler]
          /\ mode \in [Flow -> {"ok", "fail", "cancel"}]
      BY MutexAssumption DEF Init
    <2> QED
      BY <2>1, <2>2, MutexAssumption DEF TypeOK
  <1> QED
    BY <1>1, StepType, MutexInvariant, PTL DEF Spec

----------------------------------------------------------------------------
(* The limiter: the throttle finds the place of every pending flow where it *)
(* was. *)

(* A flow that is still ahead of the throttle is inside a sync step, so     *)
(* that unwinding meets its place in both queues; and nothing moves a flow  *)
(* that is pending in the throttle but its own cancel(), whose first level  *)
(* takes it out.                                                            *)

ThrottleType ==
    /\ passed \in Nat
    /\ pending \in Seq(Flow) /\ Distinct(pending)
    /\ ahead \subseteq Flow /\ Elements(pending) \subseteq ahead

AheadAreInside == \A f \in ahead : depth[f] >= 1

PendingHold == \A f \in Elements(pending) : f \in locked /\ phase[f] = "run"

LimiterInv == MutexInv /\ ThrottleType /\ AheadAreInside /\ PendingHold

----------------------------------------------------------------------------
(* The limiter uses its mutex as flows use any mutex *)

\* The refusal of the throttle is an error in the body of the sync step, as
\* far as the mutex can tell.
LEMMA ThrottleLockIsMutexStep ==
    ASSUME LimiterInv, NEW f \in Flow, ThrottleLock(f)
    PROVE  Fail(f) \/ UNCHANGED vars
  <1>1. depth[f] > 0
    <2>1. depth[f] \in Nat /\ depth[f] >= 1
      BY DEF LimiterInv, MutexInv, MutexType, AheadAreInside, ThrottleLock
    <2> QED
      BY <2>1
  <1>2. CASE mode' = [mode EXCEPT ![f] = "fail"]
    BY <1>1, <1>2 DEF ThrottleLock, Fail
  <1>3. CASE UNCHANGED mode
    BY <1>3 DEF ThrottleLock, vars, lists
  <1> QED
    BY <1>2, <1>3 DEF ThrottleLock

LEMMA MutexStep ==
    LimiterInv /\ [LNext]_limiter => [Next]_vars
  <1> SUFFICES ASSUME LimiterInv, [LNext]_limiter PROVE [Next]_vars
    OBVIOUS
  <1>1. CASE NextPeriod \/ UNCHANGED limiter
    BY <1>1 DEF NextPeriod, limiter
  <1>2. ASSUME NEW f \in Flow, LEnter(f) \/ LExit(f) \/ LFail(f) \/ LCancel(f)
        PROVE  Next
    BY <1>2 DEF LEnter, LExit, LFail, LCancel, Next, FlowStep
  <1>3. ASSUME NEW f \in Flow, MutexLock(f) \/ LUnwindLevel(f) \/ MutexUnlock(f)
        PROVE  Next
    BY <1>3 DEF MutexLock, LUnwindLevel, MutexUnlock, Next, FlowStep
  <1>4. ASSUME NEW f \in Flow, ThrottleLock(f) PROVE [Next]_vars
    BY <1>4, ThrottleLockIsMutexStep DEF Next, FlowStep
  <1> QED
    BY <1>1, <1>2, <1>3, <1>4 DEF LNext

----------------------------------------------------------------------------
(* What the steps do to the throttle *)

ThrottleInv == ThrottleType /\ AheadAreInside /\ PendingHold

\* A step of the mutex that touches no flow pending in the throttle.
LEMMA MutexOnly ==
    ASSUME LimiterInv, UNCHANGED <<throttle, depth>>,
           \A g \in Flow : g \in locked /\ phase[g] = "run"
                             => g \in locked' /\ phase'[g] = "run"
    PROVE  ThrottleInv'
  <1>1. Elements(pending) \subseteq Flow
    BY DEF LimiterInv, ThrottleType
  <1>2. ThrottleType' /\ AheadAreInside'
    BY DEF LimiterInv, ThrottleType, AheadAreInside, throttle
  <1>3. PendingHold'
    BY <1>1 DEF LimiterInv, PendingHold, throttle
  <1> QED
    BY <1>2, <1>3 DEF ThrottleInv

LEMMA MutexLockKeeps ==
    ASSUME LimiterInv, NEW f \in Flow, MutexLock(f)
    PROVE  ThrottleInv'
  <1>1. phase \in [Flow -> {"run", "entering", "waiting"} \cup InHandler]
    BY DEF LimiterInv, MutexInv, MutexType
  <1>2. CASE Lock(f)
    BY <1>1, <1>2, MutexOnly DEF MutexLock, Lock
  <1>3. CASE LockSection(f)
    BY <1>1, <1>3, MutexOnly DEF MutexLock, LockSection, Granted, Queued
  <1> QED
    BY <1>2, <1>3 DEF MutexLock

LEMMA MutexUnlockKeeps ==
    ASSUME LimiterInv, NEW f \in Flow, MutexUnlock(f)
    PROVE  ThrottleInv'
  <1>1. phase \in [Flow -> {"run", "entering", "waiting"} \cup InHandler]
    BY DEF LimiterInv, MutexInv, MutexType
  <1>2. CASE ReleaseSection(f)
    BY <1>1, <1>2, MutexOnly DEF MutexUnlock, ReleaseSection
  <1>3. CASE Grant(f)
    <2>1. \A g \in Flow : phase[g] = "run" => phase'[g] = "run"
      BY <1>1, <1>3 DEF Grant
    <2> QED
      BY <1>3, <2>1, MutexOnly DEF MutexUnlock, Grant
  <1>4. CASE GrantEnd(f)
    BY <1>1, <1>4, MutexOnly DEF MutexUnlock, GrantEnd, lists
  <1>5. CASE UnwindEnd(f)
    BY <1>5, MutexOnly DEF MutexUnlock, UnwindEnd, lists
  <1> QED
    BY <1>2, <1>3, <1>4, <1>5 DEF MutexUnlock

LEMMA BodyKeeps ==
    ASSUME LimiterInv, NEW f \in Flow, LFail(f) \/ LCancel(f)
    PROVE  ThrottleInv'
  <1>1. phase \in [Flow -> {"run", "entering", "waiting"} \cup InHandler]
    BY DEF LimiterInv, MutexInv, MutexType
  <1>2. CASE LFail(f)
    BY <1>2, MutexOnly DEF LFail, Fail, lists
  <1>3. CASE LCancel(f)
    BY <1>1, <1>3, MutexOnly DEF LCancel, Cancel, lists
  <1> QED
    BY <1>2, <1>3

LEMMA EnterKeeps ==
    ASSUME LimiterInv, NEW f \in Flow, LEnter(f)
    PROVE  ThrottleInv'
  <1>1. /\ phase \in [Flow -> {"run", "entering", "waiting"} \cup InHandler]
        /\ depth \in [Flow -> Nat]
    BY DEF LimiterInv, MutexInv, MutexType
  <1>2. /\ UNCHANGED <<locked, passed, pending>> /\ ahead' = ahead \cup {f}
        /\ f \notin Elements(pending) /\ Elements(pending) \subseteq Flow
        /\ depth' = [depth EXCEPT ![f] = @ + 1]
        /\ phase' = [phase EXCEPT ![f] = "entering"]
    BY DEF LimiterInv, ThrottleType, LEnter, Enter, lists
  <1>3. ThrottleType'
    BY <1>2 DEF LimiterInv, ThrottleType
  <1>4. AheadAreInside'
    BY <1>1, <1>2 DEF LimiterInv, ThrottleType, AheadAreInside
  <1>5. PendingHold'
    BY <1>1, <1>2 DEF LimiterInv, PendingHold
  <1> QED
    BY <1>3, <1>4, <1>5 DEF ThrottleInv

\* One sync step less: unlock() of the throttle and then of the mutex.
LEMMA LevelLeft ==
    ASSUME LimiterInv, NEW f \in Flow, Unlock(f), ThrottleUnlock(f)
    PROVE  ThrottleInv'
  <1>1. /\ phase \in [Flow -> {"run", "entering", "waiting"} \cup InHandler]
        /\ depth \in [Flow -> Nat]
    BY DEF LimiterInv, MutexInv, MutexType
  <1>2. ThrottleType
    BY DEF LimiterInv
  <1>3. /\ pending' \in Seq(Flow) /\ Distinct(pending')
        /\ Elements(pending') = Elements(pending) \ {f}
    <2>1. CASE f \in Elements(pending)
      BY <1>2, <2>1, WithoutElements DEF ThrottleUnlock, ThrottleType
    <2>2. CASE f \notin Elements(pending)
      BY <1>2, <2>2 DEF ThrottleUnlock, ThrottleType
    <2> QED
      BY <2>1, <2>2
  <1>4. \A g \in Flow \ {f} : /\ phase'[g] = phase[g] /\ depth'[g] = depth[g]
    BY <1>1 DEF Unlock
  <1>5. ThrottleType'
    BY <1>2, <1>3 DEF ThrottleType, ThrottleUnlock
  <1>6. AheadAreInside'
    BY <1>2, <1>4 DEF LimiterInv, ThrottleType, AheadAreInside, ThrottleUnlock
  <1>7. PendingHold'
    BY <1>2, <1>3, <1>4 DEF LimiterInv, ThrottleType, PendingHold, Unlock
  <1> QED
    BY <1>5, <1>6, <1>7 DEF ThrottleInv

\* Whoever passes or joins the queue of the throttle has its place already.
LEMMA ThrottleLockKeeps ==
    ASSUME LimiterInv, NEW f \in Flow, ThrottleLock(f)
    PROVE  ThrottleInv'
  <1>1. ThrottleType /\ AheadAreInside /\ PendingHold
        /\ UNCHANGED <<locked, phase, depth>>
    BY DEF LimiterInv, ThrottleLock, lists
  <1>2. f \in locked /\ phase[f] = "run"
    <2>1. mode[f] = "ok" /\ phase[f] = "run"
      BY IdleFlow DEF ThrottleLock
    <2>2. depth[f] # 0
      BY DEF LimiterInv, MutexInv, MutexType, AheadAreInside, ThrottleLock
    <2> QED
      BY <2>1, <2>2
         DEF LimiterInv, MutexInv, Placed, PlacedAt, OkPlaced, Holds
  <1>3. CASE /\ passed' = passed + 1 /\ ahead' = ahead \ {f}
             /\ UNCHANGED pending
    BY <1>1, <1>3
       DEF ThrottleLock, ThrottleInv, ThrottleType, AheadAreInside, PendingHold
  <1>4. CASE pending' = Append(pending, f) /\ UNCHANGED <<passed, ahead>>
    <2>1. /\ pending' \in Seq(Flow) /\ Distinct(pending')
          /\ Elements(pending') = Elements(pending) \cup {f}
      BY <1>1, <1>4, AppendElements, AppendDistinct
         DEF ThrottleLock, ThrottleType
    <2> QED
      BY <1>1, <1>2, <1>4, <2>1
         DEF ThrottleLock, ThrottleInv, ThrottleType, AheadAreInside, PendingHold
  <1>5. CASE UNCHANGED throttle
    BY <1>1, <1>5
       DEF throttle, ThrottleInv, ThrottleType, AheadAreInside, PendingHold
  <1> QED
    BY <1>3, <1>4, <1>5 DEF ThrottleLock, throttle

LEMMA PeriodKeeps ==
    ASSUME LimiterInv, NextPeriod
    PROVE  ThrottleInv'
  <1>1. ThrottleType /\ AheadAreInside /\ PendingHold
        /\ UNCHANGED <<locked, phase, depth>>
    BY DEF LimiterInv, NextPeriod, vars, lists
  <1>2. Len(pending) \in Nat /\ Rate \in Nat
    BY <1>1, LimiterAssumption DEF ThrottleType
  <1>3. Admitted \in 0 .. Len(pending)
    BY <1>2 DEF Admitted
  <1>4. /\ pending' \in Seq(Flow) /\ Distinct(pending')
        /\ Elements(pending') = Elements(pending) \ {pending[i] : i \in 1 .. Admitted}
    BY <1>1, <1>3, FrontTaken DEF NextPeriod, ThrottleType
  <1>5. passed' \in Nat /\ ahead' \subseteq ahead
        /\ Elements(pending') \subseteq ahead'
    BY <1>1, <1>3, <1>4 DEF NextPeriod, ThrottleType
  <1> QED
    BY <1>1, <1>4, <1>5
       DEF ThrottleInv, ThrottleType, AheadAreInside, PendingHold

----------------------------------------------------------------------------
(* The theorems *)

LEMMA LimiterStep ==
    LimiterInv /\ [LNext]_limiter => LimiterInv'
  <1> SUFFICES ASSUME LimiterInv, [LNext]_limiter PROVE LimiterInv'
    OBVIOUS
  <1>1. MutexInv'
    BY MutexStep, StepInv DEF LimiterInv
  <1>2. ThrottleInv'
    <2>1. CASE NextPeriod
      BY <2>1, PeriodKeeps
    <2>2. CASE UNCHANGED limiter
      BY <2>2, MutexOnly DEF limiter, vars, lists
    <2>3. ASSUME NEW f \in Flow, LExit(f) \/ LUnwindLevel(f) PROVE ThrottleInv'
      BY <2>3, LevelLeft DEF LExit, Exit, LUnwindLevel, UnwindLevel
    <2>4. ASSUME NEW f \in Flow,
                 \/ LEnter(f) \/ MutexLock(f) \/ ThrottleLock(f)
                 \/ LFail(f) \/ LCancel(f) \/ MutexUnlock(f)
          PROVE  ThrottleInv'
      BY <2>4, EnterKeeps, MutexLockKeeps, ThrottleLockKeeps, BodyKeeps,
         MutexUnlockKeeps
    <2> QED
      BY <2>1, <2>2, <2>3, <2>4 DEF LNext
  <1> QED
    BY <1>1, <1>2 DEF LimiterInv, ThrottleInv

LEMMA LimiterInit == LInit => LimiterInv
  <1> SUFFICES ASSUME LInit PROVE LimiterInv
    OBVIOUS
  <1>1. MutexInv
    BY InitInv DEF LInit
  <1>2. passed = 0 /\ pending = <<>> /\ ahead = {} /\ Elements(pending) = {}
    BY DEF LInit, Elements
  <1>3. ThrottleType
    BY <1>2 DEF ThrottleType, Distinct
  <1> QED
    BY <1>1, <1>2, <1>3 DEF LimiterInv, AheadAreInside, PendingHold

LEMMA LimiterInvariant == LSpec => []LimiterInv
  BY LimiterInit, LimiterStep, PTL DEF LSpec

\* A limiter is a mutex whose flows do more between lock() and unlock(): its
\* behaviours are behaviours of the mutex, those of the refused, the canceled
\* and the pending flows included.
THEOREM LimiterIsMutex == LSpec => Spec
  <1>1. LInit => Init
    BY DEF LInit
  <1> QED
    BY <1>1, MutexStep, LimiterInvariant, PTL DEF LSpec, Spec

\* A flow keeps its place in the mutex while it is pending in the throttle,
\* and leaves neither a place nor an entry of either queue behind.
THEOREM PlacesAreKept == LSpec => []PlacesAreHeld
  <1>1. LimiterInv => PlacesAreHeld
    <2> SUFFICES ASSUME LimiterInv, NEW f \in Flow
                 PROVE  /\ f \in Elements(pending) =>
                              f \in locked /\ (phase[f] = "run" \/ mode[f] # "ok")
                        /\ depth[f] = 0 /\ phase[f] = "run" =>
                              /\ ~iter[f]
                              /\ f \notin locked \cup Elements(queue)
                                            \cup Elements(pending)
      BY DEF PlacesAreHeld
    <2>1. f \in Elements(pending) => f \in locked /\ phase[f] = "run"
                                    /\ depth[f] >= 1
      BY DEF LimiterInv, ThrottleType, AheadAreInside, PendingHold
    <2>2. depth[f] = 0 /\ phase[f] = "run" =>
            ~iter[f] /\ f \notin locked \cup Elements(queue)
      <3>1. mode[f] \in {"ok", "fail", "cancel"} /\ PlacedAt(f)
        BY DEF LimiterInv, MutexInv, MutexType, Placed
      <3> QED
        BY <3>1 DEF PlacedAt, OkPlaced, FailPlaced, CancelPlaced, Absent, Pends, Holds
    <2> QED
      BY <2>1, <2>2
  <1> QED
    BY <1>1, LimiterInvariant, PTL

\* Never more than Max flows are inside of the limiter, and its mutex admits
\* them in strict order.
THEOREM LimiterExcludes == LSpec => []MutualExclusion /\ OrderedAdmission
  BY LimiterIsMutex, AtMostMaxInside, IsSemaphore, PTL

=============================================================================
