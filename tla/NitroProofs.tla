---------------------------- MODULE NitroProofs ----------------------------
(* Proofs about the fixed-buffer engine, NitroSteps, for buffers of any size *)
(* and any mix of user code that leaves one slot of the ring free: its ring  *)
(* is a tree of steps in every state.                                        *)
EXTENDS NitroSteps, FiniteSetTheorems, TLAPS

\* The ring as a tree of steps.
INSTANCE ListProofs WITH Node <- Slot

\* With all slots in use the end of the ring is where it begins: queue_end() and
\* is_sub_queue_empty() could not tell a full ring from an empty one.
Roomy == \A m \in Mixes : m.steps < MaxSteps

----------------------------------------------------------------------------
(* The ring of the members q as a list of slots, and what the tree needs of  *)
(* the slots; their marks are indices into the ring, here counted from its   *)
(* beginning.                                                                *)

\* The slot i places after b, and how many places s is after b.
Place(b, i) == (b + i) % MaxSteps
Distance(b, s) == (s - b) % MaxSteps

Offset(q, s) == Distance(q.begin, s)

Ring(q) == [i \in 1 .. q.size |-> Place(q.begin, i - 1)]

Marks(q) == [s \in Slot |->
                [parent |-> q.queue[s].parent, ran |-> q.queue[s].ran,
                 start |-> Offset(q, q.queue[s].start),
                 front |-> Offset(q, q.queue[s].front)]]

TreeOf(q, tip) == Tree(Ring(q), Marks(q), tip)

----------------------------------------------------------------------------
(* The inductive invariant that the ring is a tree.                          *)

Instance ==
    [queue : [Slot -> StepData], begin : Slot, size : 0 .. MaxSteps - 1,
     last : Slot \cup {None}, in_exec : BOOLEAN, handle : BOOLEAN, runs : Nat,
     timeouts : Seq([step : Slot, timer : Timer]), armed : SUBSET Timer,
     cancels : Seq([step : Slot, unlock : BOOLEAN]), allocs : Seq(Slot),
     used : SUBSET Ext, lost : SUBSET Ext, object : [Ext -> Object \cup {None}],
     err : {"", "Timeout", "Error", "break", "continue"}]

\* Only loops and polls are run again.
Repeaters(q) == \A s \in Slot : q.queue[s].repeat => q.queue[s].func \in {"loop", "await"}

\* The members of the instance, with room for what the steps still to run
\* need.
Syncs(q) == {s \in Slot : InQueue(q, s) /\ q.queue[s].func = "sync" /\ ~q.queue[s].ran}

Sound(q, m) ==
    /\ q \in Instance /\ Repeaters(q)
    /\ Len(q.timeouts) <= MaxTimeouts /\ Len(q.allocs) <= MaxStackAllocs
    /\ q.size + 3 * Cardinality(Syncs(q)) <= m.steps
    /\ Len(q.cancels) + Cardinality(Syncs(q)) <= MaxCancels

Others ==
    /\ held \in [Object -> Nat] /\ pending \in Object \cup {None}
    /\ request \in Slot \cup {None}
    /\ ns.handle => ns.runs > 0
    /\ sched \in BOOLEAN /\ burst \in 0 .. BurstSize /\ allow \in Mixes

\* Where the walks stand in the tree, with p for pc and c for cur.  cancel()
\* leaves the queue alone while it walks up: its tree is a part of the ring.
Part(q, n) == SubSeq(Ring(q), 1, n)

TreeThere(q, p, c) ==
    IF p = "cancel" THEN \E n \in 0 .. q.size : Tree(Part(q, n), Marks(q), q.last)
    ELSE TreeOf(q, IF p = "climb" THEN c ELSE q.last)

\* The step that a level points to.
Front(q, o) == FrontOf(Marks(q), o)
FrontStep(q, o) == q.queue[Ring(q)[Front(q, o) + 1]]

\* The walk up comes from a step that has run; what is called next has not run
\* yet, or repeats.
Climbing(q, p, c) ==
    p = "climb" => Front(q, c) < q.size /\ FrontStep(q, c).ran

NextReady(q, o) ==
    Front(q, o) < q.size => (FrontStep(q, o).ran => FrontStep(q, o).repeat)

Ready(q, p) == p \notin {"climb", "unwind", "cancel"} => NextReady(q, q.last)

Control(q, p, c) ==
    /\ p \in {"idle", "build", "exec", "handler", "climb", "unwind", "on_error",
              "cancel"}
    /\ c \in Slot \cup {None}
    /\ p \in {"exec", "handler"} => q.in_exec
    /\ p \in {"idle", "build", "cancel"} => ~q.in_exec
    /\ p = "build" => q.last = None
    /\ p = "handler" => q.last # None
    /\ p \in {"unwind", "on_error"} => c = q.last
    /\ p = "on_error" => c # None

Walk(q, p, c, m) ==
    /\ Sound(q, m) /\ TreeThere(q, p, c) /\ Climbing(q, p, c)
    /\ Ready(q, p) /\ Control(q, p, c)

TreeInv == Walk(ns, pc, cur, allow) /\ Others

----------------------------------------------------------------------------
(* The arithmetic of the ring                                               *)

\* Every place of the ring is a slot, and is found again.
LEMMA Places ==
    ASSUME NEW b \in Slot, NEW i \in 0 .. MaxSteps - 1
    PROVE  Place(b, i) \in Slot /\ Distance(b, Place(b, i)) = i
  <1>1. MaxSteps \in Nat \ {0} /\ b \in 0 .. MaxSteps - 1
    BY NitroAssumption DEF Slot
  <1>2. CASE b + i < MaxSteps
    <2>1. (b + i) % MaxSteps = b + i
      BY <1>1, <1>2
    <2>. QED
      BY <1>1, <1>2, <2>1 DEF Slot, Place, Distance
  <1>3. CASE b + i >= MaxSteps
    <2>1. (b + i) % MaxSteps = b + i - MaxSteps
      BY <1>1, <1>3
    <2>2. (b + i - MaxSteps - b) % MaxSteps = i
      BY <1>1
    <2>. QED
      BY <1>1, <1>3, <2>1, <2>2 DEF Slot, Place, Distance
  <1>. QED
    BY <1>1, <1>2, <1>3

\* Every slot has one place.
LEMMA Offsets ==
    ASSUME NEW b \in Slot, NEW s \in Slot
    PROVE  \E i \in 0 .. MaxSteps - 1 : Distance(b, s) = i /\ Place(b, i) = s
  <1>1. MaxSteps \in Nat \ {0} /\ b \in 0 .. MaxSteps - 1 /\ s \in 0 .. MaxSteps - 1
    BY NitroAssumption DEF Slot
  <1>2. CASE s >= b
    <2>1. (s - b) % MaxSteps = s - b
      BY <1>1, <1>2
    <2>2. (b + (s - b)) % MaxSteps = s
      BY <1>1
    <2>. QED
      BY <1>1, <1>2, <2>1, <2>2 DEF Place, Distance
  <1>3. CASE s < b
    <2>1. (s - b) % MaxSteps = s - b + MaxSteps
      BY <1>1, <1>3
    <2>2. (b + (s - b + MaxSteps)) % MaxSteps = s
      BY <1>1
    <2>. QED
      BY <1>1, <1>3, <2>1, <2>2 DEF Place, Distance
  <1>. QED
    BY <1>1, <1>2, <1>3

\* The slot after a place is at the next place.
LEMMA NextPlace ==
    ASSUME NEW b \in Slot, NEW i \in 0 .. MaxSteps - 1
    PROVE  (Place(b, i) + 1) % MaxSteps = Place(b, i + 1)
  <1>1. MaxSteps \in Nat \ {0} /\ b \in 0 .. MaxSteps - 1
    BY NitroAssumption DEF Slot
  <1>2. CASE b + i < MaxSteps
    <2>1. (b + i) % MaxSteps = b + i
      BY <1>1, <1>2
    <2>. QED
      BY <1>1, <2>1 DEF Place
  <1>3. CASE b + i >= MaxSteps
    <2>1. (b + i) % MaxSteps = b + i - MaxSteps
      BY <1>1, <1>3
    <2>2. b + i - MaxSteps + 1 < MaxSteps
      BY <1>1, <1>3
    <2>3. (b + i - MaxSteps + 1) % MaxSteps = b + i - MaxSteps + 1
      BY <1>1, <1>3, <2>2
    <2>4. (b + (i + 1)) % MaxSteps = b + (i + 1) - MaxSteps
      BY <1>1, <1>3, <2>2
    <2>. QED
      BY <1>1, <2>1, <2>3, <2>4 DEF Place
  <1>. QED
    BY <1>1, <1>2, <1>3

\* The same of any slot, as long as the ring does not close.
LEMMA NextOffset ==
    ASSUME NEW b \in Slot, NEW s \in Slot, Distance(b, s) + 1 < MaxSteps
    PROVE  (s + 1) % MaxSteps \in Slot
           /\ Distance(b, (s + 1) % MaxSteps) = Distance(b, s) + 1
  <1>1. PICK i \in 0 .. MaxSteps - 1 : Distance(b, s) = i /\ Place(b, i) = s
    BY Offsets
  <1>2. (s + 1) % MaxSteps = Place(b, i + 1)
    BY <1>1, NextPlace
  <1>3. i + 1 \in 0 .. MaxSteps - 1
    BY <1>1, NitroAssumption
  <1>4. Place(b, i + 1) \in Slot /\ Distance(b, Place(b, i + 1)) = i + 1
    BY <1>3, Places
  <1>. QED
    BY <1>1, <1>2, <1>4

\* What sub_queue_free() counts from a place of the ring to the end of its size
\* first places, and where its loop goes.
LEMMA Counted ==
    ASSUME NEW b \in Slot, NEW n \in 0 .. MaxSteps - 1, NEW k \in 0 .. n
    PROVE  /\ (Place(b, n) - Place(b, k)) % MaxSteps = n - k
           /\ (Place(b, k) - b) % MaxSteps = k
           /\ \A i \in 0 .. n - k : (Place(b, k) + i) % MaxSteps = Place(b, k + i)
  <1>1. MaxSteps \in Nat \ {0} /\ b \in 0 .. MaxSteps - 1 /\ k \in 0 .. MaxSteps - 1
    BY NitroAssumption DEF Slot
  <1>2. \A i \in 0 .. MaxSteps - 1 : \/ b + i < MaxSteps /\ Place(b, i) = b + i
                                     \/ b + i >= MaxSteps /\ Place(b, i) = b + i - MaxSteps
    BY <1>1 DEF Place
  <1>3. (Place(b, n) - Place(b, k)) % MaxSteps = n - k
    <2>1. CASE Place(b, n) - Place(b, k) = n - k
      BY <1>1, <2>1
    <2>2. CASE Place(b, n) - Place(b, k) = n - k - MaxSteps
      BY <1>1, <2>2
    <2>. QED
      BY <1>1, <1>2, <2>1, <2>2
  <1>4. (Place(b, k) - b) % MaxSteps = k
    BY <1>1, Places DEF Distance
  <1>5. ASSUME NEW i \in 0 .. n - k
        PROVE  (Place(b, k) + i) % MaxSteps = Place(b, k + i)
    <2>1. k + i \in 0 .. MaxSteps - 1
      BY <1>1
    <2>2. CASE Place(b, k) = b + k
      BY <1>1, <2>2 DEF Place
    <2>3. CASE Place(b, k) = b + k - MaxSteps /\ b + k >= MaxSteps
      <3>1. (b + k - MaxSteps + i) % MaxSteps = b + k - MaxSteps + i
        BY <1>1, <2>1, <2>3
      <3>2. Place(b, k + i) = b + (k + i) - MaxSteps
        BY <1>1, <1>2, <2>1, <2>3
      <3>. QED
        BY <1>1, <2>3, <3>1, <3>2
    <2>. QED
      BY <1>1, <1>2, <2>2, <2>3
  <1>. QED
    BY <1>3, <1>4, <1>5

----------------------------------------------------------------------------
(* The ring as a list                                                       *)

\* What NitroAssumption says, in parts.
LEMMA Bounds ==
    /\ MaxSteps \in Nat \ {0} /\ MaxTimeouts \in Nat /\ MaxCancels \in Nat
    /\ MaxStackAllocs \in Nat /\ BurstSize \in Nat /\ MaxExtended \in Nat \ {0}
    /\ \A m \in Mixes : m.steps \in 1 .. MaxSteps /\ m.steps \in Nat
                         /\ m.may \subseteq Features /\ m.extended \in 1 .. MaxExtended
  <1>1. /\ MaxSteps \in Nat \ {0} /\ MaxTimeouts \in Nat /\ MaxCancels \in Nat
        /\ MaxStackAllocs \in Nat /\ BurstSize \in Nat /\ MaxExtended \in Nat \ {0}
    BY NitroAssumption
  <1>2. \A m \in Mixes : m \in [may : SUBSET Features, steps : 1 .. MaxSteps,
                                extended : 1 .. MaxExtended]
    BY NitroAssumption
  <1>. QED
    BY <1>1, <1>2

\* None is not a slot, and there is a slot.
LEMMA NoneIsNoSlot == None \notin Slot /\ 0 \in Slot
  BY NitroAssumption DEF Slot

\* The types of the members.
LEMMA InstanceTypes ==
    ASSUME NEW q \in Instance
    PROVE  /\ q.queue \in [Slot -> StepData] /\ q.begin \in Slot
           /\ q.size \in 0 .. MaxSteps - 1 /\ q.last \in Slot \cup {None}
           /\ q.in_exec \in BOOLEAN /\ q.handle \in BOOLEAN /\ q.runs \in Nat
           /\ q.timeouts \in Seq([step : Slot, timer : Timer]) /\ q.armed \in SUBSET Timer
           /\ q.cancels \in Seq([step : Slot, unlock : BOOLEAN]) /\ q.allocs \in Seq(Slot)
           /\ q.used \in SUBSET Ext /\ q.lost \in SUBSET Ext
           /\ q.object \in [Ext -> Object \cup {None}]
           /\ q.err \in {"", "Timeout", "Error", "break", "continue"}
           /\ q.size \in Nat /\ Len(q.timeouts) \in Nat /\ Len(q.cancels) \in Nat
           /\ Len(q.allocs) \in Nat
  <1>1. /\ q.queue \in [Slot -> StepData] /\ q.begin \in Slot
        /\ q.size \in 0 .. MaxSteps - 1 /\ q.last \in Slot \cup {None}
        /\ q.in_exec \in BOOLEAN /\ q.handle \in BOOLEAN /\ q.runs \in Nat
        /\ q.timeouts \in Seq([step : Slot, timer : Timer]) /\ q.armed \in SUBSET Timer
        /\ q.cancels \in Seq([step : Slot, unlock : BOOLEAN]) /\ q.allocs \in Seq(Slot)
        /\ q.used \in SUBSET Ext /\ q.lost \in SUBSET Ext
        /\ q.object \in [Ext -> Object \cup {None}]
        /\ q.err \in {"", "Timeout", "Error", "break", "continue"}
    BY DEF Instance
  <1>2. q.size \in Nat
    <2>1. q.size \in 0 .. MaxSteps - 1
      BY <1>1
    <2>. QED
      BY <2>1, NitroAssumption
  <1>3. Len(q.timeouts) \in Nat /\ Len(q.cancels) \in Nat /\ Len(q.allocs) \in Nat
    <2>1. \A S : \A s \in Seq(S) : Len(s) \in Nat
      OBVIOUS
    <2>. QED
      BY <1>1, <2>1, Zenon
  <1>. QED
    BY <1>1, <1>2, <1>3, Zenon

\* The ring lists different slots, each at its offset.
LEMMA RingList ==
    ASSUME NEW q \in Instance
    PROVE  /\ Ring(q) \in Seq(Slot) /\ Len(Ring(q)) = q.size
           /\ DOMAIN Ring(q) = 1 .. q.size /\ Distinct(Ring(q))
           /\ \A i \in 1 .. q.size : /\ Ring(q)[i] \in Slot /\ Offset(q, Ring(q)[i]) = i - 1
                                     /\ Ring(q)[i] = Place(q.begin, i - 1)
  <1>1. q.begin \in Slot /\ q.size \in 0 .. MaxSteps - 1 /\ MaxSteps \in Nat
    BY InstanceTypes, NitroAssumption
  <1>2. \A i \in 1 .. q.size : /\ Place(q.begin, i - 1) \in Slot
                               /\ Offset(q, Place(q.begin, i - 1)) = i - 1
    <2> SUFFICES ASSUME NEW i \in 1 .. q.size
                 PROVE  /\ Place(q.begin, i - 1) \in Slot
                        /\ Offset(q, Place(q.begin, i - 1)) = i - 1
      OBVIOUS
    <2>1. i - 1 \in 0 .. MaxSteps - 1
      BY <1>1
    <2>. QED
      BY <1>1, <2>1, Places DEF Offset
  <1>3. \A i \in 1 .. q.size : /\ Ring(q)[i] \in Slot /\ Offset(q, Ring(q)[i]) = i - 1
                               /\ Ring(q)[i] = Place(q.begin, i - 1)
    BY <1>2 DEF Ring
  <1>4. Ring(q) \in [1 .. q.size -> Slot]
    BY <1>2 DEF Ring
  <1>5. Ring(q) \in Seq(Slot) /\ Len(Ring(q)) = q.size /\ DOMAIN Ring(q) = 1 .. q.size
    BY <1>1, <1>4
  <1>6. Distinct(Ring(q))
    <2> SUFFICES ASSUME NEW i \in 1 .. q.size, NEW j \in 1 .. q.size,
                        Ring(q)[i] = Ring(q)[j]
                 PROVE  i = j
      BY <1>5 DEF Distinct
    <2>1. i - 1 = j - 1
      BY <1>3
    <2>. QED
      BY <1>1, <2>1
  <1>. QED
    BY <1>3, <1>5, <1>6

\* A slot is in use when its offset is within the size; then the ring has it
\* there.
LEMMA SlotInRing ==
    ASSUME NEW q \in Instance, NEW s \in Slot
    PROVE  /\ Offset(q, s) \in 0 .. MaxSteps - 1
           /\ InQueue(q, s) <=> Offset(q, s) < q.size
           /\ Offset(q, s) < q.size => /\ Offset(q, s) + 1 \in 1 .. q.size
                                       /\ Ring(q)[Offset(q, s) + 1] = s
           /\ InQueue(q, s) <=> s \in Elements(Ring(q))
  <1>1. q.begin \in Slot /\ q.size \in 0 .. MaxSteps - 1 /\ MaxSteps \in Nat
    BY InstanceTypes, NitroAssumption
  <1>2. PICK i \in 0 .. MaxSteps - 1 : Offset(q, s) = i /\ Place(q.begin, i) = s
    BY <1>1, Offsets DEF Offset
  <1>3. InQueue(q, s) <=> i < q.size
    BY <1>2 DEF InQueue, Offset, Distance
  <1>4. i < q.size => i + 1 \in 1 .. q.size /\ Ring(q)[i + 1] = s
    <2> SUFFICES ASSUME i < q.size PROVE i + 1 \in 1 .. q.size /\ Ring(q)[i + 1] = s
      OBVIOUS
    <2>1. i + 1 \in 1 .. q.size /\ (i + 1) - 1 = i
      BY <1>1
    <2>. QED
      BY <1>2, <2>1, RingList
  <1>5. s \in Elements(Ring(q)) => i < q.size
    <2> SUFFICES ASSUME NEW j \in 1 .. q.size, s = Ring(q)[j] PROVE i < q.size
      BY RingList DEF Elements
    <2>1. i = j - 1
      BY <1>2, RingList
    <2>. QED
      BY <1>1, <2>1
  <1>6. i < q.size => s \in Elements(Ring(q))
    BY <1>4, RingList DEF Elements
  <1>. QED
    BY <1>1, <1>2, <1>3, <1>4, <1>5, <1>6

\* The end of the ring is a free slot.
LEMMA RingEnd ==
    ASSUME NEW q \in Instance
    PROVE  /\ QueueEnd(q) \in Slot /\ QueueEnd(q) = Place(q.begin, q.size)
           /\ Offset(q, QueueEnd(q)) = q.size /\ ~InQueue(q, QueueEnd(q))
           /\ \A s \in Slot : Offset(q, s) = q.size <=> s = QueueEnd(q)
  <1>1. q.begin \in Slot /\ q.size \in 0 .. MaxSteps - 1 /\ MaxSteps \in Nat
    BY InstanceTypes, NitroAssumption
  <1>2. QueueEnd(q) = Place(q.begin, q.size)
    BY DEF QueueEnd, Place
  <1>3. QueueEnd(q) \in Slot /\ Offset(q, QueueEnd(q)) = q.size
    BY <1>1, <1>2, Places DEF Offset
  <1>4. ~InQueue(q, QueueEnd(q))
    BY <1>1, <1>3, SlotInRing
  <1>5. ASSUME NEW s \in Slot, Offset(q, s) = q.size
        PROVE  s = QueueEnd(q)
    BY <1>1, <1>2, <1>5, Offsets DEF Offset
  <1>. QED
    BY <1>2, <1>3, <1>4, <1>5

\* The marks are offsets; an empty sub-queue is one whose front is the size.
LEMMA MarksOf ==
    ASSUME NEW q \in Instance
    PROVE  /\ \A s \in Slot : /\ Marks(q)[s].parent = q.queue[s].parent
                              /\ Marks(q)[s].ran = q.queue[s].ran
                              /\ Marks(q)[s].start = Offset(q, q.queue[s].start)
                              /\ Marks(q)[s].front = Offset(q, q.queue[s].front)
                              /\ q.queue[s] \in StepData
                              /\ SubEmpty(q, s) <=> Marks(q)[s].front = q.size
           /\ \A tip \in Slot \cup {None} : Typed(Ring(q), Marks(q), tip)
  <1>1. q.queue \in [Slot -> StepData] /\ MaxSteps \in Nat
    BY InstanceTypes, NitroAssumption
  <1>2. \A s \in Slot : /\ q.queue[s] \in StepData /\ q.queue[s].parent \in Slot \cup {None}
                        /\ q.queue[s].start \in Slot /\ q.queue[s].front \in Slot
                        /\ q.queue[s].ran \in BOOLEAN
    BY <1>1 DEF StepData
  <1>3. \A s \in Slot : /\ Marks(q)[s].parent = q.queue[s].parent
                        /\ Marks(q)[s].ran = q.queue[s].ran
                        /\ Marks(q)[s].start = Offset(q, q.queue[s].start)
                        /\ Marks(q)[s].front = Offset(q, q.queue[s].front)
    BY DEF Marks
  <1>4. \A s \in Slot : SubEmpty(q, s) <=> Marks(q)[s].front = q.size
    BY <1>2, <1>3, RingEnd DEF SubEmpty
  <1>5. \A s \in Slot : Marks(q)[s].start \in Nat /\ Marks(q)[s].front \in Nat
    BY <1>1, <1>2, <1>3, SlotInRing
  <1>6. \A tip \in Slot \cup {None} : Typed(Ring(q), Marks(q), tip)
    BY <1>2, <1>3, <1>5, NoneIsNoSlot, RingList DEF Typed
  <1>. QED
    BY <1>2, <1>3, <1>4, <1>6

----------------------------------------------------------------------------
(* What the methods that release resources change                           *)

\* The members, and for every slot the fields, that have nothing to do with
\* resources.
SameMembers(q, r) ==
    /\ r.begin = q.begin /\ r.size = q.size /\ r.last = q.last /\ r.err = q.err
    /\ r.in_exec = q.in_exec /\ r.handle = q.handle /\ r.runs = q.runs
    /\ r.object = q.object /\ r.lost = q.lost

SameSteps(q, r) ==
    \A x \in Slot :
        LET old == q.queue[x]
            new == r.queue[x]
        IN  /\ new.func = old.func /\ new.on_error = old.on_error
            /\ new.parent = old.parent /\ new.repeat = old.repeat
            /\ new.start = old.start /\ new.front = old.front
            /\ new.ext = old.ext /\ new.ran = old.ran /\ new.asked = old.asked

\* The last entries of a stack are dropped.
LEMMA Dropped ==
    ASSUME NEW S, NEW s \in Seq(S), NEW n \in Nat
    PROVE  /\ Drop(s, n) \in Seq(S) /\ Len(Drop(s, n)) <= Len(s)
           /\ Len(Drop(s, n)) = IF n <= Len(s) THEN Len(s) - n ELSE 0
           /\ DOMAIN Drop(s, n) = 1 .. Len(Drop(s, n))
           /\ \A i \in 1 .. Len(Drop(s, n)) : Drop(s, n)[i] = s[i]
           /\ n = 0 => Drop(s, n) = s
  <1>1. Len(s) \in Nat
    OBVIOUS
  <1>2. CASE n <= Len(s)
    <2>1. Len(s) - n \in 0 .. Len(s)
      BY <1>1, <1>2
    <2>. QED
      BY <1>1, <2>1 DEF Drop
  <1>3. CASE n > Len(s)
    <2>1. Drop(s, n) = <<>>
      BY <1>1, <1>3 DEF Drop
    <2>. QED
      BY <1>1, <1>3, <2>1
  <1>. QED
    BY <1>1, <1>2, <1>3

\* pop_timeout()
LEMMA TimeoutPopped ==
    ASSUME NEW q \in Instance, NEW s \in Slot
    PROVE  LET r == PopTimeout(q, s) IN
           /\ r \in Instance /\ SameMembers(q, r) /\ SameSteps(q, r)
           /\ \A x \in Slot : /\ r.queue[x].timeout = (q.queue[x].timeout /\ x # s)
                              /\ r.queue[x].cancel = q.queue[x].cancel
                              /\ r.queue[x].wait = q.queue[x].wait
                              /\ r.queue[x].extended = q.queue[x].extended
                              /\ r.queue[x].allocs = q.queue[x].allocs
           /\ r.timeouts = Drop(q.timeouts, IF q.queue[s].timeout THEN 1 ELSE 0)
           /\ r.armed = IF q.queue[s].timeout THEN q.armed \ {Top(q.timeouts).timer}
                                             ELSE q.armed
           /\ r.cancels = q.cancels /\ r.allocs = q.allocs /\ r.used = q.used
  <1>1. /\ q.queue \in [Slot -> StepData]
        /\ q.timeouts \in Seq([step : Slot, timer : Timer])
        /\ q.queue[s] \in StepData /\ q.queue[s].timeout \in BOOLEAN
    BY InstanceTypes DEF StepData
  <1>2. Drop(q.timeouts, 0) = q.timeouts
        /\ Drop(q.timeouts, 1) \in Seq([step : Slot, timer : Timer])
    BY <1>1, Dropped
  <1>3. CASE ~q.queue[s].timeout
    <2>1. PopTimeout(q, s) = q
      BY <1>3 DEF PopTimeout
    <2>2. \A x \in Slot : q.queue[x].timeout = (q.queue[x].timeout /\ x # s)
      BY <1>1, <1>3 DEF StepData
    <2>. QED
      BY <1>2, <1>3, <2>1, <2>2 DEF SameMembers, SameSteps
  <1>4. CASE q.queue[s].timeout
    <2> DEFINE r == PopTimeout(q, s)
               step == [q.queue[s] EXCEPT !.timeout = FALSE]
    <2>1. r = [q EXCEPT !.armed = @ \ {Top(q.timeouts).timer},
                        !.timeouts = Drop(@, 1), !.queue[s].timeout = FALSE]
      BY <1>4 DEF PopTimeout
    <2>2. step \in StepData
      BY <1>1 DEF StepData
    <2>3. r.queue = [q.queue EXCEPT ![s] = step]
      BY <2>1 DEF Instance
    <2>4. r.queue \in [Slot -> StepData] /\ r.queue[s] = step
          /\ \A x \in Slot \ {s} : r.queue[x] = q.queue[x]
      BY <1>1, <2>2, <2>3
    <2>5. /\ SameMembers(q, r) /\ r.timeouts = Drop(q.timeouts, 1)
          /\ r.armed = q.armed \ {Top(q.timeouts).timer}
          /\ r.cancels = q.cancels /\ r.allocs = q.allocs /\ r.used = q.used
      BY <2>1 DEF Instance, SameMembers
    <2>6. r \in Instance
      BY <1>2, <2>1, <2>4, <2>5 DEF Instance
    <2> HIDE DEF r
    <2>7. /\ step.timeout = FALSE /\ step.cancel = q.queue[s].cancel
          /\ step.wait = q.queue[s].wait /\ step.extended = q.queue[s].extended
          /\ step.allocs = q.queue[s].allocs
      BY <1>1 DEF StepData
    <2>8. /\ step.func = q.queue[s].func /\ step.on_error = q.queue[s].on_error
          /\ step.parent = q.queue[s].parent /\ step.repeat = q.queue[s].repeat
          /\ step.start = q.queue[s].start /\ step.front = q.queue[s].front
          /\ step.ext = q.queue[s].ext /\ step.ran = q.queue[s].ran
          /\ step.asked = q.queue[s].asked
      BY <1>1 DEF StepData
    <2> HIDE DEF step
    <2>9. SameSteps(q, r)
      BY <2>4, <2>8 DEF SameSteps
    <2>10. \A x \in Slot : q.queue[x].timeout \in BOOLEAN
      BY <1>1 DEF StepData
    <2>11. \A x \in Slot : /\ r.queue[x].timeout = (q.queue[x].timeout /\ x # s)
                           /\ r.queue[x].cancel = q.queue[x].cancel
                           /\ r.queue[x].wait = q.queue[x].wait
                           /\ r.queue[x].extended = q.queue[x].extended
                           /\ r.queue[x].allocs = q.queue[x].allocs
      BY <2>4, <2>7, <2>10
    <2>. QED
      BY <1>4, <2>5, <2>6, <2>9, <2>11 DEF r
  <1>. QED
    BY <1>1, <1>3, <1>4

\* pop_cancel()
LEMMA CancelPopped ==
    ASSUME NEW q \in Instance, NEW s \in Slot
    PROVE  LET r == PopCancel(q, s) IN
           /\ r \in Instance /\ SameMembers(q, r) /\ SameSteps(q, r)
           /\ \A x \in Slot : /\ r.queue[x].cancel = (q.queue[x].cancel /\ x # s)
                              /\ r.queue[x].timeout = q.queue[x].timeout
                              /\ r.queue[x].wait = q.queue[x].wait
                              /\ r.queue[x].extended = q.queue[x].extended
                              /\ r.queue[x].allocs = q.queue[x].allocs
           /\ r.cancels = Drop(q.cancels, IF q.queue[s].cancel THEN 1 ELSE 0)
           /\ r.timeouts = q.timeouts /\ r.armed = q.armed
           /\ r.allocs = q.allocs /\ r.used = q.used
  <1>1. /\ q.queue \in [Slot -> StepData]
        /\ q.cancels \in Seq([step : Slot, unlock : BOOLEAN])
        /\ q.queue[s] \in StepData /\ q.queue[s].cancel \in BOOLEAN
    BY InstanceTypes DEF StepData
  <1>2. Drop(q.cancels, 0) = q.cancels
        /\ Drop(q.cancels, 1) \in Seq([step : Slot, unlock : BOOLEAN])
    BY <1>1, Dropped
  <1>3. CASE ~q.queue[s].cancel
    <2>1. PopCancel(q, s) = q
      BY <1>3 DEF PopCancel
    <2>2. \A x \in Slot : q.queue[x].cancel = (q.queue[x].cancel /\ x # s)
      BY <1>1, <1>3 DEF StepData
    <2>. QED
      BY <1>2, <1>3, <2>1, <2>2 DEF SameMembers, SameSteps
  <1>4. CASE q.queue[s].cancel
    <2> DEFINE r == PopCancel(q, s)
               step == [q.queue[s] EXCEPT !.cancel = FALSE]
    <2>1. r = [q EXCEPT !.cancels = Drop(@, 1), !.queue[s].cancel = FALSE]
      BY <1>4 DEF PopCancel
    <2>2. step \in StepData
      BY <1>1 DEF StepData
    <2>3. r.queue = [q.queue EXCEPT ![s] = step]
      BY <2>1 DEF Instance
    <2>4. r.queue \in [Slot -> StepData] /\ r.queue[s] = step
          /\ \A x \in Slot \ {s} : r.queue[x] = q.queue[x]
      BY <1>1, <2>2, <2>3
    <2>5. /\ SameMembers(q, r) /\ r.cancels = Drop(q.cancels, 1)
          /\ r.timeouts = q.timeouts /\ r.armed = q.armed
          /\ r.allocs = q.allocs /\ r.used = q.used
      BY <2>1 DEF Instance, SameMembers
    <2>6. r \in Instance
      BY <1>2, <2>1, <2>4, <2>5 DEF Instance
    <2> HIDE DEF r
    <2>7. /\ step.cancel = FALSE /\ step.timeout = q.queue[s].timeout
          /\ step.wait = q.queue[s].wait /\ step.extended = q.queue[s].extended
          /\ step.allocs = q.queue[s].allocs
      BY <1>1 DEF StepData
    <2>8. /\ step.func = q.queue[s].func /\ step.on_error = q.queue[s].on_error
          /\ step.parent = q.queue[s].parent /\ step.repeat = q.queue[s].repeat
          /\ step.start = q.queue[s].start /\ step.front = q.queue[s].front
          /\ step.ext = q.queue[s].ext /\ step.ran = q.queue[s].ran
          /\ step.asked = q.queue[s].asked
      BY <1>1 DEF StepData
    <2> HIDE DEF step
    <2>9. SameSteps(q, r)
      BY <2>4, <2>8 DEF SameSteps
    <2>10. \A x \in Slot : q.queue[x].cancel \in BOOLEAN
      BY <1>1 DEF StepData
    <2>11. \A x \in Slot : /\ r.queue[x].cancel = (q.queue[x].cancel /\ x # s)
                           /\ r.queue[x].timeout = q.queue[x].timeout
                           /\ r.queue[x].wait = q.queue[x].wait
                           /\ r.queue[x].extended = q.queue[x].extended
                           /\ r.queue[x].allocs = q.queue[x].allocs
      BY <2>4, <2>7, <2>10
    <2>. QED
      BY <1>4, <2>5, <2>6, <2>9, <2>11 DEF r
  <1>. QED
    BY <1>1, <1>3, <1>4

\* What a step gives back when it ends, fails or is canceled.
Freed(q, r, s) ==
    /\ r \in Instance /\ SameMembers(q, r) /\ SameSteps(q, r)
    /\ \A x \in Slot :
          /\ r.queue[x].timeout = (q.queue[x].timeout /\ x # s)
          /\ r.queue[x].cancel = (q.queue[x].cancel /\ x # s)
          /\ r.queue[x].wait = (q.queue[x].wait /\ x # s)
          /\ r.queue[x].extended = (q.queue[x].extended /\ x # s)
          /\ r.queue[x].allocs = IF x = s THEN 0 ELSE q.queue[x].allocs
    /\ r.timeouts = Drop(q.timeouts, IF q.queue[s].timeout THEN 1 ELSE 0)
    /\ r.armed = IF q.queue[s].timeout THEN q.armed \ {Top(q.timeouts).timer}
                                       ELSE q.armed
    /\ r.cancels = Drop(q.cancels, IF q.queue[s].cancel THEN 1 ELSE 0)
    /\ r.allocs = Drop(q.allocs, q.queue[s].allocs)
    /\ r.used = q.used \ (IF q.queue[s].extended THEN {q.queue[s].ext} ELSE {})

\* free_step()
LEMMA StepFreed ==
    ASSUME NEW q \in Instance, NEW s \in Slot
    PROVE  Freed(q, FreeStep(q, s), s)
  <1> DEFINE t == PopTimeout(q, s)
             p == PopCancel(t, s)
             r == FreeStep(q, s)
             step == [p.queue[s] EXCEPT !.wait = FALSE, !.extended = FALSE, !.allocs = 0]
  <1>1. /\ t \in Instance /\ SameMembers(q, t) /\ SameSteps(q, t)
        /\ \A x \in Slot : /\ t.queue[x].timeout = (q.queue[x].timeout /\ x # s)
                           /\ t.queue[x].cancel = q.queue[x].cancel
                           /\ t.queue[x].wait = q.queue[x].wait
                           /\ t.queue[x].extended = q.queue[x].extended
                           /\ t.queue[x].allocs = q.queue[x].allocs
        /\ t.timeouts = Drop(q.timeouts, IF q.queue[s].timeout THEN 1 ELSE 0)
        /\ t.armed = IF q.queue[s].timeout THEN q.armed \ {Top(q.timeouts).timer}
                                           ELSE q.armed
        /\ t.cancels = q.cancels /\ t.allocs = q.allocs /\ t.used = q.used
    BY TimeoutPopped
  <1> HIDE DEF t
  <1>2. /\ p \in Instance /\ SameMembers(t, p) /\ SameSteps(t, p)
        /\ \A x \in Slot : /\ p.queue[x].cancel = (t.queue[x].cancel /\ x # s)
                           /\ p.queue[x].timeout = t.queue[x].timeout
                           /\ p.queue[x].wait = t.queue[x].wait
                           /\ p.queue[x].extended = t.queue[x].extended
                           /\ p.queue[x].allocs = t.queue[x].allocs
        /\ p.cancels = Drop(t.cancels, IF t.queue[s].cancel THEN 1 ELSE 0)
        /\ p.timeouts = t.timeouts /\ p.armed = t.armed
        /\ p.allocs = t.allocs /\ p.used = t.used
    BY <1>1, CancelPopped
  <1>3. r = [p EXCEPT !.allocs = Drop(@, q.queue[s].allocs),
                      !.used = @ \ (IF q.queue[s].extended THEN {q.queue[s].ext} ELSE {}),
                      !.queue[s] = step]
    BY DEF FreeStep, t
  <1> HIDE DEF p, r
  <1>4. SameMembers(q, p) /\ SameSteps(q, p)
    BY <1>1, <1>2 DEF SameMembers, SameSteps
  <1>5. /\ p.queue \in [Slot -> StepData] /\ p.queue[s] \in StepData
        /\ p.allocs \in Seq(Slot) /\ q.queue[s].allocs \in Nat /\ p.used \in SUBSET Ext
    <2>1. q.queue[s] \in StepData
      BY InstanceTypes
    <2>. QED
      BY <1>2, <2>1, InstanceTypes DEF StepData
  <1>6. Drop(p.allocs, q.queue[s].allocs) \in Seq(Slot)
    BY <1>5, Dropped
  <1>7. step \in StepData
    BY <1>5 DEF StepData
  <1>8. /\ step.wait = FALSE /\ step.extended = FALSE /\ step.allocs = 0
        /\ step.timeout = p.queue[s].timeout /\ step.cancel = p.queue[s].cancel
    BY <1>5 DEF StepData
  <1>9. /\ step.func = p.queue[s].func /\ step.on_error = p.queue[s].on_error
        /\ step.parent = p.queue[s].parent /\ step.repeat = p.queue[s].repeat
        /\ step.start = p.queue[s].start /\ step.front = p.queue[s].front
        /\ step.ext = p.queue[s].ext /\ step.ran = p.queue[s].ran
        /\ step.asked = p.queue[s].asked
    BY <1>5 DEF StepData
  <1> HIDE DEF step
  <1>10. /\ r.queue = [p.queue EXCEPT ![s] = step] /\ SameMembers(p, r)
         /\ r.allocs = Drop(p.allocs, q.queue[s].allocs)
         /\ r.used = p.used \ (IF q.queue[s].extended THEN {q.queue[s].ext} ELSE {})
         /\ r.timeouts = p.timeouts /\ r.armed = p.armed /\ r.cancels = p.cancels
    BY <1>2, <1>3 DEF Instance, SameMembers
  <1>11. r.queue \in [Slot -> StepData] /\ r.queue[s] = step
         /\ \A x \in Slot \ {s} : r.queue[x] = p.queue[x]
    BY <1>5, <1>7, <1>10
  <1>12. r \in Instance
    BY <1>2, <1>3, <1>5, <1>6, <1>10, <1>11 DEF Instance
  <1>13. SameMembers(q, r)
    BY <1>4, <1>10 DEF SameMembers
  <1>14. SameSteps(q, r)
    BY <1>4, <1>9, <1>11 DEF SameSteps
  <1>15. ASSUME NEW x \in Slot
         PROVE  /\ r.queue[x].timeout = (q.queue[x].timeout /\ x # s)
                /\ r.queue[x].cancel = (q.queue[x].cancel /\ x # s)
                /\ r.queue[x].wait = (q.queue[x].wait /\ x # s)
                /\ r.queue[x].extended = (q.queue[x].extended /\ x # s)
                /\ r.queue[x].allocs = IF x = s THEN 0 ELSE q.queue[x].allocs
    <2>1. CASE x = s
      BY <1>1, <1>2, <1>8, <1>11, <2>1
    <2>2. CASE x # s
      <3>1. r.queue[x] = p.queue[x]
        BY <1>11, <2>2
      <3>2. q.queue[x].wait \in BOOLEAN /\ q.queue[x].extended \in BOOLEAN
        BY InstanceTypes DEF StepData
      <3>. QED
        BY <1>1, <1>2, <2>2, <3>1, <3>2
    <2>. QED
      BY <2>1, <2>2
  <1>16. /\ r.timeouts = Drop(q.timeouts, IF q.queue[s].timeout THEN 1 ELSE 0)
         /\ r.armed = IF q.queue[s].timeout THEN q.armed \ {Top(q.timeouts).timer}
                                            ELSE q.armed
         /\ r.cancels = Drop(q.cancels, IF q.queue[s].cancel THEN 1 ELSE 0)
         /\ r.allocs = Drop(q.allocs, q.queue[s].allocs)
         /\ r.used = q.used \ (IF q.queue[s].extended THEN {q.queue[s].ext} ELSE {})
    BY <1>1, <1>2, <1>10
  <1>. QED
    BY <1>12, <1>13, <1>14, <1>15, <1>16 DEF Freed, r

----------------------------------------------------------------------------
(* Changes that leave the tree alone                                        *)

SameTree(q, r) ==
    /\ r.begin = q.begin /\ r.size = q.size
    /\ \A x \in Slot : /\ r.queue[x].parent = q.queue[x].parent
                       /\ r.queue[x].start = q.queue[x].start
                       /\ r.queue[x].front = q.queue[x].front
                       /\ r.queue[x].ran = q.queue[x].ran

\* With the same tree, the ring, its end and what is in it stay the same.
LEMMA TreeStays ==
    ASSUME NEW q \in Instance, NEW r \in Instance, SameTree(q, r)
    PROVE  /\ Ring(r) = Ring(q) /\ Marks(r) = Marks(q) /\ QueueEnd(r) = QueueEnd(q)
           /\ \A x \in Slot : /\ Offset(r, x) = Offset(q, x)
                              /\ InQueue(r, x) <=> InQueue(q, x)
                              /\ SubEmpty(r, x) <=> SubEmpty(q, x)
  <1>1. r.begin = q.begin /\ r.size = q.size
    BY DEF SameTree
  <1>2. Ring(r) = Ring(q) /\ QueueEnd(r) = QueueEnd(q)
    BY <1>1 DEF Ring, QueueEnd
  <1>3. \A x \in Slot : Offset(r, x) = Offset(q, x) /\ (InQueue(r, x) <=> InQueue(q, x))
    BY <1>1 DEF Offset, InQueue
  <1>4. \A x \in Slot : SubEmpty(r, x) <=> SubEmpty(q, x)
    BY <1>2 DEF SubEmpty, SameTree
  <1>5. \A x \in Slot : /\ Offset(r, r.queue[x].start) = Offset(q, q.queue[x].start)
                        /\ Offset(r, r.queue[x].front) = Offset(q, q.queue[x].front)
    BY <1>1 DEF Offset, SameTree
  <1>6. Marks(r) = Marks(q)
    BY <1>5 DEF Marks, SameTree
  <1>. QED
    BY <1>2, <1>3, <1>4, <1>6

\* The tree is a matter of the members and the steps named here.
LEMMA SameStepsTree ==
    ASSUME NEW q, NEW r, SameMembers(q, r), SameSteps(q, r)
    PROVE  SameTree(q, r)
  BY DEF SameMembers, SameSteps, SameTree

\* The slots of the ring are finitely many.
LEMMA SlotsFinite == IsFiniteSet(Slot)
  <1>1. 0 \in Int /\ MaxSteps - 1 \in Int
    BY NitroAssumption
  <1>. QED
    BY <1>1, FS_Interval DEF Slot

\* With fewer steps, entries and steps to run there is room as before.
LEMMA SoundLess ==
    ASSUME NEW q \in Instance, NEW r \in Instance, NEW m \in Mixes, Sound(q, m),
           Repeaters(r), r.size <= q.size, Len(r.timeouts) <= Len(q.timeouts),
           Len(r.cancels) <= Len(q.cancels), Len(r.allocs) <= Len(q.allocs),
           Syncs(r) \subseteq Syncs(q)
    PROVE  Sound(r, m)
  <1>1. IsFiniteSet(Syncs(q)) /\ IsFiniteSet(Syncs(r))
    <2>1. Syncs(q) \subseteq Slot /\ Syncs(r) \subseteq Slot
      BY DEF Syncs
    <2>. QED
      BY <2>1, SlotsFinite, FS_Subset
  <1>2. /\ Cardinality(Syncs(q)) \in Nat /\ Cardinality(Syncs(r)) \in Nat
        /\ Cardinality(Syncs(r)) <= Cardinality(Syncs(q))
    BY <1>1, FS_CardinalityType, FS_Subset
  <1>3. /\ q.size \in Nat /\ Len(q.timeouts) \in Nat /\ Len(q.cancels) \in Nat
        /\ Len(q.allocs) \in Nat
    BY InstanceTypes
  <1>4. /\ r.size \in Nat /\ Len(r.timeouts) \in Nat /\ Len(r.cancels) \in Nat
        /\ Len(r.allocs) \in Nat
    BY InstanceTypes
  <1>5. MaxTimeouts \in Nat /\ MaxCancels \in Nat /\ MaxStackAllocs \in Nat
    BY Bounds
  <1>9. m.steps \in Nat
    BY Bounds
  <1>6. r.size + 3 * Cardinality(Syncs(r)) <= m.steps
    BY <1>2, <1>3, <1>4, <1>9, SMTT(40) DEF Sound
  <1>7. Len(r.cancels) + Cardinality(Syncs(r)) <= MaxCancels
    BY <1>2, <1>3, <1>4, <1>5, SMTT(60) DEF Sound
  <1>8. Len(r.timeouts) <= MaxTimeouts /\ Len(r.allocs) <= MaxStackAllocs
    BY <1>3, <1>4, <1>5, SMTT(40) DEF Sound
  <1>. QED
    BY <1>6, <1>7, <1>8 DEF Sound

\* The number of steps still to run that need room is finite.
LEMMA SyncsCounted ==
    ASSUME NEW q \in Instance
    PROVE  IsFiniteSet(Syncs(q)) /\ Cardinality(Syncs(q)) \in Nat
  <1>1. Syncs(q) \subseteq Slot
    BY DEF Syncs
  <1>. QED
    BY <1>1, SlotsFinite, FS_Subset, FS_CardinalityType

\* Whatever is released, the tree and the room stay.
LEMMA FreedKeeps ==
    ASSUME NEW q \in Instance, NEW r, NEW s \in Slot, NEW m \in Mixes,
           Sound(q, m), Freed(q, r, s)
    PROVE  Sound(r, m) /\ SameTree(q, r)
  <1>1. r \in Instance /\ SameMembers(q, r) /\ SameSteps(q, r)
    BY DEF Freed
  <1>2. SameTree(q, r)
    BY <1>1, SameStepsTree
  <1>3. Repeaters(r)
    BY <1>1 DEF Sound, Repeaters, SameSteps
  <1>4. Syncs(r) \subseteq Syncs(q)
    BY <1>1, <1>2, TreeStays DEF Syncs, SameSteps
  <1>5. q.queue[s].allocs \in Nat
    BY InstanceTypes DEF StepData
  <1>6. Len(r.timeouts) <= Len(q.timeouts) /\ Len(r.cancels) <= Len(q.cancels)
        /\ Len(r.allocs) <= Len(q.allocs)
    <2>1. /\ q.timeouts \in Seq([step : Slot, timer : Timer])
          /\ q.cancels \in Seq([step : Slot, unlock : BOOLEAN]) /\ q.allocs \in Seq(Slot)
      BY InstanceTypes
    <2>2. \A n \in Nat : Len(Drop(q.timeouts, n)) <= Len(q.timeouts)
      BY <2>1, Dropped
    <2>3. \A n \in Nat : Len(Drop(q.cancels, n)) <= Len(q.cancels)
      BY <2>1, Dropped
    <2>4. \A n \in Nat : Len(Drop(q.allocs, n)) <= Len(q.allocs)
      BY <2>1, Dropped
    <2>. QED
      BY <1>5, <2>2, <2>3, <2>4 DEF Freed
  <1>7. r.size = q.size /\ q.size \in Nat
    <2>1. q.size \in Nat
      BY InstanceTypes
    <2>. QED
      BY <1>1, <2>1 DEF SameMembers
  <1>8. r.size <= q.size
    BY <1>7
  <1>. QED
    BY <1>1, <1>2, <1>3, <1>4, <1>6, <1>8, SoundLess

----------------------------------------------------------------------------
(* Adding steps                                                             *)

\* alloc_step(): what the new step s is, whatever extended state it gets.
Allocated(q, r, s, parent, func) ==
    /\ r \in Instance /\ s = QueueEnd(q) /\ r.size = q.size + 1
    /\ r.begin = q.begin /\ r.last = q.last /\ r.err = q.err
    /\ r.in_exec = q.in_exec /\ r.handle = q.handle /\ r.runs = q.runs
    /\ r.timeouts = q.timeouts /\ r.armed = q.armed /\ r.cancels = q.cancels
    /\ r.allocs = q.allocs /\ r.lost = q.lost
    /\ \A x \in Slot \ {s} : r.queue[x] = q.queue[x]
    /\ r.queue[s].func = func /\ r.queue[s].parent = parent
    /\ ~r.queue[s].ran /\ ~r.queue[s].repeat /\ ~r.queue[s].cancel
    /\ ~r.queue[s].timeout /\ ~r.queue[s].wait /\ ~r.queue[s].asked
    /\ r.queue[s].start = 0 /\ r.queue[s].front = 0
    /\ r.queue[s].allocs = q.queue[s].allocs

\* It needs no extended state of its own.
Plain(q, r, s) ==
    /\ r.used = q.used /\ r.object = q.object
    /\ ~r.queue[s].extended /\ r.queue[s].ext \in {0, q.queue[s].ext}

\* alloc_extended() gives it one that is not in use.
Extended(q, r, s) ==
    /\ r.queue[s].extended /\ r.queue[s].ext \in Ext \ q.used
    /\ r.used = q.used \cup {r.queue[s].ext}
    /\ \A e \in Ext \ {r.queue[s].ext} : r.object[e] = q.object[e]

\* A slot that is no longer in use.
LEMMA LeftData ==
    ASSUME NEW step \in StepData
    PROVE  /\ Left(step) \in StepData /\ Left(step).func = "none"
           /\ Left(step).parent = None /\ ~Left(step).ran /\ ~Left(step).repeat
           /\ ~Left(step).cancel /\ ~Left(step).timeout /\ ~Left(step).wait
           /\ ~Left(step).extended /\ ~Left(step).asked
           /\ Left(step).start = 0 /\ Left(step).front = 0
           /\ Left(step).ext \in {0, step.ext} /\ Left(step).allocs = step.allocs
  <1> DEFINE ext == IF "sync" \in allow.may THEN step.ext ELSE 0
  <1>1. step.ext \in Ext /\ step.allocs \in Nat /\ step.on_error \in {"none", "user", "loop"}
    BY DEF StepData
  <1>2. ext \in {0, step.ext} /\ ext \in Ext
    BY <1>1, Bounds DEF Ext
  <1>3. Left(step) = [Fresh EXCEPT !.ext = ext, !.allocs = step.allocs,
                                   !.on_error = IF "leftover" \in allow.may
                                                THEN step.on_error ELSE "none"]
    BY DEF Left
  <1> HIDE DEF ext
  <1>. QED
    BY <1>1, <1>2, <1>3, NoneIsNoSlot, ZenonT(60) DEF Fresh, StepData

\* alloc_step() puts a fresh step at the end of the ring, unless the ring is
\* full.
LEMMA StepAllocated ==
    ASSUME NEW q \in Instance, q.size + 1 < MaxSteps, NEW parent \in Slot \cup {None},
           NEW func \in {"user", "loop", "await", "sync", "lock", "body", "unlock"}
    PROVE  /\ Allocated(q, AllocStep(q, parent, func), QueueEnd(q), parent, func)
           /\ Plain(q, AllocStep(q, parent, func), QueueEnd(q))
  <1> DEFINE s == QueueEnd(q)
             step == [Left(q.queue[s]) EXCEPT !.func = func, !.parent = parent]
             r == AllocStep(q, parent, func)
  <1>1. q.queue \in [Slot -> StepData] /\ s \in Slot /\ q.queue[s] \in StepData
        /\ q.size \in 0 .. MaxSteps - 1
    BY InstanceTypes, RingEnd
  <1>2. /\ Left(q.queue[s]) \in StepData /\ ~Left(q.queue[s]).ran /\ ~Left(q.queue[s]).repeat
        /\ ~Left(q.queue[s]).cancel /\ ~Left(q.queue[s]).timeout /\ ~Left(q.queue[s]).wait
        /\ ~Left(q.queue[s]).extended /\ ~Left(q.queue[s]).asked
        /\ Left(q.queue[s]).start = 0 /\ Left(q.queue[s]).front = 0
        /\ Left(q.queue[s]).ext \in {0, q.queue[s].ext}
        /\ Left(q.queue[s]).allocs = q.queue[s].allocs
    BY <1>1, LeftData
  <1>3. r = [q EXCEPT !.size = @ + 1, !.queue[s] = step]
    BY DEF AllocStep
  <1> HIDE DEF s
  <1>4. step \in StepData
    BY <1>2 DEF StepData
  <1>5. /\ step.func = func /\ step.parent = parent /\ ~step.ran /\ ~step.repeat
        /\ ~step.cancel /\ ~step.timeout /\ ~step.wait /\ ~step.extended
        /\ ~step.asked /\ step.start = 0 /\ step.front = 0
        /\ step.ext \in {0, q.queue[s].ext} /\ step.allocs = q.queue[s].allocs
    BY <1>2 DEF StepData
  <1> HIDE DEF step, r
  <1>6. /\ r.queue = [q.queue EXCEPT ![s] = step] /\ r.size = q.size + 1
        /\ r.begin = q.begin /\ r.last = q.last /\ r.err = q.err
        /\ r.in_exec = q.in_exec /\ r.handle = q.handle /\ r.runs = q.runs
        /\ r.timeouts = q.timeouts /\ r.armed = q.armed /\ r.cancels = q.cancels
        /\ r.allocs = q.allocs /\ r.used = q.used /\ r.lost = q.lost
        /\ r.object = q.object
    BY <1>3 DEF Instance
  <1>7. r.queue \in [Slot -> StepData] /\ r.queue[s] = step
        /\ \A x \in Slot \ {s} : r.queue[x] = q.queue[x]
    BY <1>1, <1>4, <1>6
  <1>8. r.size \in 0 .. MaxSteps - 1
    BY <1>1, <1>6, NitroAssumption
  <1>9. r \in Instance
    BY <1>3, <1>6, <1>7, <1>8 DEF Instance
  <1>. QED
    BY <1>5, <1>6, <1>7, <1>9 DEF Allocated, Plain, r, s

\* The new step is the last of the ring, and a sub-step of the innermost one.
LEMMA TreeAllocated ==
    ASSUME NEW q \in Instance, NEW r, NEW s, NEW tip \in Slot \cup {None}, NEW func,
           Allocated(q, r, s, tip, func), TreeOf(q, tip)
    PROVE  /\ TreeOf(r, tip) /\ Ring(r) = Ring(q) \o <<s>>
           /\ \A x \in Slot \ {s} : Offset(r, x) = Offset(q, x)
                                    /\ (InQueue(r, x) <=> InQueue(q, x))
           /\ InQueue(r, s) /\ ~InQueue(q, s)
           /\ \A x \in Slot \ {s} : Marks(r)[x] = Marks(q)[x]
  <1>1. /\ r \in Instance /\ s \in Slot /\ s = Place(q.begin, q.size) /\ r.begin = q.begin
        /\ r.size = q.size + 1 /\ ~InQueue(q, s) /\ q.size \in Nat /\ Offset(q, s) = q.size
    <2>1. q.size \in Nat
      BY InstanceTypes
    <2>2. s = QueueEnd(q) /\ r \in Instance /\ r.begin = q.begin /\ r.size = q.size + 1
      BY DEF Allocated
    <2>. QED
      BY <2>1, <2>2, RingEnd
  <1>2. \A x \in Slot : Offset(r, x) = Offset(q, x) /\ Offset(q, x) \in Nat
    BY <1>1, SlotInRing DEF Offset
  <1>3. \A x \in Slot \ {s} : InQueue(r, x) <=> InQueue(q, x)
    <2> SUFFICES ASSUME NEW x \in Slot \ {s} PROVE InQueue(r, x) <=> InQueue(q, x)
      OBVIOUS
    <2>1. Offset(q, x) # q.size
      BY <1>1, RingEnd
    <2>. QED
      BY <1>1, <1>2, <2>1, SlotInRing
  <1>4. InQueue(r, s)
    BY <1>1, <1>2, SlotInRing
  <1>5. Ring(r) = Ring(q) \o <<s>>
    <2>1. Ring(q) \in Seq(Slot) /\ Len(Ring(q)) = q.size /\ DOMAIN Ring(q) = 1 .. q.size
          /\ Ring(r) \in Seq(Slot) /\ Len(Ring(r)) = q.size + 1
          /\ DOMAIN Ring(r) = 1 .. q.size + 1
      BY <1>1, RingList
    <2>2. \A i \in 1 .. q.size : Ring(r)[i] = Ring(q)[i]
      <3>1. \A i \in 1 .. q.size : Ring(q)[i] = Place(q.begin, i - 1)
        BY RingList
      <3>2. \A i \in 1 .. q.size + 1 : Ring(r)[i] = Place(q.begin, i - 1)
        BY <1>1, RingList
      <3>. QED
        BY <1>1, <3>1, <3>2
    <2>3. Ring(r)[q.size + 1] = s
      <3>1. q.size + 1 \in 1 .. r.size /\ (q.size + 1) - 1 = q.size
        BY <1>1
      <3>2. Ring(r)[q.size + 1] = Place(r.begin, (q.size + 1) - 1)
        BY <1>1, <3>1, RingList
      <3>. QED
        BY <1>1, <3>1, <3>2
    <2>4. Len(Ring(q) \o <<s>>) = q.size + 1 /\ Ring(q) \o <<s>> \in Seq(Slot)
          /\ \A i \in 1 .. q.size : (Ring(q) \o <<s>>)[i] = Ring(q)[i]
          /\ (Ring(q) \o <<s>>)[q.size + 1] = s
      BY <1>1, <2>1
    <2>. QED
      BY <1>1, <2>1, <2>2, <2>3, <2>4
  <1>6. \A x \in Slot \ {s} : Marks(r)[x] = Marks(q)[x]
    BY <1>1, <1>2 DEF Marks, Allocated, Offset
  <1>7. Marks(r)[s].parent = tip /\ ~Marks(r)[s].ran
    BY <1>1, MarksOf DEF Allocated
  <1>8. TreeOf(r, tip)
    <2>1. Typed(Ring(q), Marks(q), tip) /\ Typed(Ring(q) \o <<s>>, Marks(r), tip)
      BY <1>1, <1>5, MarksOf
    <2>2. <<s>> \in Seq(Slot) /\ Distinct(<<s>>) /\ Elements(<<s>>) = {s}
      BY <1>1 DEF Distinct, Elements
    <2>3. s \notin Elements(Ring(q))
      BY <1>1, SlotInRing
    <2>4. tip # s
      <3>1. CASE tip = None
        BY <1>1, <3>1, NoneIsNoSlot
      <3>2. CASE tip # None
        <4>1. tip \in Path(Ring(q), Marks(q), tip)
          BY <3>2 DEF Path
        <4>2. \E i \in DOMAIN Ring(q) : Ring(q)[i] = tip
          BY <4>1 DEF TreeOf, Tree, Levels
        <4>. QED
          BY <2>3, <4>2 DEF Elements
      <3>. QED
        BY <3>1, <3>2
    <2>5. \A x \in Elements(Ring(q)) \cup ({tip} \ {None}) : x \in Slot \ {s}
      BY <2>3, <2>4, RingList DEF Elements
    <2>6. Tree(Ring(q) \o <<s>>, Marks(r), tip)
      BY <1>6, <1>7, <2>1, <2>2, <2>3, <2>5, TreeExtended DEF TreeOf
    <2>. QED
      BY <1>5, <2>6 DEF TreeOf
  <1>. QED
    BY <1>1, <1>2, <1>3, <1>4, <1>5, <1>6, <1>8

\* Where a level points to, in slots of the ring.
LEMMA FrontSlot ==
    ASSUME NEW q \in Instance, NEW o \in Slot \cup {None}
    PROVE  LET s == IF o = None THEN q.begin ELSE q.queue[o].front IN
           /\ s \in Slot /\ Front(q, o) = Offset(q, s) /\ Front(q, o) \in Nat
           /\ Front(q, o) < q.size => /\ InQueue(q, s) /\ Front(q, o) + 1 \in DOMAIN Ring(q)
                                      /\ Ring(q)[Front(q, o) + 1] = s
                                      /\ FrontStep(q, o) = q.queue[s]
           /\ InQueue(q, s) => Front(q, o) < q.size
           /\ o # None => (SubEmpty(q, o) <=> Front(q, o) = q.size)
  <1> DEFINE s == IF o = None THEN q.begin ELSE q.queue[o].front
  <1>1. s \in Slot /\ (o # None => o \in Slot /\ q.queue[o].front \in Slot)
    <2>1. q.begin \in Slot /\ \A x \in Slot : q.queue[x].front \in Slot
      BY InstanceTypes DEF StepData
    <2>. QED
      BY <2>1
  <1>2. Front(q, o) = Offset(q, s)
    <2>1. CASE o = None
      <3>1. Offset(q, q.begin) = 0
        <4>1. q.begin \in Slot /\ MaxSteps \in Nat \ {0}
          BY InstanceTypes, NitroAssumption
        <4>2. q.begin - q.begin = 0
          BY <4>1 DEF Slot
        <4>. QED
          BY <4>1, <4>2 DEF Offset, Distance
      <3>. QED
        BY <2>1, <3>1 DEF Front, FrontOf
    <2>2. CASE o # None
      BY <1>1, <2>2, MarksOf DEF Front, FrontOf
    <2>. QED
      BY <2>1, <2>2
  <1>3. /\ Offset(q, s) \in 0 .. MaxSteps - 1
        /\ InQueue(q, s) <=> Offset(q, s) < q.size
        /\ Offset(q, s) < q.size => /\ Offset(q, s) + 1 \in 1 .. q.size
                                    /\ Ring(q)[Offset(q, s) + 1] = s
    BY <1>1, SlotInRing
  <1>4. DOMAIN Ring(q) = 1 .. q.size
    BY RingList
  <1>5. o # None => (SubEmpty(q, o) <=> Front(q, o) = q.size)
    BY <1>1, MarksOf DEF Front, FrontOf
  <1> HIDE DEF s
  <1>6. Front(q, o) < q.size => FrontStep(q, o) = q.queue[s]
    BY <1>2, <1>3 DEF FrontStep
  <1>7. Front(q, o) \in Nat
    BY <1>2, <1>3, NitroAssumption
  <1>. QED
    BY <1>1, <1>2, <1>3, <1>4, <1>5, <1>6, <1>7 DEF s

\* The innermost step is in use, and so is every running one.
LEMMA TipInUse ==
    ASSUME NEW q \in Instance, NEW tip \in Slot, TreeOf(q, tip)
    PROVE  /\ InQueue(q, tip) /\ q.size # 0 /\ q.queue[tip].ran
           /\ Front(q, tip) <= q.size /\ Front(q, tip) = Marks(q)[tip].front
           /\ SubEmpty(q, tip) => Marks(q)[tip].start = q.size
           /\ Marks(q)[tip].start <= q.size
  <1>1. tip # None /\ Len(Ring(q)) = q.size /\ DOMAIN Ring(q) = 1 .. q.size
    BY NoneIsNoSlot, RingList
  <1>2. tip \in Path(Ring(q), Marks(q), tip)
    BY <1>1 DEF Path
  <1>3. /\ \E i \in DOMAIN Ring(q) : Ring(q)[i] = tip
        /\ Marks(q)[tip].ran /\ Marks(q)[tip].start <= Len(Ring(q))
    BY <1>2 DEF TreeOf, Tree, Levels
  <1>4. InQueue(q, tip)
    BY <1>3, SlotInRing DEF Elements
  <1>5. /\ Marks(q)[tip].front <= Len(Ring(q))
        /\ Marks(q)[tip].front = Len(Ring(q)) => Marks(q)[tip].start = Len(Ring(q))
    BY <1>1 DEF TreeOf, Tree, TipFront
  <1>6. q.size # 0
    BY <1>1, <1>3
  <1>. QED
    BY <1>1, <1>3, <1>4, <1>5, <1>6, MarksOf DEF Front, FrontOf

\* on_error_ of a new step is set.
LEMMA OnErrorSet ==
    ASSUME NEW q \in Instance, NEW r, NEW s \in Slot, NEW parent, NEW func,
           NEW code \in {"none", "user"},
           Allocated(q, r, s, parent, func) /\ Plain(q, r, s)
    PROVE  LET t == [r EXCEPT !.queue[s].on_error = code]
           IN  Allocated(q, t, s, parent, func) /\ Plain(q, t, s)
  <1> DEFINE step == [r.queue[s] EXCEPT !.on_error = code]
             t == [r EXCEPT !.queue[s].on_error = code]
  <1>1. r \in Instance /\ r.queue[s] \in StepData
    BY InstanceTypes DEF Allocated
  <1>2. /\ step \in StepData /\ step.func = r.queue[s].func /\ step.parent = r.queue[s].parent
        /\ step.ran = r.queue[s].ran /\ step.repeat = r.queue[s].repeat
        /\ step.cancel = r.queue[s].cancel /\ step.timeout = r.queue[s].timeout
        /\ step.wait = r.queue[s].wait /\ step.extended = r.queue[s].extended
        /\ step.asked = r.queue[s].asked /\ step.start = r.queue[s].start
        /\ step.front = r.queue[s].front /\ step.ext = r.queue[s].ext
        /\ step.allocs = r.queue[s].allocs
    BY <1>1 DEF StepData
  <1>3. t = [r EXCEPT !.queue[s] = step]
    OBVIOUS
  <1> HIDE DEF step, t
  <1>4. /\ t.queue = [r.queue EXCEPT ![s] = step] /\ SameMembers(r, t)
        /\ t.timeouts = r.timeouts /\ t.armed = r.armed /\ t.cancels = r.cancels
        /\ t.allocs = r.allocs /\ t.used = r.used
    BY <1>1, <1>3 DEF Instance, SameMembers
  <1>5. /\ t.queue \in [Slot -> StepData] /\ t.queue[s] = step
        /\ \A x \in Slot \ {s} : t.queue[x] = r.queue[x]
    <2>1. r.queue \in [Slot -> StepData] /\ step \in StepData
      BY <1>1, <1>2, InstanceTypes
    <2>. QED
      BY <1>4, <2>1
  <1>6. t \in Instance
    BY <1>1, <1>3, <1>4, <1>5 DEF Instance
  <1>7. Allocated(q, t, s, parent, func)
    BY <1>2, <1>4, <1>5, <1>6 DEF Allocated, SameMembers
  <1>8. Plain(q, t, s)
    BY <1>2, <1>4, <1>5 DEF Plain, SameMembers
  <1>. QED
    BY <1>7, <1>8 DEF t

\* add() and what loop(), sync() and await() add.
LEMMA StepAdded ==
    ASSUME NEW q \in Instance, q.size + 1 < MaxSteps, NEW parent \in Slot \cup {None},
           NEW kind \in Kinds, kind.func # "user" => q.used # Ext
    PROVE  LET r == AddStep(q, parent, kind)
               s == QueueEnd(q)
           IN  /\ Allocated(q, r, s, parent, kind.func) /\ (Plain(q, r, s) \/ Extended(q, r, s))
               /\ kind.func \in {"user", "loop", "await", "sync"}
  <1> DEFINE s == QueueEnd(q)
             a == AllocStep(q, parent, kind.func)
             r == AddStep(q, parent, kind)
  <1>1. /\ kind.func \in {"user", "loop", "await", "sync"}
        /\ kind.func = "user" => kind.on_error \in {"none", "user"}
        /\ kind.object \in Object \cup {None}
    BY DEF Kinds, OnErrors
  <1>2. Allocated(q, a, s, parent, kind.func) /\ Plain(q, a, s) /\ s \in Slot
    BY <1>1, StepAllocated, RingEnd
  <1>3. CASE kind.func = "user"
    <2>1. r = [a EXCEPT !.queue[s].on_error = kind.on_error]
      BY <1>3 DEF AddStep
    <2> HIDE DEF a, r
    <2>2. Allocated(q, r, s, parent, kind.func) /\ Plain(q, r, s)
      BY <1>1, <1>2, <1>3, <2>1, OnErrorSet
    <2>. QED
      BY <1>1, <2>2 DEF r
  <1>4. CASE kind.func # "user"
    <2> DEFINE e == CHOOSE e \in Ext \ q.used : \A d \in Ext \ q.used : e <= d
               step == [a.queue[s] EXCEPT !.extended = TRUE, !.ext = e]
               object == [a.object EXCEPT ![e] = IF kind.object = None THEN @
                                                                       ELSE kind.object]
    <2>1. a \in Instance /\ a.used = q.used /\ a.object = q.object
      BY <1>2 DEF Allocated, Plain
    <2>2. r = [a EXCEPT !.used = @ \cup {e}, !.queue[s].extended = TRUE,
                        !.queue[s].ext = e,
                        !.object[e] = IF kind.object = None THEN @ ELSE kind.object]
      BY <1>4, <2>1 DEF AddStep, AllocExtended
    <2>3. e \in Ext \ q.used
      <3>1. Ext \ q.used # {}
        BY <1>4, InstanceTypes
      <3>2. Ext \ q.used \subseteq Nat
        BY NitroAssumption DEF Ext
      <3>3. \E n \in Ext \ q.used : \A d \in Ext \ q.used : n <= d
        BY <3>1, <3>2, LeastNumber
      <3>. QED
        BY <3>3
    <2> HIDE DEF e
    <2>4. a.queue[s] \in StepData /\ a.queue \in [Slot -> StepData]
          /\ a.object \in [Ext -> Object \cup {None}] /\ a.used \in SUBSET Ext
      BY <1>2, <2>1, InstanceTypes
    <2>5. /\ step \in StepData /\ step.func = a.queue[s].func /\ step.parent = a.queue[s].parent
          /\ step.ran = a.queue[s].ran /\ step.repeat = a.queue[s].repeat
          /\ step.cancel = a.queue[s].cancel /\ step.timeout = a.queue[s].timeout
          /\ step.wait = a.queue[s].wait /\ step.extended = TRUE
          /\ step.asked = a.queue[s].asked /\ step.start = a.queue[s].start
          /\ step.front = a.queue[s].front /\ step.ext = e
          /\ step.allocs = a.queue[s].allocs
      BY <2>3, <2>4 DEF StepData
    <2> HIDE DEF a, r, object, s
    <2>6. r.queue = [a.queue EXCEPT ![s] = step]
      BY <2>1, <2>2 DEF Instance
    <2>7. r.object = object /\ r.used = a.used \cup {e}
      BY <2>1, <2>2 DEF Instance, object
    <2>8. object \in [Ext -> Object \cup {None}]
          /\ \A d \in Ext \ {e} : object[d] = a.object[d]
      BY <1>1, <2>4 DEF object
    <2>9. /\ r.begin = a.begin /\ r.size = a.size /\ r.last = a.last /\ r.err = a.err
          /\ r.in_exec = a.in_exec /\ r.handle = a.handle /\ r.runs = a.runs
          /\ r.timeouts = a.timeouts /\ r.armed = a.armed /\ r.cancels = a.cancels
          /\ r.allocs = a.allocs /\ r.lost = a.lost
      BY <2>1, <2>2 DEF Instance
    <2>10. /\ r.queue \in [Slot -> StepData] /\ r.queue[s] = step
           /\ \A x \in Slot \ {s} : r.queue[x] = a.queue[x]
      BY <1>2, <2>4, <2>5, <2>6
    <2> HIDE DEF step
    <2>11. r \in Instance
      BY <2>1, <2>2, <2>3, <2>4, <2>7, <2>8, <2>9, <2>10, ZenonT(60) DEF Instance
    <2>12. Allocated(q, r, s, parent, kind.func)
      BY <1>2, <2>5, <2>9, <2>10, <2>11 DEF Allocated
    <2>13. Extended(q, r, s)
      BY <1>2, <2>1, <2>3, <2>5, <2>7, <2>8, <2>10 DEF Extended
    <2>. QED
      BY <1>1, <2>12, <2>13 DEF r, s
  <1>. QED
    BY <1>3, <1>4

\* A new sync() step is one more to run.
LEMMA SyncsAdded ==
    ASSUME NEW q \in Instance, NEW r, NEW s, NEW tip \in Slot \cup {None}, NEW func,
           Allocated(q, r, s, tip, func), TreeOf(q, tip)
    PROVE  Cardinality(Syncs(r)) = Cardinality(Syncs(q)) + IF func = "sync" THEN 1 ELSE 0
  <1>1. /\ r \in Instance /\ s \in Slot /\ r.queue[s].func = func /\ ~r.queue[s].ran
        /\ \A x \in Slot \ {s} : r.queue[x] = q.queue[x]
    BY RingEnd DEF Allocated
  <1>2. /\ \A x \in Slot \ {s} : InQueue(r, x) <=> InQueue(q, x)
        /\ InQueue(r, s) /\ ~InQueue(q, s)
    BY TreeAllocated
  <1>3. IsFiniteSet(Syncs(q)) /\ Cardinality(Syncs(q)) \in Nat
    BY SyncsCounted
  <1>4. CASE func = "sync"
    <2>1. Syncs(r) = Syncs(q) \cup {s} /\ s \notin Syncs(q)
      BY <1>1, <1>2, <1>4 DEF Syncs
    <2>2. Cardinality(Syncs(q) \cup {s}) = Cardinality(Syncs(q)) + 1
      BY <1>3, <2>1, FS_AddElement
    <2>. QED
      BY <1>4, <2>1, <2>2
  <1>5. CASE func # "sync"
    <2>1. Syncs(r) = Syncs(q)
      BY <1>1, <1>2, <1>5 DEF Syncs
    <2>. QED
      BY <1>3, <1>5, <2>1
  <1>. QED
    BY <1>4, <1>5

\* With room for it a new step keeps the tree, the room and what is next.
LEMMA AddedKeeps ==
    ASSUME NEW q \in Instance, NEW m \in Mixes, Sound(q, m), NEW r, NEW s,
           NEW tip \in Slot \cup {None}, NEW func,
           Allocated(q, r, s, tip, func), TreeOf(q, tip), NextReady(q, tip),
           q.size + 1 + 3 * Cardinality(Syncs(r)) <= m.steps,
           Len(q.cancels) + Cardinality(Syncs(r)) <= MaxCancels
    PROVE  Sound(r, m) /\ TreeOf(r, tip) /\ NextReady(r, tip)
  <1>1. /\ r \in Instance /\ s \in Slot /\ ~r.queue[s].repeat /\ ~r.queue[s].ran
        /\ \A x \in Slot \ {s} : r.queue[x] = q.queue[x]
        /\ r.begin = q.begin /\ r.size = q.size + 1
    BY RingEnd DEF Allocated
  <1>2. /\ r.timeouts = q.timeouts /\ r.cancels = q.cancels /\ r.allocs = q.allocs
    BY DEF Allocated
  <1>3. Repeaters(r)
    BY <1>1 DEF Sound, Repeaters
  <1>4. r.size + 3 * Cardinality(Syncs(r)) <= m.steps
    BY <1>1
  <1>5. Sound(r, m)
    BY <1>1, <1>2, <1>3, <1>4 DEF Sound
  <1>6. /\ TreeOf(r, tip) /\ InQueue(r, s) /\ ~InQueue(q, s)
        /\ \A x \in Slot \ {s} : Offset(r, x) = Offset(q, x)
                                 /\ (InQueue(r, x) <=> InQueue(q, x))
    BY TreeAllocated
  <1>7. NextReady(r, tip)
    <2> SUFFICES ASSUME Front(r, tip) < r.size, FrontStep(r, tip).ran
                 PROVE  FrontStep(r, tip).repeat
      BY DEF NextReady
    <2> DEFINE x == IF tip = None THEN r.begin ELSE r.queue[tip].front
    <2>1. x = IF tip = None THEN q.begin ELSE q.queue[tip].front
      <3>1. tip # None => InQueue(q, tip)
        BY TipInUse
      <3>2. tip # s
        <4>1. s # None
          BY <1>1, NoneIsNoSlot
        <4>. QED
          BY <1>6, <3>1, <4>1
      <3>. QED
        BY <1>1, <3>2
    <2>2. x \in Slot /\ InQueue(r, x) /\ FrontStep(r, tip) = r.queue[x]
      BY <1>1, FrontSlot
    <2>3. x # s
      BY <1>1, <2>2
    <2>4. InQueue(q, x) /\ r.queue[x] = q.queue[x]
      BY <1>1, <1>6, <2>2, <2>3
    <2> HIDE DEF x
    <2>5. Front(q, tip) < q.size /\ FrontStep(q, tip) = q.queue[x]
      BY <2>1, <2>4, FrontSlot
    <2>. QED
      BY <2>2, <2>4, <2>5 DEF NextReady
  <1>. QED
    BY <1>5, <1>6, <1>7

----------------------------------------------------------------------------
(* Changes of single members                                                *)

\* What the tree, the room and the next step see of the members.
SameRun(q, r) ==
    /\ SameTree(q, r)
    /\ \A x \in Slot : r.queue[x].func = q.queue[x].func

\* They are the same, but for the steps that repeat and the innermost one.
LEMMA RunStays ==
    ASSUME NEW q \in Instance, NEW r \in Instance, SameRun(q, r)
    PROVE  /\ \A o \in Slot \cup {None} :
                 /\ TreeOf(r, o) <=> TreeOf(q, o)
                 /\ Front(r, o) = Front(q, o)
                 /\ Front(r, o) < r.size <=> Front(q, o) < q.size
                 /\ Front(q, o) < q.size => FrontStep(r, o).ran = FrontStep(q, o).ran
                 /\ o # None => (SubEmpty(r, o) <=> SubEmpty(q, o))
           /\ Syncs(r) = Syncs(q)
           /\ \A n \in Nat : Part(r, n) = Part(q, n)
           /\ Marks(r) = Marks(q) /\ r.size = q.size
  <1>1. /\ Ring(r) = Ring(q) /\ Marks(r) = Marks(q)
        /\ \A x \in Slot : /\ InQueue(r, x) <=> InQueue(q, x)
                           /\ SubEmpty(r, x) <=> SubEmpty(q, x)
    BY TreeStays DEF SameRun
  <1>2. r.size = q.size
    BY DEF SameRun, SameTree
  <1>3. \A o : (TreeOf(r, o) <=> TreeOf(q, o)) /\ Front(r, o) = Front(q, o)
    BY <1>1 DEF TreeOf, Front
  <1>4. ASSUME NEW o \in Slot \cup {None}, Front(q, o) < q.size
        PROVE  FrontStep(r, o).ran = FrontStep(q, o).ran
    <2>1. Front(q, o) + 1 \in 1 .. q.size
      <3>1. Front(q, o) + 1 \in DOMAIN Ring(q)
        BY <1>4, FrontSlot
      <3>. QED
        BY <3>1, RingList
    <2>2. Ring(q)[Front(q, o) + 1] \in Slot
      BY <2>1, RingList
    <2>. QED
      BY <1>1, <1>3, <2>2 DEF FrontStep, SameRun, SameTree
  <1>5. Syncs(r) = Syncs(q)
    BY <1>1 DEF Syncs, SameRun, SameTree
  <1>6. \A n \in Nat : Part(r, n) = Part(q, n)
    BY <1>1 DEF Part
  <1>. QED
    BY <1>1, <1>2, <1>3, <1>4, <1>5, <1>6

\* The same steps, none of which repeats anew, have the same room.
LEMMA SoundStays ==
    ASSUME NEW q \in Instance, NEW r \in Instance, NEW m \in Mixes, Sound(q, m),
           SameRun(q, r), Repeaters(r),
           Len(r.timeouts) <= Len(q.timeouts) \/ Len(r.timeouts) <= MaxTimeouts,
           \/ Len(r.cancels) <= Len(q.cancels)
           \/ Len(r.cancels) + Cardinality(Syncs(q)) <= MaxCancels,
           Len(r.allocs) <= Len(q.allocs) \/ Len(r.allocs) <= MaxStackAllocs
    PROVE  Sound(r, m)
  <1>1. Syncs(r) = Syncs(q) /\ r.size = q.size
    BY RunStays
  <1>2. /\ Len(q.timeouts) \in Nat /\ Len(q.cancels) \in Nat /\ Len(q.allocs) \in Nat
        /\ Len(r.timeouts) \in Nat /\ Len(r.cancels) \in Nat /\ Len(r.allocs) \in Nat
    BY InstanceTypes
  <1>3. MaxTimeouts \in Nat /\ MaxCancels \in Nat /\ MaxStackAllocs \in Nat
    BY Bounds
  <1>4. Cardinality(Syncs(q)) \in Nat
    BY SyncsCounted
  <1>5. Len(r.timeouts) <= MaxTimeouts /\ Len(r.allocs) <= MaxStackAllocs
    BY <1>2, <1>3 DEF Sound
  <1>6. Len(r.cancels) + Cardinality(Syncs(r)) <= MaxCancels
    BY <1>1, <1>2, <1>3, <1>4 DEF Sound
  <1>7. r.size + 3 * Cardinality(Syncs(r)) <= m.steps
    BY <1>1 DEF Sound
  <1>. QED
    BY <1>5, <1>6, <1>7 DEF Sound

----------------------------------------------------------------------------
(* What one handler does                                                    *)

\* The slot s becomes step, and the stacks change.
Tweaked(q, r, s, step, timeouts, armed, cancels, allocs) ==
    r = [q EXCEPT !.queue[s] = step, !.timeouts = timeouts, !.armed = armed,
                  !.cancels = cancels, !.allocs = allocs]

\* It is an instance, and nothing else changes.
TweakedOnly(q, r, s, step, timeouts, armed, cancels, allocs) ==
    /\ r \in Instance /\ SameMembers(q, r) /\ r.queue[s] = step
    /\ \A x \in Slot \ {s} : r.queue[x] = q.queue[x]
    /\ r.timeouts = timeouts /\ r.armed = armed /\ r.cancels = cancels
    /\ r.allocs = allocs /\ r.used = q.used

\* Nothing else changes.
LEMMA TweakedTypes ==
    ASSUME NEW q \in Instance, NEW s \in Slot, NEW step \in StepData,
           NEW timeouts \in Seq([step : Slot, timer : Timer]), NEW armed \in SUBSET Timer,
           NEW cancels \in Seq([step : Slot, unlock : BOOLEAN]), NEW allocs \in Seq(Slot),
           NEW r, Tweaked(q, r, s, step, timeouts, armed, cancels, allocs)
    PROVE  TweakedOnly(q, r, s, step, timeouts, armed, cancels, allocs)
  <1>1. q.queue \in [Slot -> StepData]
    BY InstanceTypes
  <1>2. /\ r.queue = [q.queue EXCEPT ![s] = step] /\ SameMembers(q, r)
        /\ r.timeouts = timeouts /\ r.armed = armed /\ r.cancels = cancels
        /\ r.allocs = allocs /\ r.used = q.used
    BY DEF Instance, Tweaked, SameMembers
  <1>3. /\ r.queue \in [Slot -> StepData] /\ r.queue[s] = step
        /\ \A x \in Slot \ {s} : r.queue[x] = q.queue[x]
    BY <1>1, <1>2
  <1>4. r \in Instance
    BY <1>2, <1>3 DEF Instance, Tweaked
  <1>. QED
    BY <1>2, <1>3, <1>4 DEF TweakedOnly

\* setCancel(), sync_unlock_handler(); waitExternal(); stack(); asked.
LEMMA AsTweaked ==
    ASSUME NEW q \in Instance, q.last \in Slot
    PROVE  /\ \A unlock \in BOOLEAN : 
                Tweaked(q, SetCancel(q, unlock), q.last, [q.queue[q.last] EXCEPT !.cancel = TRUE],
                         q.timeouts, q.armed,
                         Append(q.cancels, [step |-> q.last, unlock |-> unlock]),
                         q.allocs)
           /\ Tweaked(q, WaitExternal(q), q.last, [q.queue[q.last] EXCEPT !.wait = TRUE],
                         q.timeouts, q.armed, q.cancels, q.allocs)
  BY DEF SetCancel, WaitExternal, Tweaked, Instance

\* A step is running: what it adds is next.
Running(q, m) ==
    /\ Sound(q, m) /\ q.last \in Slot /\ TreeOf(q, q.last) /\ NextReady(q, q.last)

SameMarks(old, new) ==
    /\ new.func = old.func /\ new.parent = old.parent /\ new.ran = old.ran
    /\ new.start = old.start /\ new.front = old.front

\* The running step's own slot changes, and the stacks within their limits.
LEMMA TipTweaked ==
    ASSUME NEW q \in Instance, NEW m \in Mixes, Running(q, m), NEW step \in StepData,
           SameMarks(q.queue[q.last], step),
           step.repeat => step.func \in {"loop", "await"},
           NEW timeouts \in Seq([step : Slot, timer : Timer]), NEW armed \in SUBSET Timer,
           NEW cancels \in Seq([step : Slot, unlock : BOOLEAN]), NEW allocs \in Seq(Slot),
           Len(timeouts) <= Len(q.timeouts) \/ Len(timeouts) <= MaxTimeouts,
           \/ Len(cancels) <= Len(q.cancels)
           \/ Len(cancels) + Cardinality(Syncs(q)) <= MaxCancels,
           Len(allocs) <= Len(q.allocs) \/ Len(allocs) <= MaxStackAllocs,
           NEW r, Tweaked(q, r, q.last, step, timeouts, armed, cancels, allocs)
    PROVE  /\ r \in Instance /\ Running(r, m) /\ SameRun(q, r) /\ SameMembers(q, r)
           /\ TweakedOnly(q, r, q.last, step, timeouts, armed, cancels, allocs)
  <1> DEFINE s == q.last
  <1>1. s \in Slot
    BY DEF Running
  <1>2. /\ r \in Instance /\ SameMembers(q, r) /\ r.queue[s] = step
        /\ \A x \in Slot \ {s} : r.queue[x] = q.queue[x]
        /\ r.timeouts = timeouts /\ r.armed = armed /\ r.cancels = cancels
        /\ r.allocs = allocs /\ r.used = q.used
    <2>1. Tweaked(q, r, s, step, timeouts, armed, cancels, allocs)
      OBVIOUS
    <2> HIDE DEF s
    <2>2. TweakedOnly(q, r, s, step, timeouts, armed, cancels, allocs)
      BY <1>1, <2>1, TweakedTypes
    <2>. QED
      BY <2>2 DEF TweakedOnly
  <1>3. SameRun(q, r)
    BY <1>1, <1>2 DEF SameRun, SameTree, SameMembers, SameMarks
  <1>4. Repeaters(r)
    BY <1>1, <1>2 DEF Running, Sound, Repeaters
  <1>5. Sound(r, m)
    BY <1>2, <1>3, <1>4, SoundStays DEF Running
  <1>6. r.last = s
    BY <1>2 DEF SameMembers
  <1>7. TreeOf(r, s) /\ Front(r, s) = Front(q, s) /\ r.size = q.size
    BY <1>1, <1>2, <1>3, RunStays DEF Running
  <1>8. NextReady(r, s)
    <2> SUFFICES ASSUME Front(r, s) < r.size, FrontStep(r, s).ran
                 PROVE  FrontStep(r, s).repeat
      BY DEF NextReady
    <2> DEFINE x == Ring(q)[Front(q, s) + 1]
    <2>1. Front(q, s) < q.size /\ FrontStep(q, s).ran
      BY <1>1, <1>2, <1>3, <1>7, RunStays
    <2>2. x \in Slot /\ x # s
      <3>1. Typed(Ring(q), Marks(q), s) /\ Len(Ring(q)) = q.size
        BY <1>1, MarksOf, RingList
      <3>2. Tree(Ring(q), Marks(q), s) /\ FrontOf(Marks(q), s) < Len(Ring(q))
        BY <2>1, <3>1 DEF Running, TreeOf, Front
      <3>3. x \in Slot /\ x \notin Path(Ring(q), Marks(q), s)
        BY <3>1, <3>2, NextIsChild DEF Front
      <3>. QED
        BY <1>1, <3>3, NoneIsNoSlot DEF Path
    <2>3. FrontStep(r, s) = r.queue[x] /\ FrontStep(q, s) = q.queue[x]
      <3>1. Ring(r) = Ring(q)
        BY <1>2, <1>3, TreeStays DEF SameRun
      <3>. QED
        BY <1>7, <3>1 DEF FrontStep
    <2>. QED
      BY <1>2, <2>1, <2>2, <2>3 DEF Running, NextReady
  <1>9. Running(r, m)
    BY <1>1, <1>5, <1>6, <1>7, <1>8 DEF Running
  <1>. QED
    BY <1>2, <1>3, <1>9 DEF TweakedOnly

\* ns when the handler of the step s is called.
StartedBy(q, r, s) ==
    r = [q EXCEPT !.last = s,
              !.queue[s] = [@ EXCEPT !.start = QueueEnd(q), !.front = QueueEnd(q),
                                     !.ran = TRUE, !.asked = FALSE]]

IsNext(q, s) == s = IF q.last = None THEN q.begin ELSE q.queue[q.last].front

\* The step s is running, and nothing else has changed.
Begun(q, r, s, m) ==
    /\ r \in Instance /\ Running(r, m) /\ SubEmpty(r, s) /\ r.last = s
    /\ s \in Slot /\ Syncs(r) = Syncs(q) \ {s} /\ r.size = q.size
    /\ \A x \in Slot \ {s} : r.queue[x] = q.queue[x]
    /\ r.queue[s] = [q.queue[s] EXCEPT !.start = QueueEnd(q), !.front = QueueEnd(q),
                                       !.ran = TRUE, !.asked = FALSE]
    /\ r.begin = q.begin /\ r.in_exec = q.in_exec /\ r.handle = q.handle
    /\ r.runs = q.runs /\ r.err = q.err /\ r.object = q.object
    /\ r.timeouts = q.timeouts /\ r.armed = q.armed /\ r.cancels = q.cancels
    /\ r.allocs = q.allocs /\ r.used = q.used /\ r.lost = q.lost

\* The step that is next is started: it has no sub-steps yet.
LEMMA StepStarted ==
    ASSUME NEW q \in Instance, NEW m \in Mixes, Sound(q, m), TreeOf(q, q.last),
           NEW s, IsNext(q, s), InQueue(q, s), NEW r, StartedBy(q, r, s)
    PROVE  Begun(q, r, s, m)
  <1> DEFINE end == QueueEnd(q)
             step == [q.queue[s] EXCEPT !.start = end, !.front = end, !.ran = TRUE,
                                        !.asked = FALSE]
  <1>1. q.queue \in [Slot -> StepData] /\ q.last \in Slot \cup {None}
    BY InstanceTypes
  <1>2. s \in Slot /\ Front(q, q.last) < q.size /\ Ring(q)[Front(q, q.last) + 1] = s
    BY <1>1, FrontSlot DEF IsNext
  <1>3. end \in Slot /\ q.queue[s] \in StepData
    BY <1>1, <1>2, RingEnd
  <1>4. /\ step \in StepData /\ step.start = end /\ step.front = end /\ step.ran = TRUE
        /\ step.func = q.queue[s].func /\ step.parent = q.queue[s].parent
        /\ step.repeat = q.queue[s].repeat
    BY <1>3 DEF StepData
  <1>5. r = [q EXCEPT !.last = s, !.queue[s] = step]
    BY DEF StartedBy
  <1> HIDE DEF end, step
  <1>7. /\ r.queue = [q.queue EXCEPT ![s] = step] /\ r.last = s
        /\ r.begin = q.begin /\ r.size = q.size /\ r.in_exec = q.in_exec
        /\ r.handle = q.handle /\ r.runs = q.runs /\ r.err = q.err /\ r.object = q.object
        /\ r.timeouts = q.timeouts /\ r.armed = q.armed /\ r.cancels = q.cancels
        /\ r.allocs = q.allocs /\ r.used = q.used /\ r.lost = q.lost
    BY <1>5 DEF Instance
  <1>8. /\ r.queue \in [Slot -> StepData] /\ r.queue[s] = step
        /\ \A x \in Slot \ {s} : r.queue[x] = q.queue[x]
    BY <1>1, <1>2, <1>4, <1>7
  <1>9. r \in Instance
    BY <1>2, <1>5, <1>7, <1>8 DEF Instance
  <1>10. /\ Ring(r) = Ring(q) /\ QueueEnd(r) = end
         /\ \A x \in Slot : Offset(r, x) = Offset(q, x) /\ (InQueue(r, x) <=> InQueue(q, x))
    BY <1>7 DEF Ring, QueueEnd, Offset, InQueue, end
  <1>11. Syncs(r) = Syncs(q) \ {s}
    BY <1>4, <1>8, <1>10 DEF Syncs
  <1>12. Repeaters(r)
    BY <1>2, <1>4, <1>8 DEF Sound, Repeaters
  <1>13. Sound(r, m)
    <2>1. q.size \in Nat /\ Len(q.timeouts) \in Nat /\ Len(q.cancels) \in Nat
          /\ Len(q.allocs) \in Nat
      BY InstanceTypes
    <2>2. /\ r.size <= q.size /\ Len(r.timeouts) <= Len(q.timeouts)
          /\ Len(r.cancels) <= Len(q.cancels) /\ Len(r.allocs) <= Len(q.allocs)
      BY <1>7, <2>1
    <2>. QED
      BY <1>9, <1>11, <1>12, <2>2, SoundLess
  <1>14. SubEmpty(r, s)
    BY <1>4, <1>8, <1>10 DEF SubEmpty
  <1>15. Offset(q, end) = q.size
    BY RingEnd DEF end
  <1>16. TreeOf(r, s)
    <2>1. /\ Typed(Ring(q), Marks(q), q.last) /\ Tree(Ring(q), Marks(q), q.last)
          /\ Typed(Ring(q), Marks(r), s) /\ Len(Ring(q)) = q.size
      BY <1>1, <1>2, <1>9, <1>10, MarksOf, RingList DEF TreeOf
    <2>2. FrontOf(Marks(q), q.last) < Len(Ring(q))
          /\ s = Ring(q)[FrontOf(Marks(q), q.last) + 1]
      BY <1>2, <2>1 DEF Front
    <2>3. /\ \A x \in Slot : Marks(r)[x].parent = Marks(q)[x].parent
          /\ \A x \in Slot \ {s} : Marks(r)[x].start = Marks(q)[x].start
                                   /\ Marks(r)[x].front = Marks(q)[x].front
                                   /\ Marks(r)[x].ran = Marks(q)[x].ran
      <3>1. \A x \in Slot \ {s} : Marks(r)[x] = Marks(q)[x]
        BY <1>8, <1>7 DEF Marks, Offset
      <3>2. Marks(r)[s].parent = Marks(q)[s].parent
        BY <1>2, <1>4, <1>8, <1>9, MarksOf
      <3>. QED
        BY <3>1, <3>2
    <2>4. Marks(r)[s].start = q.size /\ Marks(r)[s].front = q.size /\ Marks(r)[s].ran
      BY <1>2, <1>3, <1>4, <1>8, <1>9, <1>10, <1>15, MarksOf
    <2>5. Tree(Ring(q), Marks(r), s)
      BY <2>1, <2>2, <2>3, <2>4, TreeStarted
    <2>. QED
      BY <1>10, <2>5 DEF TreeOf
  <1>17. NextReady(r, s)
    <2>1. s # None
      BY <1>2, NoneIsNoSlot
    <2>2. Front(r, s) = r.size /\ r.size \in Nat
      BY <1>2, <1>9, <1>14, <2>1, FrontSlot, InstanceTypes
    <2>. QED
      BY <2>2 DEF NextReady
  <1>18. Running(r, m)
    BY <1>2, <1>7, <1>13, <1>16, <1>17 DEF Running
  <1>. QED
    BY <1>2, <1>7, <1>8, <1>9, <1>11, <1>14, <1>18 DEF Begun, step, end

----------------------------------------------------------------------------
(* Leaving steps                                                            *)

\* The steps behind the first k of the ring.
Behind(q, k) == {x \in Slot : k <= Offset(q, x) /\ Offset(q, x) < q.size}

\* The ring is cut after its first k steps.
Cut(q, r, k) ==
    /\ r \in Instance /\ r.size = k /\ k \in 0 .. q.size
    /\ r.begin = q.begin /\ r.last = q.last /\ r.err = q.err
    /\ r.in_exec = q.in_exec /\ r.handle = q.handle /\ r.runs = q.runs
    /\ r.timeouts = q.timeouts /\ r.armed = q.armed /\ r.cancels = q.cancels
    /\ r.allocs = q.allocs /\ r.used = q.used /\ r.object = q.object
    /\ r.lost = q.lost \cup Unclaimed(q, Behind(q, k))
    /\ \A x \in Slot :
          r.queue[x] = IF k <= Offset(q, x) /\ Offset(q, x) < q.size
                       THEN Left(q.queue[x]) ELSE q.queue[x]

\* What dropped steps had are extended states.
LEMMA UnclaimedTyped ==
    ASSUME NEW q, q.queue \in [Slot -> StepData], NEW S, S \subseteq Slot
    PROVE  Unclaimed(q, S) \subseteq Ext
  BY DEF Unclaimed, StepData

\* sub_queue_free()
LEMMA SubFreed ==
    ASSUME NEW q \in Instance, NEW s \in Slot, NEW k \in 0 .. q.size,
           Offset(q, q.queue[s].start) = k
    PROVE  Cut(q, SubQueueFree(q, s), k)
  <1> DEFINE start == q.queue[s].start
             n == q.size
             dropped == {(start + i) % MaxSteps :
                           i \in 0 .. ((QueueEnd(q) - start) % MaxSteps) - 1}
             r == SubQueueFree(q, s)
  <1>1. /\ q.queue \in [Slot -> StepData] /\ q.begin \in Slot /\ n \in 0 .. MaxSteps - 1
        /\ MaxSteps \in Nat \ {0}
    BY InstanceTypes, NitroAssumption
  <1>2. start \in Slot
    BY <1>1 DEF StepData
  <1>3. PICK i \in 0 .. MaxSteps - 1 : Distance(q.begin, start) = i
                                       /\ Place(q.begin, i) = start
    BY <1>1, <1>2, Offsets
  <1>4. i = k /\ (start - q.begin) % MaxSteps = k
    BY <1>3 DEF Offset, Distance
  <1>5. Place(q.begin, k) = start /\ QueueEnd(q) = Place(q.begin, n)
    BY <1>3, <1>4, RingEnd
  <1>6. /\ (Place(q.begin, n) - Place(q.begin, k)) % MaxSteps = n - k
        /\ \A j \in 0 .. n - k : (Place(q.begin, k) + j) % MaxSteps = Place(q.begin, k + j)
    BY <1>1, Counted
  <1> HIDE DEF start
  <1>7. dropped = {(Place(q.begin, k) + j) % MaxSteps : j \in 0 .. (n - k) - 1}
    BY <1>5, <1>6
  <1>8. ASSUME NEW x \in Slot
        PROVE  x \in dropped <=> k <= Offset(q, x) /\ Offset(q, x) < n
    <2>1. PICK o \in 0 .. MaxSteps - 1 : Distance(q.begin, x) = o /\ Place(q.begin, o) = x
      BY <1>1, Offsets
    <2>2. Offset(q, x) = o
      BY <2>1 DEF Offset
    <2>3. ASSUME NEW j \in 0 .. (n - k) - 1, x = (Place(q.begin, k) + j) % MaxSteps
          PROVE  k <= o /\ o < n
      <3>1. j \in 0 .. n - k /\ k + j \in 0 .. MaxSteps - 1
        BY <1>1
      <3>2. x = Place(q.begin, k + j)
        BY <1>6, <2>3, <3>1
      <3>3. Distance(q.begin, Place(q.begin, k + j)) = k + j
        BY <1>1, <3>1, Places
      <3>4. o = k + j
        BY <2>1, <3>2, <3>3
      <3>. QED
        BY <1>1, <3>4
    <2>4. ASSUME k <= o, o < n
          PROVE  \E j \in 0 .. (n - k) - 1 : x = (Place(q.begin, k) + j) % MaxSteps
      <3>1. o - k \in 0 .. (n - k) - 1 /\ o - k \in 0 .. n - k /\ k + (o - k) = o
        BY <1>1, <2>4
      <3>2. (Place(q.begin, k) + (o - k)) % MaxSteps = Place(q.begin, k + (o - k))
        BY <1>6, <3>1
      <3>. QED
        BY <2>1, <3>1, <3>2
    <2> HIDE DEF n
    <2>. QED
      BY <1>7, <2>2, <2>3, <2>4
  <1>17. dropped = Behind(q, k)
    <2>1. dropped \subseteq Slot
      <3>1. \A j \in 0 .. (n - k) - 1 : /\ j \in 0 .. n - k /\ k + j \in 0 .. MaxSteps - 1
                                       /\ Place(q.begin, k + j) \in Slot
        BY <1>1, Places
      <3>. QED
        BY <1>6, <1>7, <3>1
    <2>. QED
      BY <1>8, <2>1 DEF Behind
  <1> DEFINE lost == Unclaimed(q, dropped)
  <1> HIDE DEF dropped
  <1>9. r = [q EXCEPT !.size = k, !.lost = @ \cup lost,
                      !.queue = [j \in Slot |-> IF j \in dropped
                                                 THEN Left(@[j]) ELSE @[j]]]
    BY <1>4 DEF SubQueueFree, dropped, start
  <1>18. lost \subseteq Ext
    BY <1>1, <1>17, UnclaimedTyped DEF Behind
  <1> HIDE DEF r, lost
  <1>10. /\ r.size = k /\ r.begin = q.begin /\ r.last = q.last /\ r.err = q.err
         /\ r.in_exec = q.in_exec /\ r.handle = q.handle /\ r.runs = q.runs
         /\ r.timeouts = q.timeouts /\ r.armed = q.armed /\ r.cancels = q.cancels
         /\ r.allocs = q.allocs /\ r.used = q.used /\ r.object = q.object
         /\ r.lost = q.lost \cup lost
         /\ r.queue = [j \in Slot |-> IF j \in dropped THEN Left(q.queue[j])
                                                       ELSE q.queue[j]]
    BY <1>9 DEF Instance
  <1>11. \A x \in Slot : Left(q.queue[x]) \in StepData
    BY <1>1, LeftData
  <1>12. r.queue \in [Slot -> StepData]
    BY <1>1, <1>10, <1>11
  <1>13. r.size \in 0 .. MaxSteps - 1
    BY <1>1, <1>10
  <1>14. r \in Instance
    <2>1. r.lost \in SUBSET Ext
      BY <1>10, <1>18, InstanceTypes
    <2>. QED
      BY <1>9, <1>10, <1>12, <1>13, <2>1 DEF Instance
  <1>15. \A x \in Slot : r.queue[x] = IF k <= Offset(q, x) /\ Offset(q, x) < q.size
                                      THEN Left(q.queue[x]) ELSE q.queue[x]
    BY <1>8, <1>10
  <1>16. r.lost = q.lost \cup Unclaimed(q, Behind(q, k))
    BY <1>10, <1>17 DEF lost
  <1>. QED
    BY <1>10, <1>14, <1>15, <1>16 DEF Cut, r

\* The steps that are left keep their places and their marks.
LEMMA CutRing ==
    ASSUME NEW q \in Instance, NEW r, NEW k, Cut(q, r, k)
    PROVE  /\ r \in Instance /\ k \in Nat /\ k <= q.size
           /\ Ring(r) = SubSeq(Ring(q), 1, k)
           /\ \A x \in Slot : /\ Offset(r, x) = Offset(q, x)
                              /\ InQueue(r, x) <=> Offset(q, x) < k
                              /\ InQueue(r, x) => /\ InQueue(q, x)
                                                  /\ r.queue[x] = q.queue[x]
                                                  /\ Marks(r)[x] = Marks(q)[x]
           /\ \A x \in Elements(Ring(r)) : x \in Slot /\ InQueue(r, x)
  <1>1. /\ r \in Instance /\ r.size = k /\ k \in 0 .. q.size /\ r.begin = q.begin
        /\ \A x \in Slot : r.queue[x] = IF k <= Offset(q, x) /\ Offset(q, x) < q.size
                                        THEN Left(q.queue[x]) ELSE q.queue[x]
    BY DEF Cut
  <1>2. q.size \in Nat /\ k \in Nat /\ k <= q.size
    <2>1. q.size \in Nat
      BY InstanceTypes
    <2>. QED
      BY <1>1, <2>1
  <1>3. \A x \in Slot : Offset(r, x) = Offset(q, x) /\ Offset(q, x) \in Nat
    BY <1>1, SlotInRing DEF Offset
  <1>4. \A x \in Slot : InQueue(r, x) <=> Offset(q, x) < k
    BY <1>1, <1>3, SlotInRing
  <1>5. ASSUME NEW x \in Slot, InQueue(r, x)
        PROVE  InQueue(q, x) /\ r.queue[x] = q.queue[x]
    <2>1. Offset(q, x) < k /\ Offset(q, x) \in Nat
      BY <1>3, <1>4, <1>5
    <2>2. Offset(q, x) < q.size /\ ~(k <= Offset(q, x))
      BY <1>2, <2>1
    <2>. QED
      BY <1>1, <2>2, SlotInRing
  <1>6. \A x \in Slot : InQueue(r, x) => Marks(r)[x] = Marks(q)[x]
    BY <1>1, <1>5 DEF Marks, Offset
  <1>7. Ring(r) = SubSeq(Ring(q), 1, k)
    <2>1. Ring(q) \in Seq(Slot) /\ Len(Ring(q)) = q.size
          /\ Ring(r) \in Seq(Slot) /\ Len(Ring(r)) = k
      BY <1>1, RingList
    <2>2. ASSUME NEW i \in 1 .. k PROVE Ring(r)[i] = Ring(q)[i]
      <3>1. i \in 1 .. q.size
        BY <1>2
      <3>2. Ring(q)[i] = Place(q.begin, i - 1)
        BY <3>1, RingList
      <3>3. Ring(r)[i] = Place(q.begin, i - 1)
        BY <1>1, RingList
      <3>. QED
        BY <3>2, <3>3
    <2>3. /\ SubSeq(Ring(q), 1, k) \in Seq(Slot) /\ Len(SubSeq(Ring(q), 1, k)) = k
          /\ \A i \in 1 .. k : SubSeq(Ring(q), 1, k)[i] = Ring(q)[i]
      BY <1>2, <2>1
    <2>. QED
      BY <1>2, <2>1, <2>2, <2>3
  <1>8. \A x \in Elements(Ring(r)) : x \in Slot /\ InQueue(r, x)
    <2>1. \A x \in Elements(Ring(r)) : x \in Slot
      BY <1>1, RingList DEF Elements
    <2>. QED
      BY <1>1, <2>1, SlotInRing
  <1>. QED
    BY <1>1, <1>2, <1>3, <1>4, <1>5, <1>6, <1>7, <1>8

\* With fewer steps there is room as before.
LEMMA CutKeeps ==
    ASSUME NEW q \in Instance, NEW r, NEW k, NEW m \in Mixes, Sound(q, m), Cut(q, r, k)
    PROVE  Sound(r, m)
  <1>1. /\ r \in Instance /\ k \in Nat /\ k <= q.size
        /\ \A x \in Slot : InQueue(r, x) => InQueue(q, x) /\ r.queue[x] = q.queue[x]
    BY CutRing
  <1>2. /\ r.size = k /\ r.timeouts = q.timeouts /\ r.cancels = q.cancels
        /\ r.allocs = q.allocs
        /\ \A x \in Slot : r.queue[x] = q.queue[x] \/ r.queue[x] = Left(q.queue[x])
    BY DEF Cut
  <1>3. Repeaters(r)
    <2> SUFFICES ASSUME NEW x \in Slot, r.queue[x].repeat
                 PROVE  r.queue[x].func \in {"loop", "await"}
      BY DEF Repeaters
    <2>1. q.queue[x] \in StepData
      BY InstanceTypes
    <2>2. ~Left(q.queue[x]).repeat
      BY <2>1, LeftData
    <2>3. r.queue[x] = q.queue[x]
      BY <1>2, <2>2
    <2>. QED
      BY <2>3 DEF Sound, Repeaters
  <1>4. Syncs(r) \subseteq Syncs(q)
    BY <1>1 DEF Syncs
  <1>5. /\ r.size <= q.size /\ Len(r.timeouts) <= Len(q.timeouts)
        /\ Len(r.cancels) <= Len(q.cancels) /\ Len(r.allocs) <= Len(q.allocs)
    <2>1. Len(q.timeouts) \in Nat /\ Len(q.cancels) \in Nat /\ Len(q.allocs) \in Nat
      BY InstanceTypes
    <2>. QED
      BY <1>1, <1>2, <2>1
  <1>. QED
    BY <1>1, <1>3, <1>4, <1>5, SoundLess

\* The parent of the innermost step points to it.
LEMMA TipIsFront ==
    ASSUME NEW q \in Instance, NEW tip \in Slot, TreeOf(q, tip)
    PROVE  LET up == q.queue[tip].parent IN
           /\ up \in Slot \cup {None} /\ up # tip /\ Front(q, up) < q.size
           /\ Ring(q)[Front(q, up) + 1] = tip /\ FrontStep(q, up) = q.queue[tip]
  <1> DEFINE up == q.queue[tip].parent
  <1>1. /\ Typed(Ring(q), Marks(q), tip) /\ Tree(Ring(q), Marks(q), tip) /\ tip # None
        /\ DOMAIN Ring(q) = 1 .. q.size
    BY MarksOf, RingList, NoneIsNoSlot DEF TreeOf
  <1>2. tip \in Path(Ring(q), Marks(q), tip)
    BY <1>1 DEF Path
  <1>3. Marks(q)[tip].parent = up
    BY MarksOf
  <1>4. /\ FrontOf(Marks(q), up) + 1 \in DOMAIN Ring(q)
        /\ Ring(q)[FrontOf(Marks(q), up) + 1] = tip
    BY <1>1, <1>2, <1>3 DEF Tree, Levels
  <1>5. up \in Slot \cup {None} /\ up # tip
    BY <1>1, <1>2, <1>3, TipIsInnermost DEF Typed
  <1> HIDE DEF up
  <1>6. Front(q, up) \in Nat /\ q.size \in Nat
    <2>1. q.size \in Nat
      BY InstanceTypes
    <2>. QED
      BY <1>5, <2>1, FrontSlot
  <1>7. Front(q, up) < q.size /\ Ring(q)[Front(q, up) + 1] = tip
    BY <1>1, <1>4, <1>6 DEF Front
  <1>8. FrontStep(q, up) = q.queue[tip]
    BY <1>7 DEF FrontStep
  <1>. QED
    BY <1>5, <1>7, <1>8 DEF up

\* A step without sub-steps is left.
LEMMA LeafLeft ==
    ASSUME NEW q \in Instance, NEW tip \in Slot, TreeOf(q, tip),
           Marks(q)[tip].start = q.size
    PROVE  LET up == q.queue[tip].parent IN
           /\ up \in Slot \cup {None} /\ TreeOf(q, up)
           /\ Front(q, up) < q.size /\ FrontStep(q, up).ran
  <1>1. /\ Typed(Ring(q), Marks(q), tip) /\ Tree(Ring(q), Marks(q), tip) /\ tip # None
        /\ Marks(q)[tip].start = Len(Ring(q)) /\ Marks(q)[tip].parent = q.queue[tip].parent
    BY MarksOf, RingList, NoneIsNoSlot DEF TreeOf
  <1>2. Tree(Ring(q), Marks(q), q.queue[tip].parent)
    BY <1>1, TreeUp
  <1>3. q.queue[tip].ran
    BY TipInUse
  <1>. QED
    BY <1>2, <1>3, TipIsFront DEF TreeOf

\* What is left of the ring when the sub-steps of the innermost step are cut.
LEMMA CutPath ==
    ASSUME NEW q \in Instance, NEW tip \in Slot, TreeOf(q, tip),
           NEW r \in Instance, r.begin = q.begin, r.size = q.size,
           NEW t, Cut(r, t, Marks(q)[tip].start)
    PROVE  /\ Ring(r) = Ring(q) /\ t \in Instance
           /\ KeepsPath(Ring(q), Marks(q), tip, Marks(q)[tip].start, Ring(t))
           /\ Typed(Ring(q), Marks(q), tip) /\ tip # None
           /\ \A up \in Slot \cup {None} : Typed(Ring(t), Marks(t), up)
           /\ Elements(Ring(t)) \subseteq Slot
           /\ \A x \in Elements(Ring(t)) : Marks(t)[x] = Marks(r)[x]
                                           /\ t.queue[x] = r.queue[x]
  <1>1. Typed(Ring(q), Marks(q), tip) /\ Tree(Ring(q), Marks(q), tip) /\ tip # None
    BY MarksOf, NoneIsNoSlot DEF TreeOf
  <1>2. Ring(r) = Ring(q)
    BY DEF Ring
  <1>3. t \in Instance /\ Ring(t) = SubSeq(Ring(q), 1, Marks(q)[tip].start)
        /\ \A x \in Elements(Ring(t)) : x \in Slot /\ InQueue(t, x)
    BY <1>2, CutRing
  <1>4. \A x \in Elements(Ring(t)) : Marks(t)[x] = Marks(r)[x] /\ t.queue[x] = r.queue[x]
    BY <1>3, CutRing
  <1>5. KeepsPath(Ring(q), Marks(q), tip, Marks(q)[tip].start, Ring(t))
    BY <1>1, <1>3, KeptPath
  <1>6. \A up \in Slot \cup {None} : Typed(Ring(t), Marks(t), up)
    BY <1>3, MarksOf
  <1>. QED
    BY <1>1, <1>2, <1>3, <1>4, <1>5, <1>6

\* The innermost step is left with all its sub-steps, wherever it points to.
LEMMA LevelLeft ==
    ASSUME NEW q \in Instance, NEW tip \in Slot, TreeOf(q, tip),
           NEW r \in Instance, r.begin = q.begin, r.size = q.size,
           \A x \in Slot : /\ r.queue[x].parent = q.queue[x].parent
                           /\ r.queue[x].ran = q.queue[x].ran,
           \A x \in Slot \ {tip} : /\ r.queue[x].start = q.queue[x].start
                                   /\ r.queue[x].front = q.queue[x].front,
           NEW t, Cut(r, t, Marks(q)[tip].start)
    PROVE  LET up == q.queue[tip].parent IN
           /\ t \in Instance /\ up \in Slot \cup {None} /\ TreeOf(t, up)
           /\ Front(t, up) < t.size /\ FrontStep(t, up).ran
  <1> DEFINE up == q.queue[tip].parent
             k == Marks(q)[tip].start
  <1>1. /\ Ring(r) = Ring(q) /\ t \in Instance
        /\ KeepsPath(Ring(q), Marks(q), tip, k, Ring(t))
        /\ Typed(Ring(q), Marks(q), tip) /\ tip # None
        /\ \A o \in Slot \cup {None} : Typed(Ring(t), Marks(t), o)
        /\ Elements(Ring(t)) \subseteq Slot
        /\ \A x \in Elements(Ring(t)) : Marks(t)[x] = Marks(r)[x]
                                        /\ t.queue[x] = r.queue[x]
    BY CutPath
  <1>2. up = Marks(q)[tip].parent /\ up \in Slot \cup {None}
    <2>1. q.queue[tip] \in StepData
      BY InstanceTypes
    <2>. QED
      BY <2>1, MarksOf DEF StepData
  <1>3. /\ \A x \in Slot : Marks(r)[x].parent = Marks(q)[x].parent
                           /\ Marks(r)[x].ran = Marks(q)[x].ran
        /\ \A x \in Slot \ {tip} : Marks(r)[x].start = Marks(q)[x].start
                                   /\ Marks(r)[x].front = Marks(q)[x].front
    BY DEF Marks, Offset
  <1>4. Tree(Ring(q), Marks(q), tip)
    BY DEF TreeOf
  <1> HIDE DEF up, k
  <1>5. /\ \A x \in Elements(Ring(t)) : Marks(t)[x].parent = Marks(q)[x].parent
                                        /\ Marks(t)[x].ran = Marks(q)[x].ran
        /\ \A x \in Elements(Ring(t)) \ {tip} : Marks(t)[x].start = Marks(q)[x].start
                                                /\ Marks(t)[x].front = Marks(q)[x].front
    <2>1. \A x \in Elements(Ring(t)) : x \in Slot /\ Marks(t)[x] = Marks(r)[x]
      BY <1>1
    <2>. QED
      BY <1>3, <2>1
  <1>6. Typed(Ring(t), Marks(t), up)
    BY <1>1, <1>2
  <1>7. Tree(Ring(t), Marks(t), up) /\ PointsTo(Ring(t), Marks(t), up, tip)
    BY <1>1, <1>2, <1>4, <1>5, <1>6, TreeLeft DEF k
  <1>8. Front(t, up) < t.size /\ FrontStep(t, up).ran
    <2>1. DOMAIN Ring(t) = 1 .. t.size /\ t.size \in Nat
      BY <1>1, RingList, InstanceTypes
    <2>2. Front(t, up) \in Nat
      BY <1>1, <1>2, FrontSlot
    <2>3. Front(t, up) + 1 \in DOMAIN Ring(t) /\ Ring(t)[Front(t, up) + 1] = tip
          /\ Marks(t)[tip].ran
      BY <1>7 DEF PointsTo, Front
    <2>4. FrontStep(t, up) = t.queue[tip] /\ t.queue[tip].ran
      BY <1>1, <2>3, MarksOf DEF FrontStep
    <2>. QED
      BY <2>1, <2>2, <2>3, <2>4
  <1>. QED
    BY <1>1, <1>2, <1>7, <1>8 DEF TreeOf, up

\* Only its sub-steps are left.
LEMMA LevelCut ==
    ASSUME NEW q \in Instance, NEW tip \in Slot, TreeOf(q, tip),
           NEW t, Cut(q, t, Marks(q)[tip].start),
           NEW u \in Instance, u.begin = t.begin, u.size = t.size,
           \A x \in Slot : /\ u.queue[x].parent = t.queue[x].parent
                           /\ u.queue[x].start = t.queue[x].start
                           /\ u.queue[x].ran = t.queue[x].ran,
           \A x \in Slot \ {tip} : u.queue[x].front = t.queue[x].front,
           u.queue[tip].front = q.queue[tip].start
    PROVE  TreeOf(u, tip) /\ SubEmpty(u, tip) /\ Marks(u)[tip].start = u.size
           /\ u.queue[tip].parent = q.queue[tip].parent
  <1> DEFINE k == Marks(q)[tip].start
  <1>1. /\ t \in Instance /\ KeepsPath(Ring(q), Marks(q), tip, k, Ring(t))
        /\ Typed(Ring(q), Marks(q), tip) /\ tip # None
        /\ Elements(Ring(t)) \subseteq Slot
        /\ \A x \in Elements(Ring(t)) : Marks(t)[x] = Marks(q)[x]
                                        /\ t.queue[x] = q.queue[x]
    BY CutPath
  <1>2. Ring(u) = Ring(t) /\ u.begin = q.begin
    BY DEF Ring, Cut
  <1>3. /\ \A x \in Slot : /\ Marks(u)[x].parent = Marks(t)[x].parent
                           /\ Marks(u)[x].start = Marks(t)[x].start
                           /\ Marks(u)[x].ran = Marks(t)[x].ran
        /\ \A x \in Slot \ {tip} : Marks(u)[x].front = Marks(t)[x].front
    BY DEF Marks, Offset
  <1>4. Marks(u)[tip].front = k
    BY <1>2, MarksOf DEF Offset
  <1>5. Tree(Ring(q), Marks(q), tip) /\ Typed(Ring(t), Marks(u), tip)
    BY <1>2, MarksOf DEF TreeOf
  <1> HIDE DEF k
  <1>6. /\ \A x \in Elements(Ring(t)) : /\ Marks(u)[x].parent = Marks(q)[x].parent
                                        /\ Marks(u)[x].ran = Marks(q)[x].ran
                                        /\ Marks(u)[x].start = Marks(q)[x].start
        /\ \A x \in Elements(Ring(t)) \ {tip} : Marks(u)[x].front = Marks(q)[x].front
    <2>1. \A x \in Elements(Ring(t)) : x \in Slot /\ Marks(t)[x] = Marks(q)[x]
      BY <1>1
    <2>. QED
      BY <1>3, <2>1
  <1>7. Tree(Ring(t), Marks(u), tip) /\ Len(Ring(t)) = k /\ tip \in Elements(Ring(t))
        /\ Marks(u)[tip].start = k
    BY <1>1, <1>4, <1>5, <1>6, TreeCut DEF k
  <1>8. u.size = k
    BY <1>2, <1>7, RingList
  <1>9. SubEmpty(u, tip)
    BY <1>4, <1>8, MarksOf
  <1>10. u.queue[tip].parent = q.queue[tip].parent
    BY <1>1, <1>7
  <1>. QED
    BY <1>2, <1>7, <1>8, <1>9, <1>10 DEF TreeOf

----------------------------------------------------------------------------
(* cond_sub_queue_shift() and cond_queue_shift()                             *)

\* The front of the step c is moved over a step that has been freed, f.
Shifted(f, r, c) ==
    /\ r \in Instance /\ SameMembers(f, r)
    /\ \A x \in Slot : /\ r.queue[x].func = f.queue[x].func
                       /\ r.queue[x].parent = f.queue[x].parent
                       /\ r.queue[x].start = f.queue[x].start
                       /\ r.queue[x].ran = f.queue[x].ran
                       /\ r.queue[x].repeat = f.queue[x].repeat
                       /\ r.queue[x].timeout = f.queue[x].timeout
                       /\ r.queue[x].cancel = f.queue[x].cancel
                       /\ r.queue[x].extended = f.queue[x].extended
                       /\ r.queue[x].ext = f.queue[x].ext
                       /\ r.queue[x].allocs = f.queue[x].allocs
                       /\ r.queue[x].on_error = f.queue[x].on_error
                       /\ r.queue[x].asked = f.queue[x].asked
    /\ \A x \in Slot \ {c} : r.queue[x].front = f.queue[x].front
    /\ r.queue[c].front = (f.queue[c].front + 1) % MaxSteps
    /\ r.timeouts = f.timeouts /\ r.armed = f.armed /\ r.cancels = f.cancels
    /\ r.allocs = f.allocs /\ r.used = f.used

\* The slot after another one is a slot.
LEMMA NextSlot ==
    ASSUME NEW s \in Slot
    PROVE  (s + 1) % MaxSteps \in Slot
  <1>1. MaxSteps \in Nat \ {0} /\ s \in 0 .. MaxSteps - 1
    BY NitroAssumption DEF Slot
  <1>2. s + 1 \in 0 .. MaxSteps
    BY <1>1
  <1>3. (s + 1) % MaxSteps \in 0 .. MaxSteps - 1
    BY <1>1, <1>2
  <1>. QED
    BY <1>3 DEF Slot

\* cond_sub_queue_shift() of a step that does not repeat.
LEMMA FrontShifted ==
    ASSUME NEW q \in Instance, NEW c \in Slot, ~q.queue[q.queue[c].front].repeat
    PROVE  Shifted(FreeStep(q, q.queue[c].front), ShiftSub(q, c), c)
  <1> DEFINE f == FreeStep(q, q.queue[c].front)
             r == ShiftSub(q, c)
             step == [f.queue[c] EXCEPT !.front = (@ + 1) % MaxSteps]
  <1>1. q.queue[c].front \in Slot
    BY InstanceTypes DEF StepData
  <1>2. f \in Instance
    BY <1>1, StepFreed DEF Freed
  <1> HIDE DEF f
  <1>3. f.queue[c] \in StepData /\ f.queue \in [Slot -> StepData]
    BY <1>2, InstanceTypes
  <1>4. (f.queue[c].front + 1) % MaxSteps \in Slot
    BY <1>3, NextSlot DEF StepData
  <1>5. /\ step \in StepData /\ step.func = f.queue[c].func
        /\ step.parent = f.queue[c].parent /\ step.start = f.queue[c].start
        /\ step.ran = f.queue[c].ran /\ step.repeat = f.queue[c].repeat
        /\ step.timeout = f.queue[c].timeout /\ step.cancel = f.queue[c].cancel
        /\ step.extended = f.queue[c].extended /\ step.ext = f.queue[c].ext
        /\ step.allocs = f.queue[c].allocs /\ step.on_error = f.queue[c].on_error
        /\ step.asked = f.queue[c].asked
        /\ step.front = (f.queue[c].front + 1) % MaxSteps
    BY <1>3, <1>4 DEF StepData
  <1>6. r = [f EXCEPT !.queue[c] = step]
    BY DEF ShiftSub, f
  <1> HIDE DEF step, r
  <1>7. /\ r.queue = [f.queue EXCEPT ![c] = step] /\ SameMembers(f, r)
        /\ r.timeouts = f.timeouts /\ r.armed = f.armed /\ r.cancels = f.cancels
        /\ r.allocs = f.allocs /\ r.used = f.used
    BY <1>2, <1>6 DEF Instance, SameMembers
  <1>8. /\ r.queue \in [Slot -> StepData] /\ r.queue[c] = step
        /\ \A x \in Slot \ {c} : r.queue[x] = f.queue[x]
    BY <1>3, <1>5, <1>7
  <1>9. r \in Instance
    BY <1>2, <1>6, <1>8 DEF Instance
  <1>. QED
    BY <1>5, <1>7, <1>8, <1>9 DEF Shifted, f, r

\* Where the front of the innermost step is then.
LEMMA ShiftedFront ==
    ASSUME NEW q \in Instance, NEW m \in Mixes, Sound(q, m), NEW c \in Slot, TreeOf(q, c),
           Front(q, c) < q.size, FrontStep(q, c).ran,
           ~q.queue[q.queue[c].front].repeat, NEW r, r = ShiftSub(q, c)
    PROVE  /\ r \in Instance /\ Sound(r, m) /\ SameMembers(q, r)
           /\ \A x \in Slot : /\ r.queue[x].parent = q.queue[x].parent
                              /\ r.queue[x].start = q.queue[x].start
                              /\ r.queue[x].ran = q.queue[x].ran
           /\ \A x \in Slot \ {c} : r.queue[x].front = q.queue[x].front
           /\ Front(r, c) = Front(q, c) + 1
           /\ Front(r, c) < r.size => TreeOf(r, c) /\ NextReady(r, c)
  <1> DEFINE x == q.queue[c].front
             f == FreeStep(q, x)
  <1>1. c # None /\ q.size \in Nat /\ q.size < MaxSteps /\ MaxSteps \in Nat
    <2>1. q.size \in Nat /\ q.size \in 0 .. MaxSteps - 1
      BY InstanceTypes
    <2>. QED
      BY <2>1, NoneIsNoSlot, NitroAssumption
  <1>2. x \in Slot /\ Front(q, c) = Offset(q, x) /\ Front(q, c) \in Nat
        /\ FrontStep(q, c) = q.queue[x] /\ q.queue[x].ran
        /\ Front(q, c) + 1 \in DOMAIN Ring(q) /\ Ring(q)[Front(q, c) + 1] = x
    BY <1>1, FrontSlot
  <1>3. Freed(q, f, x)
    BY <1>2, StepFreed
  <1>4. Shifted(f, r, c)
    BY FrontShifted
  <1> HIDE DEF x, f
  <1>5. f \in Instance /\ SameMembers(q, f) /\ SameSteps(q, f) /\ Sound(f, m)
    <2>1. Sound(f, m)
      BY <1>2, <1>3, FreedKeeps
    <2>. QED
      BY <1>3, <2>1 DEF Freed
  <1>6. /\ r \in Instance /\ SameMembers(q, r)
        /\ \A y \in Slot : /\ r.queue[y].parent = q.queue[y].parent
                           /\ r.queue[y].start = q.queue[y].start
                           /\ r.queue[y].ran = q.queue[y].ran
                           /\ r.queue[y].func = q.queue[y].func
                           /\ r.queue[y].repeat = q.queue[y].repeat
        /\ \A y \in Slot \ {c} : r.queue[y].front = q.queue[y].front
        /\ r.queue[c].front = (q.queue[c].front + 1) % MaxSteps
    BY <1>4, <1>5 DEF Shifted, SameMembers, SameSteps
  <1>7. r.begin = q.begin /\ r.size = q.size
    BY <1>6 DEF SameMembers
  <1>8. Sound(r, m)
    <2>1. Repeaters(r)
      BY <1>6 DEF Sound, Repeaters
    <2>2. Syncs(r) \subseteq Syncs(f)
      BY <1>4 DEF Syncs, Shifted, SameMembers, InQueue
    <2>3. f.size \in Nat /\ Len(f.timeouts) \in Nat /\ Len(f.cancels) \in Nat
          /\ Len(f.allocs) \in Nat
      BY <1>5, InstanceTypes
    <2>4. r.size <= f.size /\ Len(r.timeouts) <= Len(f.timeouts)
          /\ Len(r.cancels) <= Len(f.cancels) /\ Len(r.allocs) <= Len(f.allocs)
      BY <1>4, <2>3 DEF Shifted, SameMembers
    <2>. QED
      BY <1>5, <1>6, <2>1, <2>2, <2>4, SoundLess
  <1>9. Front(r, c) = Front(q, c) + 1
    <2>1. Offset(q, x) + 1 < MaxSteps
      BY <1>1, <1>2
    <2>2. q.begin \in Slot
      BY InstanceTypes
    <2>3. Offset(q, (x + 1) % MaxSteps) = Offset(q, x) + 1
      BY <1>2, <2>1, <2>2, NextOffset DEF Offset
    <2>4. Front(r, c) = Offset(r, r.queue[c].front)
      BY <1>1, <1>6, FrontSlot
    <2>5. r.queue[c].front = (x + 1) % MaxSteps
      BY <1>6 DEF x
    <2>6. Front(r, c) = Offset(q, (x + 1) % MaxSteps)
      BY <1>7, <2>4, <2>5 DEF Offset
    <2>. QED
      BY <1>2, <2>3, <2>6
  <1>10. ASSUME Front(r, c) < r.size
         PROVE  TreeOf(r, c) /\ NextReady(r, c)
    <2>1. Typed(Ring(q), Marks(q), c) /\ Tree(Ring(q), Marks(q), c)
          /\ Len(Ring(q)) = q.size /\ DOMAIN Ring(q) = 1 .. q.size
      BY MarksOf, RingList DEF TreeOf
    <2>2. Ring(r) = Ring(q) /\ Typed(Ring(q), Marks(r), c)
      <3>1. Ring(r) = Ring(q)
        BY <1>7 DEF Ring
      <3>. QED
        BY <1>6, <3>1, MarksOf
    <2>3. /\ \A y \in Slot : /\ Marks(r)[y].parent = Marks(q)[y].parent
                             /\ Marks(r)[y].start = Marks(q)[y].start
                             /\ Marks(r)[y].ran = Marks(q)[y].ran
          /\ \A y \in Slot \ {c} : Marks(r)[y].front = Marks(q)[y].front
      BY <1>6, <1>7 DEF Marks, Offset
    <2>4. Marks(q)[c].front = Front(q, c) /\ Marks(r)[c].front = Front(q, c) + 1
      BY <1>1, <1>9 DEF Front, FrontOf
    <2>5. /\ Marks(r)[c].front = Marks(q)[c].front + 1 /\ Marks(r)[c].front < Len(Ring(q))
          /\ Marks(q)[Ring(q)[Marks(r)[c].front]].ran
      <3>1. Marks(q)[Ring(q)[Front(q, c) + 1]].ran
        BY <1>2, MarksOf
      <3>. QED
        BY <1>7, <1>9, <1>10, <2>1, <2>4, <3>1
    <2>6. Tree(Ring(q), Marks(r), c)
      <3>1. Typed(Ring(q), Marks(q), c) /\ Tree(Ring(q), Marks(q), c)
            /\ Typed(Ring(q), Marks(r), c)
        BY <2>1, <2>2
      <3>2. /\ \A y \in Slot : /\ Marks(r)[y].parent = Marks(q)[y].parent
                               /\ Marks(r)[y].start = Marks(q)[y].start
                               /\ Marks(r)[y].ran = Marks(q)[y].ran
            /\ \A y \in Slot \ {c} : Marks(r)[y].front = Marks(q)[y].front
        BY <2>3
      <3>3. c # None => \/ Marks(r)[c].front = Marks(q)[c].front
                        \/ /\ Marks(r)[c].front = Marks(q)[c].front + 1
                           /\ Marks(r)[c].front < Len(Ring(q))
                           /\ Marks(q)[Ring(q)[Marks(r)[c].front]].ran
        BY <2>5
      <3>. QED
        BY ONLY <3>1, <3>2, <3>3, TreeMoved
    <2>7. Front(q, c) + 2 \in DOMAIN Ring(q)
      BY <1>1, <1>2, <1>7, <1>9, <1>10, <2>1
    <2>8. ~Marks(q)[Ring(q)[Front(q, c) + 2]].ran
      <3>1. Front(q, c) + 2 > FrontOf(Marks(q), c) + 1
        BY <1>2 DEF Front
      <3>. QED
        BY <2>1, <2>7, <3>1, RestIsNew
    <2>9. Ring(r)[Front(r, c) + 1] = Ring(q)[Front(q, c) + 2]
      BY <1>2, <1>9, <2>2
    <2>10. ~FrontStep(r, c).ran
      <3>1. Ring(q)[Front(q, c) + 2] \in Slot
        BY <2>1, <2>7, RingList
      <3>. QED
        BY <1>6, <2>8, <2>9, <3>1, MarksOf DEF FrontStep
    <2>. QED
      BY <2>2, <2>6, <2>10 DEF TreeOf, NextReady
  <1>. QED
    BY <1>6, <1>8, <1>9, <1>10

\* The root step that was freed, giving f, is taken from the ring.
RootGone(f, r) ==
    /\ r \in Instance /\ r.begin = (f.begin + 1) % MaxSteps /\ r.size = f.size - 1
    /\ r.last = f.last /\ r.err = f.err /\ r.in_exec = f.in_exec
    /\ r.handle = f.handle /\ r.runs = f.runs /\ r.object = f.object
    /\ r.queue[f.begin] = Left(f.queue[f.begin])
    /\ \A x \in Slot \ {f.begin} : r.queue[x] = f.queue[x]
    /\ r.timeouts = f.timeouts /\ r.armed = f.armed /\ r.cancels = f.cancels
    /\ r.allocs = f.allocs /\ r.used = f.used /\ r.lost = f.lost

\* cond_queue_shift() of a step that does not repeat; the size, a byte, does not
\* wrap.
LEMMA RootShifted ==
    ASSUME NEW q \in Instance, 0 < q.size, ~q.queue[q.begin].repeat
    PROVE  RootGone(FreeStep(q, q.begin), ShiftRoot(q))
  <1> DEFINE f == FreeStep(q, q.begin)
             r == ShiftRoot(q)
             b == q.begin
  <1>1. b \in Slot
    BY InstanceTypes
  <1>2. f \in Instance /\ f.begin = b /\ f.size = q.size
    BY <1>1, StepFreed DEF Freed, SameMembers
  <1>3. r = [f EXCEPT !.begin = (@ + 1) % MaxSteps, !.size = (@ - 1) % 256,
                      !.queue[b] = Left(f.queue[b])]
    BY DEF ShiftRoot
  <1> HIDE DEF f, r, b
  <1>4. f.queue \in [Slot -> StepData] /\ f.queue[b] \in StepData
    BY <1>1, <1>2, InstanceTypes
  <1>5. Left(f.queue[b]) \in StepData
    BY <1>4, LeftData
  <1>6. f.size \in 0 .. MaxSteps - 1 /\ 0 < f.size /\ MaxSteps \in Nat /\ MaxSteps < 256
    BY <1>2, InstanceTypes, NitroAssumption
  <1>7. (f.size - 1) % 256 = f.size - 1 /\ f.size - 1 \in 0 .. MaxSteps - 1
    BY <1>6
  <1>8. (b + 1) % MaxSteps \in Slot
    BY <1>1, NextSlot
  <1>9. /\ r.queue = [f.queue EXCEPT ![b] = Left(f.queue[b])]
        /\ r.begin = (f.begin + 1) % MaxSteps /\ r.size = (f.size - 1) % 256
        /\ r.last = f.last /\ r.err = f.err /\ r.in_exec = f.in_exec
        /\ r.handle = f.handle /\ r.runs = f.runs /\ r.object = f.object
        /\ r.timeouts = f.timeouts /\ r.armed = f.armed /\ r.cancels = f.cancels
        /\ r.allocs = f.allocs /\ r.used = f.used /\ r.lost = f.lost
    <2> DEFINE step == Left(f.queue[b])
    <2>1. f \in Instance /\ step \in StepData
      BY <1>2, <1>5
    <2>2. r = [f EXCEPT !.begin = (@ + 1) % MaxSteps, !.size = (@ - 1) % 256,
                        !.queue[b] = step]
      BY <1>3
    <2> HIDE DEF step
    <2>3. r.queue = [f.queue EXCEPT ![b] = step]
      BY <2>1, <2>2 DEF Instance
    <2>4. /\ r.begin = (f.begin + 1) % MaxSteps /\ r.size = (f.size - 1) % 256
          /\ r.last = f.last /\ r.err = f.err /\ r.in_exec = f.in_exec
          /\ r.handle = f.handle /\ r.runs = f.runs /\ r.object = f.object
          /\ r.timeouts = f.timeouts /\ r.armed = f.armed /\ r.cancels = f.cancels
          /\ r.allocs = f.allocs /\ r.used = f.used /\ r.lost = f.lost
      BY <2>1, <2>2, ZenonT(60) DEF Instance
    <2>. QED
      BY <2>3, <2>4 DEF step
  <1>10. /\ r.queue \in [Slot -> StepData] /\ r.queue[b] = Left(f.queue[b])
         /\ \A x \in Slot \ {b} : r.queue[x] = f.queue[x]
    <2>1. r.queue = [f.queue EXCEPT ![b] = Left(f.queue[b])]
      BY <1>9
    <2>. QED
      BY <1>1, <1>4, <1>5, <2>1
  <1>11. r.begin \in Slot /\ r.size \in 0 .. MaxSteps - 1 /\ r.size = f.size - 1
    BY <1>2, <1>7, <1>8, <1>9
  <1>12. r \in Instance
    BY <1>2, <1>3, <1>9, <1>10, <1>11, ZenonT(60) DEF Instance
  <1>. QED
    BY <1>2, <1>9, <1>10, <1>11, <1>12 DEF RootGone, f, r, b

\* The rest of the ring keeps its order, its tree and its room.
LEMMA RootKeeps ==
    ASSUME NEW q \in Instance, NEW m \in Mixes, Sound(q, m), TreeOf(q, None),
           0 < q.size, q.queue[q.begin].ran,
           NEW f, Freed(q, f, q.begin), NEW r, RootGone(f, r)
    PROVE  /\ Sound(r, m) /\ TreeOf(r, None) /\ NextReady(r, None)
           /\ Ring(r) = Tail(Ring(q))
           /\ \A x \in Elements(Ring(r)) : x \in Slot \ {q.begin}
  <1> DEFINE b == q.begin
             n == q.size
  <1>1. b \in Slot /\ n \in 0 .. MaxSteps - 1 /\ 0 < n /\ n \in Nat /\ MaxSteps \in Nat \ {0}
    <2>1. b \in Slot /\ n \in 0 .. MaxSteps - 1 /\ n \in Nat
      BY InstanceTypes
    <2>. QED
      BY <2>1, NitroAssumption
  <1>2. Sound(f, m) /\ SameTree(q, f)
    BY <1>1, FreedKeeps
  <1>3. f \in Instance /\ SameMembers(q, f) /\ SameSteps(q, f)
    BY DEF Freed
  <1>4. /\ r \in Instance /\ r.begin = (b + 1) % MaxSteps /\ r.size = n - 1
        /\ \A x \in Slot \ {b} : r.queue[x] = f.queue[x]
        /\ r.queue[b] = Left(f.queue[b])
        /\ r.timeouts = f.timeouts /\ r.cancels = f.cancels /\ r.allocs = f.allocs
    BY <1>3 DEF RootGone, SameMembers
  <1>5. /\ Ring(q) \in Seq(Slot) /\ Len(Ring(q)) = n /\ DOMAIN Ring(q) = 1 .. n
        /\ Distinct(Ring(q)) /\ Ring(r) \in Seq(Slot) /\ Len(Ring(r)) = n - 1
        /\ DOMAIN Ring(r) = 1 .. n - 1
    BY <1>4, RingList
  <1>6. Ring(q)[1] = b
    <2>1. CASE TRUE
      <3>1. 1 \in 1 .. n /\ 1 - 1 = 0
        BY <1>1
      <3>2. Ring(q)[1] = Place(b, 0)
        BY <3>1, RingList
      <3>3. Place(b, 0) = b
        <4>1. b \in 0 .. MaxSteps - 1
          BY <1>1 DEF Slot
        <4>. QED
          BY <1>1, <4>1 DEF Place
      <3>. QED
        BY <3>2, <3>3
    <2>. QED
      BY <2>1
  <1>7. ASSUME NEW i \in 1 .. n - 1 PROVE Ring(r)[i] = Ring(q)[i + 1]
    <2>1. Ring(r)[i] = Place((b + 1) % MaxSteps, i - 1)
      BY <1>4, RingList
    <2>2. i + 1 \in 1 .. n /\ (i + 1) - 1 = i /\ i - 1 \in 0 .. n - 1 /\ 1 + (i - 1) = i
          /\ 1 \in 0 .. n
      BY <1>1
    <2>3. Ring(q)[i + 1] = Place(b, i)
      BY <2>2, RingList
    <2>4. (Place(b, 1) + (i - 1)) % MaxSteps = Place(b, 1 + (i - 1))
      BY <1>1, <2>2, Counted
    <2>. QED
      BY <2>1, <2>2, <2>3, <2>4 DEF Place
  <1>8. Ring(r) = Tail(Ring(q)) /\ Ring(q) # <<>>
    <2>1. /\ Tail(Ring(q)) \in Seq(Slot) /\ Len(Tail(Ring(q))) = n - 1 /\ Ring(q) # <<>>
          /\ \A i \in 1 .. n - 1 : Tail(Ring(q))[i] = Ring(q)[i + 1]
      BY <1>1, <1>5
    <2>. QED
      BY <1>1, <1>5, <1>7, <2>1
  <1>9. \A x \in Elements(Ring(r)) : x \in Slot \ {b} /\ x \in Elements(Ring(q))
    <2> SUFFICES ASSUME NEW i \in 1 .. n - 1
                 PROVE  Ring(r)[i] \in Slot \ {b} /\ Ring(r)[i] \in Elements(Ring(q))
      BY <1>5 DEF Elements
    <2>1. i + 1 \in 1 .. n /\ i + 1 # 1 /\ 1 \in 1 .. n
      BY <1>1
    <2>2. Ring(q)[i + 1] # b
      BY <1>5, <1>6, <2>1 DEF Distinct
    <2>3. Ring(q)[i + 1] \in Slot
      BY <2>1, RingList
    <2>. QED
      BY <1>5, <1>7, <2>1, <2>2, <2>3 DEF Elements
  <1>10. \A x \in Slot : InQueue(r, x) => InQueue(q, x) /\ x # b
    BY <1>4, <1>9, SlotInRing
  <1>11. Sound(r, m)
    <2>1. Repeaters(r)
      <3>1. f.queue[b] \in StepData
        BY <1>1, <1>3, InstanceTypes
      <3>2. ~Left(f.queue[b]).repeat
        BY <3>1, LeftData
      <3>3. \A x \in Slot : r.queue[x].repeat => r.queue[x] = f.queue[x]
        BY <1>4, <3>2
      <3>. QED
        BY <1>2, <3>3 DEF Sound, Repeaters
    <2>2. Syncs(r) \subseteq Syncs(f)
      <3>1. \A x \in Slot : InQueue(q, x) <=> InQueue(f, x)
        BY <1>3 DEF SameMembers, InQueue
      <3>. QED
        BY <1>4, <1>10, <3>1 DEF Syncs
    <2>3. f.size = n /\ Len(f.timeouts) \in Nat /\ Len(f.cancels) \in Nat
          /\ Len(f.allocs) \in Nat
      BY <1>3, InstanceTypes DEF SameMembers
    <2>4. r.size <= f.size /\ Len(r.timeouts) <= Len(f.timeouts)
          /\ Len(r.cancels) <= Len(f.cancels) /\ Len(r.allocs) <= Len(f.allocs)
      BY <1>1, <1>4, <2>3
    <2>. QED
      BY <1>2, <1>3, <1>4, <2>1, <2>2, <2>4, SoundLess
  <1>12. /\ Typed(Ring(q), Marks(q), None) /\ Typed(Ring(r), Marks(r), None)
         /\ Tree(Ring(q), Marks(q), None)
    BY <1>4, MarksOf DEF TreeOf
  <1>13. \A x \in Elements(Ring(r)) : Marks(r)[x].parent = Marks(q)[x].parent
                                      /\ Marks(r)[x].ran = Marks(q)[x].ran
    BY <1>3, <1>4, <1>9 DEF Marks, SameSteps
  <1>14. TreeOf(r, None)
    BY <1>8, <1>12, <1>13, TreeShifted DEF TreeOf
  <1>15. NextReady(r, None)
    <2> SUFFICES ASSUME Front(r, None) < r.size PROVE ~FrontStep(r, None).ran
      BY DEF NextReady
    <2>1. Front(r, None) = 0 /\ Front(q, None) = 0
      BY DEF Front, FrontOf
    <2>2. 1 \in 1 .. n - 1 /\ 2 \in 1 .. n
      BY <1>1, <1>4, <2>1
    <2>3. Ring(r)[1] = Ring(q)[2] /\ Ring(r)[1] \in Slot /\ Ring(r)[1] \in Elements(Ring(r))
      BY <1>5, <1>7, <2>2 DEF Elements
    <2>4. ~Marks(q)[Ring(q)[2]].ran
      <3>1. 2 \in DOMAIN Ring(q) /\ 2 > FrontOf(Marks(q), None) + 1
        BY <1>5, <2>2 DEF FrontOf
      <3>. QED
        BY <1>12, <3>1, RestIsNew
    <2>5. ~r.queue[Ring(r)[1]].ran
      BY <1>4, <1>13, <2>3, <2>4, MarksOf
    <2>. QED
      BY <2>1, <2>5 DEF FrontStep
  <1>. QED
    BY <1>8, <1>9, <1>11, <1>14, <1>15

\* reset_queue(): nothing is left.
Emptied(q, r) ==
    /\ r \in Instance /\ r.begin = 0 /\ r.size = 0 /\ r.timeouts = <<>>
    /\ r.last = q.last /\ r.err = q.err /\ r.in_exec = q.in_exec
    /\ r.handle = q.handle /\ r.runs = q.runs /\ r.object = q.object
    /\ \A x \in Slot : r.queue[x] = Left(q.queue[x])
    /\ r.armed = q.armed /\ r.cancels = q.cancels
    /\ r.allocs = q.allocs /\ r.used = q.used
    /\ r.lost = q.lost \cup Unclaimed(q, Slot)

\* reset_queue() leaves an empty queue and no timers.
LEMMA QueueReset ==
    ASSUME NEW q \in Instance
    PROVE  Emptied(q, Reset(q))
  <1> DEFINE r == Reset(q)
             queue == [s \in Slot |-> Left(q.queue[s])]
  <1>1. q.queue \in [Slot -> StepData] /\ 0 \in Slot /\ 0 \in 0 .. MaxSteps - 1
    BY InstanceTypes, NoneIsNoSlot, NitroAssumption DEF Slot
  <1>2. \A x \in Slot : Left(q.queue[x]) \in StepData
    BY <1>1, LeftData
  <1> DEFINE lost == Unclaimed(q, Slot)
  <1>3. r = [q EXCEPT !.begin = 0, !.size = 0, !.timeouts = <<>>,
                      !.lost = @ \cup lost, !.queue = queue]
    BY DEF Reset
  <1>8. lost \subseteq Ext
    BY <1>1, UnclaimedTyped
  <1>4. queue \in [Slot -> StepData] /\ \A x \in Slot : queue[x] = Left(q.queue[x])
    BY <1>2
  <1> HIDE DEF r, queue, lost
  <1>5. /\ r.queue = queue /\ r.begin = 0 /\ r.size = 0 /\ r.timeouts = <<>>
        /\ r.last = q.last /\ r.err = q.err /\ r.in_exec = q.in_exec
        /\ r.handle = q.handle /\ r.runs = q.runs /\ r.object = q.object
        /\ r.armed = q.armed /\ r.cancels = q.cancels
        /\ r.allocs = q.allocs /\ r.used = q.used /\ r.lost = q.lost \cup lost
    BY <1>3 DEF Instance
  <1>6. <<>> \in Seq([step : Slot, timer : Timer])
    OBVIOUS
  <1>7. r \in Instance
    <2>1. r.lost \in SUBSET Ext
      BY <1>5, <1>8, InstanceTypes
    <2>. QED
      BY <1>1, <1>3, <1>4, <1>5, <1>6, <2>1 DEF Instance
  <1>. QED
    BY <1>4, <1>5, <1>7 DEF Emptied, r, lost

\* An empty queue is a tree, and within the limits.
LEMMA EmptiedKeeps ==
    ASSUME NEW q \in Instance, NEW m \in Mixes, Sound(q, m), NEW r, Emptied(q, r)
    PROVE  Sound(r, m) /\ TreeOf(r, None) /\ NextReady(r, None)
  <1>1. r \in Instance /\ r.size = 0 /\ Len(r.timeouts) = 0
        /\ r.cancels = q.cancels /\ r.allocs = q.allocs
    BY DEF Emptied
  <1>2. Ring(r) = <<>>
    <2>1. Ring(r) \in Seq(Slot) /\ Len(Ring(r)) = 0
      BY <1>1, RingList
    <2>. QED
      BY <2>1
  <1>3. TreeOf(r, None)
    BY <1>2, TreeEmpty DEF TreeOf
  <1>4. NextReady(r, None)
    BY <1>1 DEF NextReady, Front, FrontOf
  <1>5. Repeaters(r)
    <2>1. \A x \in Slot : q.queue[x] \in StepData
      BY InstanceTypes
    <2>. QED
      BY <2>1, LeftData DEF Emptied, Repeaters
  <1>6. Syncs(r) = {}
    <2>1. Elements(Ring(r)) = {}
      BY <1>2 DEF Elements
    <2>. QED
      BY <1>1, <2>1, SlotInRing DEF Syncs
  <1>7. r.size <= q.size /\ Len(r.timeouts) <= Len(q.timeouts)
        /\ Len(r.cancels) <= Len(q.cancels) /\ Len(r.allocs) <= Len(q.allocs)
    <2>1. q.size \in Nat /\ Len(q.timeouts) \in Nat /\ Len(q.cancels) \in Nat
          /\ Len(q.allocs) \in Nat
      BY InstanceTypes
    <2>. QED
      BY <1>1, <2>1
  <1>8. Sound(r, m)
    BY <1>1, <1>5, <1>6, <1>7, SoundLess
  <1>. QED
    BY <1>3, <1>4, <1>8

----------------------------------------------------------------------------
(* One level of handle_error_unwind()                                       *)

\* What is used up of the level c, once its sub-steps are cut.
UsedUp(t, v, c, start) ==
    /\ v \in Instance /\ SameMembers(t, v)
    /\ \A x \in Slot : /\ v.queue[x].func = t.queue[x].func
                       /\ v.queue[x].parent = t.queue[x].parent
                       /\ v.queue[x].repeat = t.queue[x].repeat
                       /\ v.queue[x].start = t.queue[x].start
                       /\ v.queue[x].ext = t.queue[x].ext
                       /\ v.queue[x].ran = t.queue[x].ran
                       /\ v.queue[x].asked = t.queue[x].asked
                       /\ v.queue[x].extended = t.queue[x].extended
                       /\ v.queue[x].allocs = t.queue[x].allocs
                       /\ v.queue[x].timeout = (t.queue[x].timeout /\ x # c)
                       /\ v.queue[x].cancel = (t.queue[x].cancel /\ x # c)
    /\ \A x \in Slot \ {c} : v.queue[x].front = t.queue[x].front
    /\ v.queue[c].front = start
    /\ v.timeouts = Drop(t.timeouts, IF t.queue[c].timeout THEN 1 ELSE 0)
    /\ v.armed = IF t.queue[c].timeout THEN t.armed \ {Top(t.timeouts).timer}
                                       ELSE t.armed
    /\ v.cancels = Drop(t.cancels, IF t.queue[c].cancel THEN 1 ELSE 0)
    /\ v.allocs = t.allocs /\ v.used = t.used

\* What handle_error_unwind() clears of a level is its front, its timer, its
\* on_cancel and its on_error.
LEMMA LevelUsedUp ==
    ASSUME NEW t \in Instance, NEW c \in Slot, NEW start \in Slot
    PROVE  UsedUp(t, PopCancel(PopTimeout([t EXCEPT !.queue[c].front = start,
                                                    !.queue[c].on_error = "none"], c), c),
                  c, start)
  <1> DEFINE step == [t.queue[c] EXCEPT !.front = start, !.on_error = "none"]
             u == [t EXCEPT !.queue[c].front = start, !.queue[c].on_error = "none"]
             p == PopTimeout(u, c)
             v == PopCancel(p, c)
  <1>1. t.queue[c] \in StepData /\ t.queue \in [Slot -> StepData]
    BY InstanceTypes
  <1>2. /\ step \in StepData /\ step.func = t.queue[c].func
        /\ step.parent = t.queue[c].parent /\ step.repeat = t.queue[c].repeat
        /\ step.start = t.queue[c].start /\ step.ext = t.queue[c].ext
        /\ step.ran = t.queue[c].ran /\ step.asked = t.queue[c].asked
        /\ step.extended = t.queue[c].extended /\ step.allocs = t.queue[c].allocs
        /\ step.timeout = t.queue[c].timeout /\ step.cancel = t.queue[c].cancel
        /\ step.front = start
    BY <1>1 DEF StepData
  <1>3. u = [t EXCEPT !.queue[c] = step]
    BY <1>1 DEF Instance
  <1> HIDE DEF u, step
  <1>4. /\ u.queue = [t.queue EXCEPT ![c] = step] /\ SameMembers(t, u)
        /\ u.timeouts = t.timeouts /\ u.armed = t.armed /\ u.cancels = t.cancels
        /\ u.allocs = t.allocs /\ u.used = t.used
    BY <1>3 DEF Instance, SameMembers
  <1>5. /\ u.queue \in [Slot -> StepData] /\ u.queue[c] = step
        /\ \A x \in Slot \ {c} : u.queue[x] = t.queue[x]
    BY <1>1, <1>2, <1>4
  <1>6. u \in Instance
    BY <1>3, <1>5 DEF Instance
  <1>7. /\ p \in Instance /\ SameMembers(u, p) /\ SameSteps(u, p)
        /\ \A x \in Slot : /\ p.queue[x].timeout = (u.queue[x].timeout /\ x # c)
                           /\ p.queue[x].cancel = u.queue[x].cancel
                           /\ p.queue[x].wait = u.queue[x].wait
                           /\ p.queue[x].extended = u.queue[x].extended
                           /\ p.queue[x].allocs = u.queue[x].allocs
        /\ p.timeouts = Drop(u.timeouts, IF u.queue[c].timeout THEN 1 ELSE 0)
        /\ p.armed = IF u.queue[c].timeout THEN u.armed \ {Top(u.timeouts).timer}
                                           ELSE u.armed
        /\ p.cancels = u.cancels /\ p.allocs = u.allocs /\ p.used = u.used
    BY <1>6, TimeoutPopped
  <1> HIDE DEF p
  <1>8. /\ v \in Instance /\ SameMembers(p, v) /\ SameSteps(p, v)
        /\ \A x \in Slot : /\ v.queue[x].cancel = (p.queue[x].cancel /\ x # c)
                           /\ v.queue[x].timeout = p.queue[x].timeout
                           /\ v.queue[x].wait = p.queue[x].wait
                           /\ v.queue[x].extended = p.queue[x].extended
                           /\ v.queue[x].allocs = p.queue[x].allocs
        /\ v.cancels = Drop(p.cancels, IF p.queue[c].cancel THEN 1 ELSE 0)
        /\ v.timeouts = p.timeouts /\ v.armed = p.armed
        /\ v.allocs = p.allocs /\ v.used = p.used
    BY <1>7, CancelPopped
  <1> HIDE DEF v
  <1>9. SameMembers(t, v)
    BY <1>4, <1>7, <1>8 DEF SameMembers
  <1>10. /\ \A x \in Slot : 
              /\ v.queue[x].func = u.queue[x].func
              /\ v.queue[x].parent = u.queue[x].parent
              /\ v.queue[x].repeat = u.queue[x].repeat
              /\ v.queue[x].start = u.queue[x].start
              /\ v.queue[x].front = u.queue[x].front
              /\ v.queue[x].ext = u.queue[x].ext
              /\ v.queue[x].ran = u.queue[x].ran
              /\ v.queue[x].asked = u.queue[x].asked
              /\ v.queue[x].extended = u.queue[x].extended
              /\ v.queue[x].allocs = u.queue[x].allocs
              /\ v.queue[x].timeout = (u.queue[x].timeout /\ x # c)
              /\ v.queue[x].cancel = (u.queue[x].cancel /\ x # c)
    BY <1>7, <1>8 DEF SameSteps
  <1>11. \A x \in Slot : 
              /\ v.queue[x].func = t.queue[x].func
              /\ v.queue[x].parent = t.queue[x].parent
              /\ v.queue[x].repeat = t.queue[x].repeat
              /\ v.queue[x].start = t.queue[x].start
              /\ v.queue[x].ext = t.queue[x].ext
              /\ v.queue[x].ran = t.queue[x].ran
              /\ v.queue[x].asked = t.queue[x].asked
              /\ v.queue[x].extended = t.queue[x].extended
              /\ v.queue[x].allocs = t.queue[x].allocs
              /\ v.queue[x].timeout = (t.queue[x].timeout /\ x # c)
              /\ v.queue[x].cancel = (t.queue[x].cancel /\ x # c)
              /\ x # c => v.queue[x].front = t.queue[x].front
    <2> SUFFICES ASSUME NEW x \in Slot
                 PROVE  /\ v.queue[x].func = t.queue[x].func
                        /\ v.queue[x].parent = t.queue[x].parent
                        /\ v.queue[x].repeat = t.queue[x].repeat
                        /\ v.queue[x].start = t.queue[x].start
                        /\ v.queue[x].ext = t.queue[x].ext
                        /\ v.queue[x].ran = t.queue[x].ran
                        /\ v.queue[x].asked = t.queue[x].asked
                        /\ v.queue[x].extended = t.queue[x].extended
                        /\ v.queue[x].allocs = t.queue[x].allocs
                        /\ v.queue[x].timeout = (t.queue[x].timeout /\ x # c)
                        /\ v.queue[x].cancel = (t.queue[x].cancel /\ x # c)
                        /\ x # c => v.queue[x].front = t.queue[x].front
      OBVIOUS
    <2>1. CASE x = c
      BY <1>2, <1>5, <1>10, <2>1
    <2>2. CASE x # c
      BY <1>5, <1>10, <2>2
    <2>. QED
      BY <2>1, <2>2
  <1>12. v.queue[c].front = start
    BY <1>2, <1>5, <1>10
  <1>13. u.queue[c].timeout = t.queue[c].timeout /\ p.queue[c].cancel = t.queue[c].cancel
    BY <1>2, <1>5, <1>7
  <1>14. /\ v.timeouts = Drop(t.timeouts, IF t.queue[c].timeout THEN 1 ELSE 0)
         /\ v.armed = IF t.queue[c].timeout THEN t.armed \ {Top(t.timeouts).timer}
                                            ELSE t.armed
         /\ v.cancels = Drop(t.cancels, IF t.queue[c].cancel THEN 1 ELSE 0)
         /\ v.allocs = t.allocs /\ v.used = t.used
    BY <1>4, <1>7, <1>8, <1>13
  <1>. QED
    BY <1>8, <1>9, <1>11, <1>12, <1>14, ZenonT(60) DEF UsedUp, v, p, u

\* The level is cut and used up: it is the innermost one without sub-steps.
LEMMA LevelUnwound ==
    ASSUME NEW q \in Instance, NEW m \in Mixes, Sound(q, m), NEW c \in Slot, TreeOf(q, c),
           NEW t, Cut(q, t, Marks(q)[c].start),
           NEW v, UsedUp(t, v, c, q.queue[c].start)
    PROVE  /\ v \in Instance /\ Sound(v, m) /\ TreeOf(v, c) /\ SubEmpty(v, c)
           /\ Marks(v)[c].start = v.size /\ v.queue[c].parent = q.queue[c].parent
           /\ v.queue[c].func = q.queue[c].func /\ v.last = q.last
  <1>1. t \in Instance /\ Sound(t, m)
    BY CutRing, CutKeeps
  <1>2. /\ v \in Instance /\ SameMembers(t, v)
        /\ \A x \in Slot : /\ v.queue[x].func = t.queue[x].func
                           /\ v.queue[x].parent = t.queue[x].parent
                           /\ v.queue[x].repeat = t.queue[x].repeat
                           /\ v.queue[x].start = t.queue[x].start
                           /\ v.queue[x].ran = t.queue[x].ran
        /\ \A x \in Slot \ {c} : v.queue[x].front = t.queue[x].front
        /\ v.queue[c].front = q.queue[c].start
        /\ v.timeouts = Drop(t.timeouts, IF t.queue[c].timeout THEN 1 ELSE 0)
        /\ v.cancels = Drop(t.cancels, IF t.queue[c].cancel THEN 1 ELSE 0)
        /\ v.allocs = t.allocs
    BY DEF UsedUp
  <1>3. v.begin = t.begin /\ v.size = t.size /\ v.last = t.last
    BY <1>2 DEF SameMembers
  <1>4. /\ TreeOf(v, c) /\ SubEmpty(v, c) /\ Marks(v)[c].start = v.size
        /\ v.queue[c].parent = q.queue[c].parent
    BY <1>2, <1>3, LevelCut
  <1>5. Sound(v, m)
    <2>1. Repeaters(v)
      BY <1>1, <1>2 DEF Sound, Repeaters
    <2>2. Syncs(v) \subseteq Syncs(t)
      BY <1>2, <1>3 DEF Syncs, InQueue
    <2>3. t.size \in Nat /\ Len(t.allocs) \in Nat
          /\ t.timeouts \in Seq([step : Slot, timer : Timer])
          /\ t.cancels \in Seq([step : Slot, unlock : BOOLEAN])
      BY <1>1, InstanceTypes
    <2>4. \A n \in Nat : Len(Drop(t.timeouts, n)) <= Len(t.timeouts)
      BY <2>3, Dropped
    <2>5. \A n \in Nat : Len(Drop(t.cancels, n)) <= Len(t.cancels)
      BY <2>3, Dropped
    <2>6. Len(v.timeouts) <= Len(t.timeouts) /\ Len(v.cancels) <= Len(t.cancels)
      BY <1>2, <2>4, <2>5
    <2>7. v.size <= t.size /\ Len(v.allocs) <= Len(t.allocs)
      BY <1>2, <1>3, <2>3
    <2>. QED
      BY <1>1, <1>2, <2>1, <2>2, <2>6, <2>7, SoundLess
  <1>6. v.queue[c].func = q.queue[c].func /\ v.last = q.last
    <2>1. InQueue(t, c)
      BY <1>2, <1>3, <1>4, TipInUse DEF InQueue
    <2>2. t.queue[c] = q.queue[c] /\ t.last = q.last
      BY <2>1, CutRing DEF Cut
    <2>. QED
      BY <1>2, <1>3, <2>2
  <1>. QED
    BY <1>2, <1>4, <1>5, <1>6

----------------------------------------------------------------------------
(* Where the walks go on                                                    *)

\* The queue and the stacks are the same.
SameQueue(q, r) ==
    /\ r \in Instance /\ r.queue = q.queue /\ r.begin = q.begin /\ r.size = q.size
    /\ r.timeouts = q.timeouts /\ r.cancels = q.cancels /\ r.allocs = q.allocs
    /\ r.used = q.used /\ r.lost = q.lost /\ r.object = q.object

\* With the same queue and stacks, tree and limits stay as they are.
LEMMA QueueStays ==
    ASSUME NEW q \in Instance, NEW r, SameQueue(q, r)
    PROVE  /\ r \in Instance /\ SameRun(q, r)
           /\ \A m \in Mixes : Sound(q, m) => Sound(r, m)
           /\ \A o \in Slot \cup {None} : /\ TreeOf(r, o) <=> TreeOf(q, o)
                                          /\ NextReady(r, o) <=> NextReady(q, o)
                                          /\ Front(r, o) = Front(q, o)
                                          /\ FrontStep(r, o) = FrontStep(q, o)
           /\ r.size = q.size
           /\ \A n \in Nat : Part(r, n) = Part(q, n)
           /\ Marks(r) = Marks(q) /\ \A x \in Slot : SubEmpty(r, x) <=> SubEmpty(q, x)
  <1>1. SameTree(q, r) /\ SameRun(q, r) /\ r \in Instance
    BY DEF SameQueue, SameTree, SameRun
  <1>2. Ring(r) = Ring(q) /\ Marks(r) = Marks(q)
        /\ \A x \in Slot : SubEmpty(r, x) <=> SubEmpty(q, x)
    BY <1>1, TreeStays
  <1>3. Syncs(r) = Syncs(q) /\ \A n \in Nat : Part(r, n) = Part(q, n)
    BY <1>1, RunStays
  <1>4. \A m \in Mixes : Sound(q, m) => Sound(r, m)
    BY <1>1, <1>3 DEF Sound, SameQueue, Repeaters
  <1>5. \A o : (TreeOf(r, o) <=> TreeOf(q, o)) /\ Front(r, o) = Front(q, o)
    BY <1>2 DEF TreeOf, Front
  <1>6. \A o : FrontStep(r, o) = FrontStep(q, o)
    BY <1>2, <1>5 DEF FrontStep, SameQueue
  <1>7. r.size = q.size
    BY DEF SameQueue
  <1>8. \A o : NextReady(r, o) <=> NextReady(q, o)
    BY <1>5, <1>6, <1>7 DEF NextReady
  <1>. QED
    BY <1>1, <1>2, <1>3, <1>4, <1>5, <1>6, <1>7, <1>8

\* Members that are set without the queue.
LEMMA MembersSet ==
    ASSUME NEW q \in Instance
    PROVE  /\ \A err \in {"", "Timeout", "Error", "break", "continue"} :
                 SameQueue(q, [q EXCEPT !.err = err])
           /\ \A last \in Slot \cup {None} : SameQueue(q, [q EXCEPT !.last = last])
           /\ \A last \in Slot \cup {None},
                 err \in {"", "Timeout", "Error", "break", "continue"} :
                 SameQueue(q, [q EXCEPT !.last = last, !.err = err])
           /\ \A b \in BOOLEAN : SameQueue(q, [q EXCEPT !.in_exec = b])
           /\ \A b \in BOOLEAN, n \in Nat : SameQueue(q, [q EXCEPT !.handle = b, !.runs = n])
           /\ \A armed \in SUBSET Timer : SameQueue(q, [q EXCEPT !.armed = armed])
           /\ \A b, d \in BOOLEAN, n \in Nat :
                 SameQueue(q, [q EXCEPT !.in_exec = b, !.handle = d, !.runs = n])
           /\ SameQueue(q, Scheduled(q)) /\ Scheduled(q).last = q.last
           /\ Scheduled(q).in_exec = q.in_exec /\ Scheduled(q).err = q.err
           /\ Scheduled(q).armed = q.armed
  <1>1. \A n \in Nat : n + 1 \in Nat
    OBVIOUS
  <1>2. q.runs + 1 \in Nat
    BY <1>1, InstanceTypes
  <1>3. SameQueue(q, Scheduled(q)) /\ Scheduled(q).last = q.last
        /\ Scheduled(q).in_exec = q.in_exec /\ Scheduled(q).err = q.err
        /\ Scheduled(q).armed = q.armed
    <2>1. CASE q.in_exec
      BY <2>1 DEF SameQueue, Scheduled
    <2>2. CASE ~q.in_exec
      <3> DEFINE n == q.runs + 1
                 r == [q EXCEPT !.handle = TRUE, !.runs = n]
      <3>1. Scheduled(q) = r
        BY <2>2 DEF Scheduled
      <3> HIDE DEF n
      <3>2. SameQueue(q, r) /\ r.last = q.last /\ r.in_exec = q.in_exec /\ r.err = q.err
            /\ r.armed = q.armed
        BY <1>2 DEF SameQueue, Instance, n
      <3>. QED
        BY <3>1, <3>2
    <2>. QED
      BY <2>1, <2>2
  <1>4. \A b, d \in BOOLEAN, n \in Nat :
                 SameQueue(q, [q EXCEPT !.in_exec = b, !.handle = d, !.runs = n])
    <2> TAKE b, d \in BOOLEAN, n \in Nat
    <2> DEFINE r == [q EXCEPT !.in_exec = b, !.handle = d, !.runs = n]
    <2>1. r \in Instance
      BY DEF Instance
    <2>2. /\ r.queue = q.queue /\ r.begin = q.begin /\ r.size = q.size
          /\ r.timeouts = q.timeouts /\ r.cancels = q.cancels /\ r.allocs = q.allocs
          /\ r.used = q.used /\ r.object = q.object
      BY DEF Instance
    <2>. QED
      BY <2>1, <2>2 DEF SameQueue
  <1>5. \A last \in Slot \cup {None},
           err \in {"", "Timeout", "Error", "break", "continue"} :
                 SameQueue(q, [q EXCEPT !.last = last, !.err = err])
    BY ZenonT(60) DEF SameQueue, Instance
  <1>6. /\ \A err \in {"", "Timeout", "Error", "break", "continue"} :
                 SameQueue(q, [q EXCEPT !.err = err])
        /\ \A last \in Slot \cup {None} : SameQueue(q, [q EXCEPT !.last = last])
    BY DEF SameQueue, Instance
  <1>7. /\ \A b \in BOOLEAN : SameQueue(q, [q EXCEPT !.in_exec = b])
        /\ \A b \in BOOLEAN, n \in Nat : SameQueue(q, [q EXCEPT !.handle = b, !.runs = n])
        /\ \A armed \in SUBSET Timer : SameQueue(q, [q EXCEPT !.armed = armed])
    BY ZenonT(60) DEF SameQueue, Instance
  <1>. QED
    BY <1>3, <1>4, <1>5, <1>6, <1>7

\* handle_success_sync() starts to walk up from the innermost step.
LEMMA ClimbFrom ==
    ASSUME NEW q \in Instance, NEW m \in Mixes, Running(q, m), SubEmpty(q, q.last)
    PROVE  Walk(q, "climb", q.queue[q.last].parent, m)
  <1>1. q.last \in Slot /\ Sound(q, m) /\ TreeOf(q, q.last)
    BY DEF Running
  <1>2. Marks(q)[q.last].start = q.size
    BY <1>1, TipInUse
  <1> DEFINE up == q.queue[q.last].parent
  <1>3. /\ up \in Slot \cup {None} /\ TreeOf(q, up)
        /\ Front(q, up) < q.size /\ FrontStep(q, up).ran
    BY <1>1, <1>2, LeafLeft
  <1> HIDE DEF up
  <1>4. Walk(q, "climb", up, m)
    BY <1>1, <1>3 DEF Walk, TreeThere, Climbing, Ready, Control
  <1>. QED
    BY <1>4 DEF up

\* handle_error_unwind() starts from it.
LEMMA UnwindFrom ==
    ASSUME NEW q \in Instance, NEW m \in Mixes, Sound(q, m), TreeOf(q, q.last),
           NEW code \in {"", "Timeout", "Error", "break", "continue"}
    PROVE  Walk([q EXCEPT !.err = code], "unwind", q.last, m)
  <1> DEFINE r == [q EXCEPT !.err = code]
  <1>1. q.last \in Slot \cup {None}
    BY InstanceTypes
  <1>2. SameQueue(q, r) /\ r.last = q.last
    BY MembersSet DEF Instance
  <1> HIDE DEF r
  <1>3. Sound(r, m) /\ TreeOf(r, q.last)
    BY <1>1, <1>2, QueueStays
  <1>4. Walk(r, "unwind", q.last, m)
    BY <1>1, <1>2, <1>3 DEF Walk, TreeThere, Climbing, Ready, Control
  <1>. QED
    BY <1>4 DEF r

\* What a burst, a handler or nobody goes on with.
LEMMA GoOn ==
    ASSUME NEW q \in Instance, NEW m \in Mixes, Sound(q, m), TreeOf(q, q.last),
           NextReady(q, q.last), NEW c \in Slot \cup {None},
           NEW p \in {"idle", "exec"}, p = "exec" <=> q.in_exec
    PROVE  Walk(q, p, c, m)
  BY DEF Walk, TreeThere, Climbing, Ready, Control

\* A walk is sound wherever it is.
LEMMA WalkSound ==
    ASSUME NEW q, NEW p, NEW c, NEW m, Walk(q, p, c, m)
    PROVE  q \in Instance /\ Sound(q, m) /\ c \in Slot \cup {None}
           /\ q.last \in Slot \cup {None}
  <1>1. q \in Instance /\ Sound(q, m) /\ c \in Slot \cup {None}
    BY DEF Walk, Sound, Control
  <1>. QED
    BY <1>1, InstanceTypes

\* Between two of its steps the engine has a tree with the innermost step.
LEMMA WalkTree ==
    ASSUME NEW q, NEW p, NEW c, NEW m, Walk(q, p, c, m),
           p \notin {"climb", "unwind", "cancel"}
    PROVE  TreeOf(q, q.last) /\ NextReady(q, q.last)
           /\ (q.last # None => Running(q, m))
  <1>1. TreeOf(q, q.last) /\ NextReady(q, q.last) /\ Sound(q, m)
    BY DEF Walk, TreeThere, Ready
  <1>. QED
    BY <1>1, WalkSound DEF Running

----------------------------------------------------------------------------
(* What a handler calls                                                     *)

\* A change of the running step's own slot that leaves its marks alone.
LEMMA TipSet ==
    ASSUME NEW q \in Instance, NEW m \in Mixes, Running(q, m), NEW step \in StepData,
           SameMarks(q.queue[q.last], step),
           step.repeat => step.func \in {"loop", "await"},
           NEW r, r = [q EXCEPT !.queue[q.last] = step]
    PROVE  /\ r \in Instance /\ Running(r, m) /\ SameRun(q, r) /\ SameMembers(q, r)
           /\ TweakedOnly(q, r, q.last, step, q.timeouts, q.armed, q.cancels, q.allocs)
  <1>1. Tweaked(q, r, q.last, step, q.timeouts, q.armed, q.cancels, q.allocs)
    BY DEF Tweaked, Instance
  <1>2. /\ q.timeouts \in Seq([step : Slot, timer : Timer]) /\ q.armed \in SUBSET Timer
        /\ q.cancels \in Seq([step : Slot, unlock : BOOLEAN]) /\ q.allocs \in Seq(Slot)
        /\ Len(q.timeouts) \in Nat /\ Len(q.cancels) \in Nat /\ Len(q.allocs) \in Nat
    BY InstanceTypes
  <1>3. Len(q.timeouts) <= Len(q.timeouts) /\ Len(q.cancels) <= Len(q.cancels)
        /\ Len(q.allocs) <= Len(q.allocs)
    BY <1>2
  <1>. QED
    BY <1>1, <1>2, <1>3, TipTweaked

\* Only repeating steps are loops and polls, and the running step is no other.
LEMMA TipData ==
    ASSUME NEW q \in Instance, NEW m \in Mixes, Running(q, m)
    PROVE  /\ q.last \in Slot /\ q.last # None /\ q.queue[q.last] \in StepData
           /\ q.queue[q.last].repeat => q.queue[q.last].func \in {"loop", "await"}
  BY InstanceTypes, NoneIsNoSlot DEF Running, Sound, Repeaters

\* The step asks to wait, or not.
LEMMA AskedSet ==
    ASSUME NEW q \in Instance, NEW m \in Mixes, Running(q, m), NEW b \in BOOLEAN
    PROVE  LET r == [q EXCEPT !.queue[q.last].asked = b]
               step == [q.queue[q.last] EXCEPT !.asked = b]
           IN  /\ r \in Instance /\ Running(r, m) /\ SameRun(q, r) /\ SameMembers(q, r)
               /\ TweakedOnly(q, r, q.last, step, q.timeouts, q.armed, q.cancels, q.allocs)
  <1> DEFINE step == [q.queue[q.last] EXCEPT !.asked = b]
             r == [q EXCEPT !.queue[q.last].asked = b]
  <1>1. /\ q.last \in Slot /\ q.queue[q.last] \in StepData
        /\ q.queue[q.last].repeat => q.queue[q.last].func \in {"loop", "await"}
    BY TipData
  <1>2. step \in StepData /\ SameMarks(q.queue[q.last], step)
        /\ (step.repeat => step.func \in {"loop", "await"})
    BY <1>1 DEF StepData, SameMarks
  <1>3. r = [q EXCEPT !.queue[q.last] = step]
    OBVIOUS
  <1> HIDE DEF step, r
  <1>. QED
    BY <1>2, <1>3, TipSet DEF step, r

\* waitExternal()
LEMMA WaitSet ==
    ASSUME NEW q \in Instance, NEW m \in Mixes, Running(q, m)
    PROVE  LET r == WaitExternal(q)
               step == [q.queue[q.last] EXCEPT !.wait = TRUE]
           IN  /\ r \in Instance /\ Running(r, m) /\ SameRun(q, r) /\ SameMembers(q, r)
               /\ TweakedOnly(q, r, q.last, step, q.timeouts, q.armed, q.cancels, q.allocs)
  <1> DEFINE step == [q.queue[q.last] EXCEPT !.wait = TRUE]
             r == WaitExternal(q)
  <1>1. /\ q.last \in Slot /\ q.queue[q.last] \in StepData
        /\ q.queue[q.last].repeat => q.queue[q.last].func \in {"loop", "await"}
    BY TipData
  <1>2. step \in StepData /\ SameMarks(q.queue[q.last], step)
        /\ (step.repeat => step.func \in {"loop", "await"})
    BY <1>1 DEF StepData, SameMarks
  <1>3. r = [q EXCEPT !.queue[q.last] = step]
    BY DEF WaitExternal
  <1> HIDE DEF step, r
  <1>. QED
    BY <1>2, <1>3, TipSet DEF step, r

\* setCancel() with room for the handler
LEMMA CancelSet ==
    ASSUME NEW q \in Instance, NEW m \in Mixes, Running(q, m), NEW unlock \in BOOLEAN,
           Len(q.cancels) + 1 + Cardinality(Syncs(q)) <= MaxCancels
    PROVE  LET r == SetCancel(q, unlock)
               step == [q.queue[q.last] EXCEPT !.cancel = TRUE]
               cancels == Append(q.cancels, [step |-> q.last, unlock |-> unlock])
           IN  /\ r \in Instance /\ Running(r, m) /\ SameRun(q, r) /\ SameMembers(q, r)
               /\ TweakedOnly(q, r, q.last, step, q.timeouts, q.armed, cancels, q.allocs)
               /\ Len(r.cancels) = Len(q.cancels) + 1
  <1> DEFINE step == [q.queue[q.last] EXCEPT !.cancel = TRUE]
             cancels == Append(q.cancels, [step |-> q.last, unlock |-> unlock])
             r == SetCancel(q, unlock)
  <1>1. /\ q.last \in Slot /\ q.queue[q.last] \in StepData
        /\ q.queue[q.last].repeat => q.queue[q.last].func \in {"loop", "await"}
    BY TipData
  <1>2. step \in StepData /\ SameMarks(q.queue[q.last], step)
        /\ (step.repeat => step.func \in {"loop", "await"})
    BY <1>1 DEF StepData, SameMarks
  <1>3. /\ q.timeouts \in Seq([step : Slot, timer : Timer]) /\ q.armed \in SUBSET Timer
        /\ q.cancels \in Seq([step : Slot, unlock : BOOLEAN]) /\ q.allocs \in Seq(Slot)
        /\ Len(q.timeouts) \in Nat /\ Len(q.cancels) \in Nat /\ Len(q.allocs) \in Nat
    BY InstanceTypes
  <1>4. /\ cancels \in Seq([step : Slot, unlock : BOOLEAN])
        /\ Len(cancels) = Len(q.cancels) + 1
    <2>1. [step |-> q.last, unlock |-> unlock] \in [step : Slot, unlock : BOOLEAN]
      BY <1>1
    <2>. QED
      BY <1>3, <2>1
  <1>5. Tweaked(q, r, q.last, step, q.timeouts, q.armed, cancels, q.allocs)
    BY <1>1, AsTweaked
  <1> HIDE DEF step, r, cancels
  <1>6. /\ Len(q.timeouts) <= Len(q.timeouts) /\ Len(q.allocs) <= Len(q.allocs)
        /\ Len(cancels) + Cardinality(Syncs(q)) <= MaxCancels
    BY <1>3, <1>4
  <1>7. /\ r \in Instance /\ Running(r, m) /\ SameRun(q, r) /\ SameMembers(q, r)
        /\ TweakedOnly(q, r, q.last, step, q.timeouts, q.armed, cancels, q.allocs)
    BY <1>2, <1>3, <1>4, <1>5, <1>6, TipTweaked
  <1>8. Len(r.cancels) = Len(q.cancels) + 1
    BY <1>4, <1>7 DEF TweakedOnly
  <1>. QED
    BY <1>7, <1>8 DEF step, r, cancels

\* The three steps of sync() get one slot each.
LEMMA SubStepAdded ==
    ASSUME NEW q \in Instance, NEW m \in Mixes, Running(q, m),
           q.size + 1 + 3 * Cardinality(Syncs(q)) <= m.steps,
           NEW r, NEW s, NEW func \in {"lock", "body", "unlock"},
           Allocated(q, r, s, q.last, func)
    PROVE  /\ r \in Instance /\ Running(r, m) /\ r.size = q.size + 1
           /\ Cardinality(Syncs(r)) = Cardinality(Syncs(q))
           /\ r.last = q.last /\ r.in_exec = q.in_exec
  <1>1. /\ Sound(q, m) /\ q.last \in Slot /\ TreeOf(q, q.last) /\ NextReady(q, q.last)
    BY DEF Running
  <1>2. Cardinality(Syncs(q)) \in Nat
    BY SyncsCounted
  <1>3. Cardinality(Syncs(r)) = Cardinality(Syncs(q))
    <2>1. Cardinality(Syncs(r)) = Cardinality(Syncs(q)) + IF func = "sync" THEN 1 ELSE 0
      BY <1>1, SyncsAdded
    <2>. QED
      BY <1>2, <2>1
  <1>4. Len(q.cancels) + Cardinality(Syncs(r)) <= MaxCancels
    BY <1>1, <1>3 DEF Sound
  <1>5. Sound(r, m) /\ TreeOf(r, q.last) /\ NextReady(r, q.last)
    BY <1>1, <1>3, <1>4, AddedKeeps
  <1>6. r \in Instance /\ r.last = q.last /\ r.in_exec = q.in_exec /\ r.size = q.size + 1
    BY DEF Allocated
  <1>. QED
    BY <1>1, <1>3, <1>5, <1>6 DEF Running

\* The handler of the innermost step returns.
LEMMA Returns ==
    ASSUME NEW q \in Instance, allow \in Mixes, Running(q, allow), q.in_exec,
           cur \in Slot \cup {None}, Returned(q)
    PROVE  Walk(ns', pc', cur', allow)
  <1>1. q.last \in Slot /\ Sound(q, allow) /\ TreeOf(q, q.last)
        /\ q.err \in {"", "Timeout", "Error", "break", "continue"}
    BY InstanceTypes DEF Running
  <1>2. CASE q.err # ""
    <2>1. ns' = [q EXCEPT !.err = q.err] /\ cur' = q.last /\ pc' = "unwind"
      BY <1>2 DEF Returned, Raise
    <2>2. Walk([q EXCEPT !.err = q.err], "unwind", q.last, allow)
      BY <1>1, UnwindFrom
    <2>. QED
      BY <2>1, <2>2
  <1>3. CASE q.err = "" /\ SubEmpty(q, q.last)
             /\ ~(q.queue[q.last].cancel \/ q.queue[q.last].timeout \/ q.queue[q.last].wait)
    <2>1. ns' = q /\ cur' = q.queue[q.last].parent /\ pc' = "climb"
      BY <1>3 DEF Returned, Succeed
    <2>2. Walk(q, "climb", q.queue[q.last].parent, allow)
      BY <1>3, ClimbFrom
    <2>. QED
      BY <2>1, <2>2
  <1>4. CASE q.err = "" /\ ~(SubEmpty(q, q.last)
             /\ ~(q.queue[q.last].cancel \/ q.queue[q.last].timeout \/ q.queue[q.last].wait))
    <2> DEFINE b == SubEmpty(q, q.last)
               r == [q EXCEPT !.queue[q.last].asked = b]
    <2>1. ns' = r /\ pc' = "exec" /\ cur' = cur
      BY <1>4 DEF Returned
    <2>2. b \in BOOLEAN
      BY DEF SubEmpty
    <2> HIDE DEF b
    <2>3. r \in Instance /\ Running(r, allow) /\ SameMembers(q, r)
      BY <2>2, AskedSet
    <2> HIDE DEF r
    <2>4. r.last = q.last /\ r.in_exec
      BY <2>3 DEF SameMembers
    <2>5. Sound(r, allow) /\ TreeOf(r, r.last) /\ NextReady(r, r.last)
      BY <2>3 DEF Running
    <2>6. Walk(r, "exec", cur, allow)
      BY <2>3, <2>4, <2>5, GoOn
    <2>. QED
      BY <2>1, <2>6
  <1>. QED
    BY <1>2, <1>3, <1>4

----------------------------------------------------------------------------
(* Each action keeps the invariant: where the walks stand                   *)

\* What TreeInv says of the instance between two steps of the engine.
LEMMA Here ==
    ASSUME TreeInv
    PROVE  /\ allow \in Mixes /\ ns \in Instance /\ Sound(ns, allow)
           /\ cur \in Slot \cup {None} /\ ns.last \in Slot \cup {None}
           /\ pc \notin {"climb", "unwind", "cancel"} =>
                /\ TreeOf(ns, ns.last) /\ NextReady(ns, ns.last)
                /\ ns.last # None => Running(ns, allow)
  <1>1. Walk(ns, pc, cur, allow) /\ allow \in Mixes
    BY DEF TreeInv, Others
  <1>2. /\ ns \in Instance /\ Sound(ns, allow) /\ cur \in Slot \cup {None}
        /\ ns.last \in Slot \cup {None}
    BY <1>1, WalkSound
  <1>3. pc \notin {"climb", "unwind", "cancel"} =>
          /\ TreeOf(ns, ns.last) /\ NextReady(ns, ns.last)
          /\ ns.last # None => Running(ns, allow)
    BY <1>1, WalkTree
  <1>. QED
    BY <1>1, <1>2, <1>3

\* Within its limit a client finds an extended state that is not in use.
LEMMA OneUnused ==
    ASSUME NEW m \in Mixes, NEW used, Cardinality(used) < m.extended
    PROVE  used # Ext
  <1>1. MaxExtended \in Nat \ {0} /\ m.extended \in 1 .. MaxExtended
    BY Bounds
  <1>2. Cardinality(Ext) = MaxExtended
    <2>1. Cardinality(0 .. MaxExtended - 1) = (MaxExtended - 1) - 0 + 1
      BY <1>1, FS_Interval
    <2>. QED
      BY <1>1, <2>1 DEF Ext
  <1>. QED
    BY <1>1, <1>2

\* A step is added where there is room.
LEMMA AddWalks ==
    ASSUME TreeInv, Roomy, Add
    PROVE  Walk(ns', pc', cur', allow)
  <1>1. /\ allow \in Mixes /\ ns \in Instance /\ Sound(ns, allow)
        /\ cur \in Slot \cup {None} /\ ns.last \in Slot \cup {None}
        /\ TreeOf(ns, ns.last) /\ NextReady(ns, ns.last)
    BY Here DEF Add
  <1>2. PICK kind \in Kinds : Fits(kind) /\ ns' = AddStep(ns, ns.last, kind)
    BY DEF Add
  <1> DEFINE s == QueueEnd(ns)
             n == Cardinality(Syncs(ns))
             d == IF kind.func = "sync" THEN 1 ELSE 0
  <1>3. n \in Nat /\ d \in 0 .. 1
    BY <1>1, SyncsCounted
  <1>4. SyncsToRun = Syncs(ns)
    BY DEF SyncsToRun, Syncs, Alive
  <1>5. /\ ns.size + 1 + 3 * (n + d) <= allow.steps
        /\ Len(ns.cancels) + (n + d) <= MaxCancels
        /\ kind.func # "user" => Cardinality(ns.used) < allow.extended
    BY <1>2, <1>4 DEF Fits
  <1>16. kind.func # "user" => ns.used # Ext
    BY <1>1, <1>5, OneUnused
  <1>6. allow.steps \in Nat /\ allow.steps < MaxSteps /\ MaxSteps \in Nat /\ ns.size \in Nat
    BY <1>1, Bounds, InstanceTypes DEF Roomy
  <1>7. ns.size + 1 < MaxSteps
    BY <1>3, <1>5, <1>6
  <1>8. Allocated(ns, ns', s, ns.last, kind.func)
    BY <1>1, <1>2, <1>7, <1>16, StepAdded
  <1>9. Cardinality(Syncs(ns')) = n + d
    BY <1>1, <1>8, SyncsAdded
  <1>10. Sound(ns', allow) /\ TreeOf(ns', ns.last) /\ NextReady(ns', ns.last)
    BY <1>1, <1>5, <1>8, <1>9, AddedKeeps
  <1>11. ns'.last = ns.last /\ ns'.in_exec = ns.in_exec
    BY <1>8 DEF Allocated
  <1>12. pc = "idle" => ns.last = None
    <2> SUFFICES ASSUME pc = "idle", ns.last # None PROVE FALSE
      OBVIOUS
    <2>1. ns.size # 0
      BY <1>1, TipInUse
    <2>. QED
      BY <2>1 DEF Add
  <1>13. \/ pc' = pc /\ pc \in {"build", "handler", "on_error"}
         \/ pc' = "build" /\ pc = "idle"
    BY DEF Add
  <1>14. cur' = cur /\ Control(ns, pc, cur)
    BY DEF Add, TreeInv, Walk
  <1>15. Control(ns', pc', cur')
    BY <1>11, <1>12, <1>13, <1>14 DEF Control
  <1>. QED
    BY <1>10, <1>11, <1>13, <1>15 DEF Walk, TreeThere, Climbing, Ready

\* The members that execute() and the bursts set leave the tree alone.
LEMMA QueueWalks ==
    ASSUME NEW q \in Instance, NEW r, NEW m \in Mixes, SameQueue(q, r), Sound(q, m),
           TreeOf(q, r.last), NextReady(q, r.last), r.last \in Slot \cup {None},
           NEW c \in Slot \cup {None}, NEW p \in {"idle", "exec"}, p = "exec" <=> r.in_exec
    PROVE  Walk(r, p, c, m)
  <1>1. r \in Instance /\ Sound(r, m) /\ TreeOf(r, r.last) /\ NextReady(r, r.last)
    BY QueueStays
  <1>. QED
    BY <1>1, GoOn

\* execute()
LEMMA ExecuteWalks ==
    ASSUME TreeInv, Execute
    PROVE  Walk(ns', pc', cur', allow)
  <1>1. /\ allow \in Mixes /\ ns \in Instance /\ Sound(ns, allow)
        /\ cur \in Slot \cup {None} /\ ns.last \in Slot \cup {None}
        /\ TreeOf(ns, ns.last) /\ NextReady(ns, ns.last) /\ ~ns.in_exec
    BY Here DEF Execute, TreeInv, Walk, Control
  <1>2. ns' = Scheduled(ns) /\ pc' = "idle" /\ cur' = cur
    BY DEF Execute
  <1>3. SameQueue(ns, ns') /\ ns'.last = ns.last /\ ns'.in_exec = ns.in_exec
    BY <1>1, <1>2, MembersSet
  <1>. QED
    BY <1>1, <1>2, <1>3, QueueWalks

\* A burst begins
LEMMA BeginWalks ==
    ASSUME TreeInv, BeginBurst
    PROVE  Walk(ns', pc', cur', allow)
  <1>1. /\ allow \in Mixes /\ ns \in Instance /\ Sound(ns, allow)
        /\ cur \in Slot \cup {None} /\ ns.last \in Slot \cup {None}
        /\ TreeOf(ns, ns.last) /\ NextReady(ns, ns.last)
    BY Here DEF BeginBurst
  <1> DEFINE n == ns.runs - 1
             r == [ns EXCEPT !.in_exec = TRUE, !.handle = FALSE, !.runs = n]
  <1>2. ns' = r /\ pc' = "exec" /\ cur' = cur
    BY DEF BeginBurst
  <1>3. n \in Nat
    <2>1. ns.runs \in Nat /\ ns.runs > 0
      BY <1>1, InstanceTypes DEF BeginBurst
    <2>. QED
      BY <2>1
  <1> HIDE DEF n
  <1>4. SameQueue(ns, r) /\ r.last = ns.last /\ r.in_exec
    BY <1>1, <1>3, MembersSet DEF Instance
  <1> HIDE DEF r
  <1>5. Walk(r, "exec", cur, allow)
    BY <1>1, <1>4, QueueWalks
  <1>. QED
    BY <1>2, <1>5

\* and ends.
LEMMA EndWalks ==
    ASSUME TreeInv, EndBurst
    PROVE  Walk(ns', pc', cur', allow)
  <1>1. /\ allow \in Mixes /\ ns \in Instance /\ Sound(ns, allow)
        /\ cur \in Slot \cup {None} /\ ns.last \in Slot \cup {None}
        /\ TreeOf(ns, ns.last) /\ NextReady(ns, ns.last)
    BY Here DEF EndBurst
  <1> DEFINE q == [ns EXCEPT !.in_exec = FALSE]
  <1>2. (ns' = q \/ ns' = Scheduled(q)) /\ pc' = "idle" /\ cur' = cur
    BY DEF EndBurst
  <1>3. SameQueue(ns, q) /\ q.last = ns.last /\ ~q.in_exec
    BY <1>1, MembersSet DEF Instance
  <1> HIDE DEF q
  <1>4. q \in Instance /\ SameQueue(q, Scheduled(q)) /\ Scheduled(q).last = q.last
        /\ Scheduled(q).in_exec = q.in_exec
    BY <1>3, MembersSet DEF SameQueue
  <1>5. SameQueue(ns, ns') /\ ns'.last = ns.last /\ ~ns'.in_exec
    BY <1>2, <1>3, <1>4 DEF SameQueue
  <1>. QED
    BY <1>1, <1>2, <1>5, QueueWalks

\* A part of the ring from its beginning.
LEMMA PartList ==
    ASSUME NEW q \in Instance, NEW n \in 0 .. q.size
    PROVE  /\ Part(q, n) \in Seq(Slot) /\ Len(Part(q, n)) = n
           /\ \A k \in 0 .. n : SubSeq(Part(q, n), 1, k) = Part(q, k)
           /\ Part(q, q.size) = Ring(q)
           /\ \A tip \in Slot \cup {None} : Typed(Part(q, n), Marks(q), tip)
  <1>1. q.size \in Nat /\ n \in Nat /\ n <= q.size
    <2>1. q.size \in Nat
      BY InstanceTypes
    <2>. QED
      BY <2>1
  <1>2. Ring(q) \in Seq(Slot) /\ Len(Ring(q)) = q.size
    BY RingList
  <1>3. Part(q, n) \in Seq(Slot) /\ Len(Part(q, n)) = n
    BY <1>1, <1>2 DEF Part
  <1>4. ASSUME NEW k \in 0 .. n
        PROVE  SubSeq(Part(q, n), 1, k) = Part(q, k)
    BY <1>1, <1>2 DEF Part
  <1>5. Part(q, q.size) = Ring(q)
    BY <1>1, <1>2 DEF Part
  <1>6. \A tip \in Slot \cup {None} : Typed(Part(q, n), Marks(q), tip)
    BY <1>3, MarksOf DEF Typed
  <1>. QED
    BY <1>3, <1>4, <1>5, <1>6

\* cancel() begins where the flow is
LEMMA CancelWalks ==
    ASSUME TreeInv, Cancel
    PROVE  Walk(ns', pc', cur', allow)
  <1>1. /\ allow \in Mixes /\ ns \in Instance /\ Sound(ns, allow)
        /\ cur \in Slot \cup {None} /\ ns.last \in Slot \cup {None}
        /\ TreeOf(ns, ns.last) /\ ~ns.in_exec
    BY Here DEF Cancel, TreeInv, Walk, Control
  <1> DEFINE n == IF ns.handle THEN ns.runs - 1 ELSE ns.runs
             r == [ns EXCEPT !.handle = FALSE, !.runs = n]
  <1>2. ns' = r /\ pc' = "cancel" /\ cur' = cur
    BY DEF Cancel
  <1>3. n \in Nat
    <2>1. ns.runs \in Nat /\ (ns.handle => ns.runs > 0)
      BY <1>1, InstanceTypes DEF TreeInv, Others
    <2>. QED
      BY <2>1
  <1> HIDE DEF n
  <1>4. SameQueue(ns, r) /\ r.last = ns.last /\ ~r.in_exec
    BY <1>1, <1>3, MembersSet DEF Instance
  <1> HIDE DEF r
  <1>5. Sound(r, allow) /\ TreeOf(r, r.last) /\ r \in Instance
    BY <1>1, <1>4, QueueStays
  <1>6. r.size \in Nat
    BY <1>5, InstanceTypes
  <1>7. Part(r, r.size) = Ring(r) /\ r.size \in 0 .. r.size
    <2>1. r.size \in 0 .. r.size
      BY <1>6
    <2>. QED
      BY <1>5, <2>1, PartList
  <1>8. TreeThere(r, "cancel", cur)
    BY <1>5, <1>7 DEF TreeThere, TreeOf
  <1>9. Walk(r, "cancel", cur, allow)
    BY <1>1, <1>4, <1>5, <1>8 DEF Walk, Climbing, Ready, Control
  <1>. QED
    BY <1>2, <1>9

\* and goes on with the parent.
LEMMA CancelLevelWalks ==
    ASSUME TreeInv, CancelLevel
    PROVE  Walk(ns', pc', cur', allow)
  <1> DEFINE tip == ns.last
             up == ns.queue[tip].parent
             f == FreeStep(ns, tip)
             r == [f EXCEPT !.last = up]
  <1>1. /\ allow \in Mixes /\ ns \in Instance /\ Sound(ns, allow)
        /\ cur \in Slot \cup {None} /\ tip \in Slot /\ ~ns.in_exec
    BY Here DEF CancelLevel, TreeInv, Walk, Control
  <1>2. ns' = r /\ pc' = "cancel" /\ cur' = cur
    BY DEF CancelLevel
  <1>3. PICK n \in 0 .. ns.size : Tree(Part(ns, n), Marks(ns), tip)
    BY DEF CancelLevel, TreeInv, Walk, TreeThere
  <1>4. up \in Slot \cup {None} /\ Marks(ns)[tip].parent = up
    <2>1. ns.queue[tip] \in StepData
      BY <1>1, InstanceTypes
    <2>. QED
      BY <1>1, <2>1, MarksOf DEF StepData
  <1> DEFINE k == Marks(ns)[tip].start
             kept == SubSeq(Part(ns, n), 1, k)
  <1>5. Typed(Part(ns, n), Marks(ns), tip) /\ tip # None /\ Len(Part(ns, n)) = n
    BY <1>1, PartList, NoneIsNoSlot
  <1>6. KeepsPath(Part(ns, n), Marks(ns), tip, k, kept)
    BY <1>3, <1>5, KeptPath
  <1>7. k \in 0 .. n
    BY <1>5, <1>6 DEF KeepsPath
  <1>8. kept = Part(ns, k)
    BY <1>1, <1>7, PartList
  <1>9. ns.size \in Nat /\ k \in 0 .. ns.size
    <2>1. ns.size \in Nat
      BY <1>1, InstanceTypes
    <2>. QED
      BY <1>7, <2>1
  <1>10. Typed(kept, Marks(ns), up)
    BY <1>1, <1>4, <1>8, <1>9, PartList
  <1>11. Tree(kept, Marks(ns), up)
    BY <1>3, <1>4, <1>5, <1>6, <1>10, TreeLeft
  <1> HIDE DEF kept, k
  <1>12. Freed(ns, f, tip)
    BY <1>1, StepFreed
  <1> HIDE DEF f, up
  <1>13. Sound(f, allow) /\ SameTree(ns, f) /\ f \in Instance /\ f.in_exec = ns.in_exec
    <2>1. Sound(f, allow) /\ SameTree(ns, f)
      BY <1>1, <1>12, FreedKeeps
    <2>. QED
      BY <1>12, <2>1 DEF Freed, SameMembers
  <1>14. SameQueue(f, r) /\ r.last = up /\ r.in_exec = f.in_exec
    BY <1>4, <1>13, MembersSet DEF Instance
  <1> HIDE DEF r
  <1>15. Sound(r, allow) /\ r \in Instance /\ r.size = f.size
         /\ Marks(r) = Marks(f) /\ Part(r, k) = Part(f, k)
    BY <1>1, <1>9, <1>13, <1>14, QueueStays
  <1>16. Marks(f) = Marks(ns) /\ Ring(f) = Ring(ns) /\ f.size = ns.size
    BY <1>1, <1>13, TreeStays DEF SameTree
  <1>17. Tree(Part(r, k), Marks(r), r.last) /\ k \in 0 .. r.size
    BY <1>8, <1>9, <1>11, <1>14, <1>15, <1>16 DEF Part
  <1>18. Walk(r, "cancel", cur, allow)
    BY <1>1, <1>4, <1>13, <1>14, <1>15, <1>17
       DEF Walk, TreeThere, Climbing, Ready, Control
  <1>. QED
    BY <1>2, <1>18

\* The queue is reset when no step is left to look at.
LEMMA ResetWalks ==
    ASSUME TreeInv, CancelEnd \/ UnwindRoot
    PROVE  Walk(ns', pc', cur', allow)
  <1>1. /\ allow \in Mixes /\ ns \in Instance /\ Sound(ns, allow)
        /\ cur \in Slot \cup {None}
    BY Here
  <1>2. /\ ns.last = None /\ ns' = Reset(ns) /\ cur' = cur
        /\ pc' = IF ns.in_exec THEN "exec" ELSE "idle"
    <2>1. CASE CancelEnd
      BY <2>1 DEF CancelEnd, TreeInv, Walk, Control
    <2>2. CASE UnwindRoot
      BY <2>2 DEF UnwindRoot, Return, TreeInv, Walk, Control
    <2>. QED
      BY <2>1, <2>2
  <1> DEFINE r == Reset(ns)
  <1>3. Emptied(ns, r)
    BY <1>1, QueueReset
  <1> HIDE DEF r
  <1>4. Sound(r, allow) /\ TreeOf(r, None) /\ NextReady(r, None)
    BY <1>1, <1>3, EmptiedKeeps
  <1>5. r \in Instance /\ r.last = None /\ r.in_exec = ns.in_exec
    BY <1>2, <1>3 DEF Emptied
  <1>6. Walk(r, IF ns.in_exec THEN "exec" ELSE "idle", cur, allow)
    BY <1>1, <1>4, <1>5, GoOn
  <1>. QED
    BY <1>2, <1>6 DEF r

\* A walk that ends the program, or nothing of the walk.
LEMMA StopWalks ==
    ASSUME TreeInv, UNCHANGED <<ns, cur, pc>>
    PROVE  Walk(ns', pc', cur', allow)
  BY DEF TreeInv

\* The members of the instance when the step in which it waits succeeds or
\* fails.
LEMMA EventWalks ==
    ASSUME TreeInv, ExternalEvent
    PROVE  Walk(ns', pc', cur', allow)
  <1>1. /\ allow \in Mixes /\ ns \in Instance /\ ns.last # None
        /\ SubEmpty(ns, ns.last)
    BY Here DEF ExternalEvent, Waiting
  <1>2. Running(ns, allow)
    BY <1>1, Here DEF ExternalEvent
  <1> DEFINE q == [ns EXCEPT !.queue[ns.last].asked = FALSE]
  <1>3. Succeed(q) \/ Raise(q, "Error")
    BY DEF ExternalEvent
  <1>4. q \in Instance /\ Running(q, allow) /\ SameRun(ns, q) /\ SameMembers(ns, q)
    BY <1>1, <1>2, AskedSet
  <1> HIDE DEF q
  <1>5. q.last = ns.last /\ SubEmpty(q, q.last)
    BY <1>1, <1>2, <1>4, RunStays DEF Running, SameMembers
  <1>6. Walk(q, "climb", q.queue[q.last].parent, allow)
    BY <1>1, <1>4, <1>5, ClimbFrom
  <1>7. Walk([q EXCEPT !.err = "Error"], "unwind", q.last, allow)
    BY <1>1, <1>4, UnwindFrom DEF Running
  <1>. QED
    BY <1>3, <1>6, <1>7 DEF Succeed, Raise

\* A call of success() on another thread changes nothing of the tree yet.
LEMMA ForeignSuccessWalks ==
    ASSUME TreeInv, ForeignSuccess
    PROVE  Walk(ns', pc', cur', allow)
  <1>1. /\ allow \in Mixes /\ ns \in Instance /\ ns.last # None
        /\ pc \in {"idle", "exec"} /\ cur \in Slot \cup {None}
    BY Here DEF ForeignSuccess, Waiting
  <1>2. Running(ns, allow)
    BY <1>1, Here
  <1> DEFINE q == [ns EXCEPT !.queue[ns.last].asked = FALSE]
  <1>3. ns' = q /\ pc' = pc /\ cur' = cur
    BY DEF ForeignSuccess
  <1>4. q \in Instance /\ Running(q, allow) /\ SameMembers(ns, q)
    BY <1>1, <1>2, AskedSet
  <1> HIDE DEF q
  <1>5. pc = "exec" <=> q.in_exec
    BY <1>1, <1>4 DEF SameMembers, TreeInv, Walk, Control
  <1>6. Walk(q, pc, cur, allow)
    BY <1>1, <1>4, <1>5, GoOn DEF Running
  <1>. QED
    BY <1>3, <1>6

\* The task that executes it climbs from a running step, or stops the program.
LEMMA ForeignTaskWalks ==
    ASSUME TreeInv, ForeignTask
    PROVE  Walk(ns', pc', cur', allow)
  <1>1. CASE ns.last # None /\ SubEmpty(ns, ns.last)
    <2>1. allow \in Mixes /\ ns \in Instance /\ Running(ns, allow)
      BY <1>1, Here DEF ForeignTask
    <2>2. Walk(ns, "climb", ns.queue[ns.last].parent, allow)
      BY <1>1, <2>1, ClimbFrom
    <2>. QED
      BY <1>1, <2>2 DEF ForeignTask, Succeed
  <1>2. CASE ~(ns.last # None /\ SubEmpty(ns, ns.last))
    BY <1>2, StopWalks DEF ForeignTask, Stop
  <1>. QED
    BY <1>1, <1>2

\* A timer unwinds from the innermost step, or stops the program.
LEMMA TimerWalks ==
    ASSUME TreeInv, NEW t \in Timer, TimerFire(t)
    PROVE  Walk(ns', pc', cur', allow)
  <1>1. CASE ns.last = None
    BY <1>1, StopWalks DEF TimerFire, Stop
  <1>2. CASE ns.last # None
    <2>1. allow \in Mixes /\ ns \in Instance /\ Sound(ns, allow) /\ TreeOf(ns, ns.last)
          /\ ns.last \in Slot
      BY <1>2, Here DEF TimerFire
    <2> DEFINE armed == ns.armed \ {t}
               q == [ns EXCEPT !.armed = armed]
    <2>2. Raise(q, "Timeout")
      BY <1>2 DEF TimerFire
    <2>3. armed \in SUBSET Timer
      BY <2>1, InstanceTypes
    <2> HIDE DEF armed
    <2>4. SameQueue(ns, q) /\ q.last = ns.last
      BY <2>1, <2>3, MembersSet DEF Instance
    <2> HIDE DEF q
    <2>5. q \in Instance /\ Sound(q, allow) /\ TreeOf(q, q.last)
      BY <2>1, <2>4, QueueStays
    <2>6. Walk([q EXCEPT !.err = "Timeout"], "unwind", q.last, allow)
      BY <2>1, <2>5, UnwindFrom
    <2>. QED
      BY <2>2, <2>6 DEF Raise
  <1>. QED
    BY <1>1, <1>2

\* The next step is called when it is in the queue: it has not run, or it loops
\* or polls.
LEMMA Called ==
    ASSUME TreeInv, pc = "exec", NextStep \in Alive
    PROVE  /\ Begun(ns, Started, NextStep, allow) /\ NextStep \in Slot
           /\ Started \in Instance /\ Running(Started, allow) /\ Started.in_exec
           /\ Started.last = NextStep /\ SubEmpty(Started, NextStep)
           /\ ns.queue[NextStep].ran => ns.queue[NextStep].repeat
           /\ Started.queue[NextStep].func = ns.queue[NextStep].func
           /\ Started.queue[NextStep].allocs = ns.queue[NextStep].allocs
           /\ allow \in Mixes /\ ns \in Instance /\ cur \in Slot \cup {None}
           /\ NextStep # None
  <1> DEFINE s == NextStep
             r == Started
  <1>1. /\ allow \in Mixes /\ ns \in Instance /\ Sound(ns, allow) /\ TreeOf(ns, ns.last)
        /\ NextReady(ns, ns.last) /\ ns.last \in Slot \cup {None}
        /\ cur \in Slot \cup {None}
    BY Here
  <1>2. s \in Slot /\ InQueue(ns, s) /\ s = IF ns.last = None THEN ns.begin
                                            ELSE ns.queue[ns.last].front
    BY DEF Alive, NextStep
  <1>3. StartedBy(ns, r, s) /\ IsNext(ns, s)
    BY DEF StartedBy, IsNext, NextStep, Started
  <1>4. Front(ns, ns.last) < ns.size /\ FrontStep(ns, ns.last) = ns.queue[s]
    BY <1>1, <1>2, FrontSlot
  <1>5. ns.queue[s].ran => ns.queue[s].repeat
    BY <1>1, <1>4 DEF NextReady
  <1> HIDE DEF s, r
  <1>6. Begun(ns, r, s, allow)
    BY <1>1, <1>2, <1>3, StepStarted
  <1>7. r \in Instance /\ Running(r, allow) /\ r.last = s /\ r.in_exec /\ SubEmpty(r, s)
    BY <1>6 DEF Begun, TreeInv, Walk, Control
  <1>8. r.queue[s].func = ns.queue[s].func /\ r.queue[s].allocs = ns.queue[s].allocs
    <2>1. ns.queue[s] \in StepData
      BY <1>1, <1>2, InstanceTypes
    <2>2. r.queue[s] = [ns.queue[s] EXCEPT !.start = QueueEnd(ns), !.front = QueueEnd(ns),
                                           !.ran = TRUE, !.asked = FALSE]
      BY <1>6 DEF Begun
    <2>. QED
      BY <2>1, <2>2 DEF StepData
  <1>. QED
    BY <1>1, <1>2, <1>5, <1>6, <1>7, <1>8, NoneIsNoSlot DEF s, r

\* Client code is called.
LEMMA UserWalks ==
    ASSUME TreeInv, pc = "exec", NextStep \in Alive,
           ns' = Started, pc' = "handler", cur' = cur
    PROVE  Walk(ns', pc', cur', allow)
  <1> DEFINE q == Started
  <1>1. Running(q, allow) /\ q.in_exec /\ cur \in Slot \cup {None}
        /\ q.last # None
    BY Called
  <1> HIDE DEF q
  <1>2. Walk(q, "handler", cur, allow)
    BY <1>1 DEF Running, Walk, TreeThere, Climbing, Ready, Control
  <1>. QED
    BY <1>2 DEF q

\* HandleLoop
LEMMA LoopWalks ==
    ASSUME TreeInv, pc = "exec", NextStep \in Alive, ns.queue[NextStep].func = "loop",
           LoopHandler
    PROVE  Walk(ns', pc', cur', allow)
  <1> DEFINE s == NextStep
             b == Started
             kept == Drop(b.allocs, ns.queue[s].allocs)
             step == [b.queue[s] EXCEPT !.allocs = 0]
             q == [b EXCEPT !.allocs = kept, !.queue[s].allocs = 0]
             again == [q EXCEPT !.queue[s].repeat = TRUE, !.queue[s].on_error = "loop"]
             done == [q EXCEPT !.queue[s].repeat = FALSE]
  <1>1. \/ ns' = again /\ pc' = "handler" /\ cur' = cur
        \/ Returned(done)
    BY DEF LoopHandler
  <1>2. /\ b \in Instance /\ Running(b, allow) /\ b.last = s /\ b.in_exec /\ s \in Slot
        /\ b.queue[s].func = "loop" /\ allow \in Mixes /\ cur \in Slot \cup {None}
        /\ ns \in Instance /\ s # None
    BY Called
  <1>3. /\ b.queue[s] \in StepData /\ ns.queue[s].allocs \in Nat
        /\ b.timeouts \in Seq([step : Slot, timer : Timer]) /\ b.armed \in SUBSET Timer
        /\ b.cancels \in Seq([step : Slot, unlock : BOOLEAN]) /\ b.allocs \in Seq(Slot)
        /\ Len(b.timeouts) \in Nat /\ Len(b.cancels) \in Nat /\ Len(b.allocs) \in Nat
    <2>1. ns.queue[s] \in StepData
      BY <1>2, InstanceTypes
    <2>. QED
      BY <1>2, <2>1, InstanceTypes DEF StepData
  <1>4. kept \in Seq(Slot) /\ Len(kept) <= Len(b.allocs)
        /\ Len(b.timeouts) <= Len(b.timeouts) /\ Len(b.cancels) <= Len(b.cancels)
    BY <1>3, Dropped
  <1>5. step \in StepData /\ SameMarks(b.queue[s], step)
        /\ (step.repeat => step.func \in {"loop", "await"})
        /\ step.func = "loop"
    BY <1>2, <1>3 DEF StepData, SameMarks
  <1> HIDE DEF kept
  <1>6. Tweaked(b, q, s, step, b.timeouts, b.armed, b.cancels, kept)
    BY <1>2, <1>3 DEF Tweaked, Instance
  <1> HIDE DEF s, b, step, q
  <1>7. /\ q \in Instance /\ Running(q, allow) /\ SameMembers(b, q)
        /\ TweakedOnly(b, q, s, step, b.timeouts, b.armed, b.cancels, kept)
    BY <1>2, <1>3, <1>4, <1>5, <1>6, TipTweaked
  <1>8. /\ q.last = s /\ q.in_exec /\ q.queue[s] \in StepData /\ q.queue[s].func = "loop"
    BY <1>2, <1>5, <1>7 DEF SameMembers, TweakedOnly
  <1> DEFINE more == [q.queue[s] EXCEPT !.repeat = TRUE, !.on_error = "loop"]
             over == [q.queue[s] EXCEPT !.repeat = FALSE]
  <1>9. /\ more \in StepData /\ SameMarks(q.queue[s], more) /\ more.func = "loop"
        /\ over \in StepData /\ SameMarks(q.queue[s], over) /\ over.func = "loop"
    BY <1>8 DEF StepData, SameMarks
  <1>10. again = [q EXCEPT !.queue[s] = more]
    OBVIOUS
  <1>11. done = [q EXCEPT !.queue[s] = over]
    OBVIOUS
  <1> HIDE DEF more, over, again, done
  <1>12. again \in Instance /\ Running(again, allow) /\ SameMembers(q, again)
    BY <1>2, <1>7, <1>8, <1>9, <1>10, TipSet
  <1>13. done \in Instance /\ Running(done, allow) /\ SameMembers(q, done)
    BY <1>2, <1>7, <1>8, <1>9, <1>11, TipSet
  <1>14. again.in_exec /\ again.last = s /\ done.in_exec
    BY <1>8, <1>12, <1>13 DEF SameMembers
  <1>15. Walk(again, "handler", cur, allow)
    BY <1>2, <1>12, <1>14 DEF Running, Walk, TreeThere, Climbing, Ready, Control
  <1>16. CASE Returned(done)
    BY <1>2, <1>13, <1>14, <1>16, Returns
  <1>. QED
    BY <1>1, <1>15, <1>16

\* HandleAwait
LEMMA AwaitWalks ==
    ASSUME TreeInv, pc = "exec", NextStep \in Alive, ns.queue[NextStep].func = "await",
           AwaitHandler
    PROVE  Walk(ns', pc', cur', allow)
  <1> DEFINE s == NextStep
             b == Started
             q == [b EXCEPT !.queue[s].repeat = FALSE]
             r == [q EXCEPT !.queue[s].repeat = TRUE]
  <1>1. Returned(q) \/ Returned(r) \/ Raise(q, "Error")
    BY DEF AwaitHandler
  <1>2. /\ b \in Instance /\ Running(b, allow) /\ b.last = s /\ b.in_exec /\ s \in Slot
        /\ b.queue[s].func = "await" /\ allow \in Mixes /\ cur \in Slot \cup {None}
    BY Called
  <1> DEFINE over == [b.queue[s] EXCEPT !.repeat = FALSE]
  <1>3. b.queue[s] \in StepData
    BY <1>2, InstanceTypes
  <1>4. over \in StepData /\ SameMarks(b.queue[s], over) /\ over.func = "await"
    BY <1>2, <1>3 DEF StepData, SameMarks
  <1>5. q = [b EXCEPT !.queue[s] = over]
    OBVIOUS
  <1> HIDE DEF over, s, b, q
  <1>6. /\ q \in Instance /\ Running(q, allow) /\ SameMembers(b, q)
        /\ TweakedOnly(b, q, s, over, b.timeouts, b.armed, b.cancels, b.allocs)
    BY <1>2, <1>4, <1>5, TipSet
  <1>7. q.last = s /\ q.in_exec /\ q.queue[s] \in StepData /\ q.queue[s].func = "await"
    BY <1>2, <1>4, <1>6 DEF SameMembers, TweakedOnly
  <1> DEFINE more == [q.queue[s] EXCEPT !.repeat = TRUE]
  <1>8. more \in StepData /\ SameMarks(q.queue[s], more) /\ more.func = "await"
    BY <1>7 DEF StepData, SameMarks
  <1>9. r = [q EXCEPT !.queue[s] = more]
    OBVIOUS
  <1> HIDE DEF more, r
  <1>10. r \in Instance /\ Running(r, allow) /\ SameMembers(q, r)
    BY <1>2, <1>6, <1>7, <1>8, <1>9, TipSet
  <1>11. r.in_exec
    BY <1>7, <1>10 DEF SameMembers
  <1>12. CASE Returned(q)
    BY <1>2, <1>6, <1>7, <1>12, Returns
  <1>13. CASE Returned(r)
    BY <1>2, <1>10, <1>11, <1>13, Returns
  <1>14. CASE Raise(q, "Error")
    <2>1. Walk([q EXCEPT !.err = "Error"], "unwind", q.last, allow)
      BY <1>2, <1>6, UnwindFrom DEF Running
    <2>. QED
      BY <1>14, <2>1 DEF Raise
  <1>. QED
    BY <1>1, <1>12, <1>13, <1>14

\* HandleSync: there is room for the three steps and for the on_cancel.
LEMMA SyncWalks ==
    ASSUME TreeInv, Roomy, pc = "exec", NextStep \in Alive,
           ns.queue[NextStep].func = "sync", SyncHandler
    PROVE  Walk(ns', pc', cur', allow)
  <1> DEFINE s == NextStep
             b == Started
             c == SetCancel(b, TRUE)
             n == Cardinality(Syncs(b))
  <1>1. /\ b \in Instance /\ Running(b, allow) /\ b.last = s /\ b.in_exec /\ s \in Slot
        /\ allow \in Mixes /\ cur \in Slot \cup {None} /\ ns \in Instance
        /\ Begun(ns, b, s, allow) /\ Sound(ns, allow)
        /\ (ns.queue[s].ran => ns.queue[s].repeat)
    BY Called, Here
  <1>2. PICK on_error \in {"none", "user"} :
           LET q == AllocStep(c, s, "lock")
               t == AllocStep(q, s, "body")
               r == [t EXCEPT !.queue[QueueEnd(q)].on_error = on_error]
           IN  Returned(AllocStep(r, s, "unlock"))
    BY DEF SyncHandler, OnErrors
  <1>3. s \in Syncs(ns)
    <2>1. ~ns.queue[s].repeat
      BY <1>1 DEF Sound, Repeaters
    <2>. QED
      BY <1>1, <2>1 DEF Syncs, Alive
  <1>4. /\ n \in Nat /\ Cardinality(Syncs(ns)) = n + 1 /\ b.size = ns.size
        /\ b.cancels = ns.cancels
    <2>1. IsFiniteSet(Syncs(ns)) /\ Cardinality(Syncs(ns)) \in Nat
      BY <1>1, SyncsCounted
    <2>2. Syncs(b) = Syncs(ns) \ {s} /\ b.size = ns.size /\ b.cancels = ns.cancels
      BY <1>1 DEF Begun
    <2>3. Cardinality(Syncs(b)) = Cardinality(Syncs(ns)) - 1
      BY <1>3, <2>1, <2>2, FS_RemoveElement
    <2>4. n \in Nat
      BY <1>1, SyncsCounted
    <2>. QED
      BY <2>1, <2>2, <2>3, <2>4
  <1>5. /\ allow.steps \in Nat /\ allow.steps < MaxSteps /\ MaxSteps \in Nat
        /\ MaxCancels \in Nat /\ b.size \in Nat /\ Len(b.cancels) \in Nat
    BY <1>1, Bounds, InstanceTypes DEF Roomy
  <1>6. b.size + 3 * (n + 1) <= allow.steps /\ Len(b.cancels) + (n + 1) <= MaxCancels
    BY <1>1, <1>4 DEF Sound
  <1>7. Len(b.cancels) + 1 + n <= MaxCancels
    BY <1>4, <1>5, <1>6
  <1> HIDE DEF s, b
  <1>8. c \in Instance /\ Running(c, allow) /\ SameRun(b, c) /\ SameMembers(b, c)
    BY <1>1, <1>7, CancelSet
  <1> HIDE DEF c
  <1>9. /\ c.last = s /\ c.in_exec /\ c.size = b.size /\ Syncs(c) = Syncs(b)
    BY <1>1, <1>8, RunStays DEF SameMembers
  <1> DEFINE q == AllocStep(c, s, "lock")
  <1>10. /\ c.size + 1 + 3 * Cardinality(Syncs(c)) <= allow.steps /\ c.size + 1 < MaxSteps
    BY <1>4, <1>5, <1>6, <1>9
  <1>11. Allocated(c, q, QueueEnd(c), s, "lock")
    BY <1>1, <1>8, <1>10, StepAllocated
  <1> HIDE DEF q
  <1>12. /\ q \in Instance /\ Running(q, allow) /\ q.size = c.size + 1
         /\ Cardinality(Syncs(q)) = n /\ q.last = s /\ q.in_exec
    BY <1>1, <1>8, <1>9, <1>10, <1>11, SubStepAdded
  <1>13. /\ q.size + 1 + 3 * Cardinality(Syncs(q)) <= allow.steps /\ q.size + 1 < MaxSteps
    BY <1>4, <1>5, <1>6, <1>9, <1>12, SMTT(40)
  <1> DEFINE t == AllocStep(q, s, "body")
             r == [t EXCEPT !.queue[QueueEnd(q)].on_error = on_error]
  <1>14. Allocated(q, t, QueueEnd(q), s, "body") /\ Plain(q, t, QueueEnd(q))
    BY <1>1, <1>12, <1>13, StepAllocated
  <1> HIDE DEF t
  <1>15. QueueEnd(q) \in Slot
    BY <1>12, RingEnd
  <1>16. Allocated(q, r, QueueEnd(q), s, "body")
    BY <1>12, <1>14, <1>15, OnErrorSet
  <1> HIDE DEF r
  <1>17. /\ r \in Instance /\ Running(r, allow) /\ r.size = q.size + 1
         /\ Cardinality(Syncs(r)) = n /\ r.last = s /\ r.in_exec
    BY <1>1, <1>12, <1>13, <1>16, SubStepAdded
  <1>18. /\ r.size + 1 + 3 * Cardinality(Syncs(r)) <= allow.steps /\ r.size + 1 < MaxSteps
    BY <1>4, <1>5, <1>6, <1>9, <1>12, <1>17, SMTT(40)
  <1> DEFINE u == AllocStep(r, s, "unlock")
  <1>19. Allocated(r, u, QueueEnd(r), s, "unlock")
    BY <1>1, <1>17, <1>18, StepAllocated
  <1>20. Returned(u)
    BY <1>2 DEF q, t, r
  <1> HIDE DEF u
  <1>21. u \in Instance /\ Running(u, allow) /\ u.in_exec
    <2>1. Allocated(r, u, QueueEnd(r), r.last, "unlock")
      BY <1>17, <1>19
    <2>2. u \in Instance /\ Running(u, allow) /\ u.in_exec = r.in_exec
      BY <1>1, <1>17, <1>18, <2>1, SubStepAdded
    <2>. QED
      BY <1>17, <2>2
  <1>. QED
    BY <1>1, <1>20, <1>21, Returns

\* sync_lock_handler()
LEMMA LockWalks ==
    ASSUME TreeInv, pc = "exec", NextStep \in Alive, LockHandler
    PROVE  Walk(ns', pc', cur', allow)
  <1> DEFINE q == Started
             w == WaitExternal(q)
  <1>1. /\ q \in Instance /\ Running(q, allow) /\ q.in_exec
        /\ allow \in Mixes /\ cur \in Slot \cup {None}
    BY Called
  <1>2. \/ UNCHANGED <<ns, cur, pc>>
        \/ Returned(q)
        \/ Returned(w)
        \/ Raise(q, "Error")
    BY DEF LockHandler, Stop
  <1> HIDE DEF q
  <1>3. w \in Instance /\ Running(w, allow) /\ SameMembers(q, w)
    BY <1>1, WaitSet
  <1> HIDE DEF w
  <1>4. w.in_exec
    BY <1>1, <1>3 DEF SameMembers
  <1>5. CASE Returned(q)
    BY <1>1, <1>5, Returns
  <1>6. CASE Returned(w)
    BY <1>1, <1>3, <1>4, <1>6, Returns
  <1>7. CASE Raise(q, "Error")
    <2>1. Walk([q EXCEPT !.err = "Error"], "unwind", q.last, allow)
      BY <1>1, UnwindFrom DEF Running
    <2>. QED
      BY <1>7, <2>1 DEF Raise
  <1>. QED
    BY <1>2, <1>5, <1>6, <1>7, StopWalks

\* One step of a burst.
LEMMA RunWalks ==
    ASSUME TreeInv, Roomy, RunStep
    PROVE  Walk(ns', pc', cur', allow)
  <1>1. CASE NextStep \notin Alive
    BY <1>1, StopWalks DEF RunStep, Stop
  <1>2. CASE NextStep \in Alive
    <2>1. pc = "exec" /\ Handler(ns.queue[NextStep].func)
      BY <1>2 DEF RunStep
    <2>2. CASE ns' = Started /\ pc' = "handler" /\ cur' = cur
      BY <1>2, <2>1, <2>2, UserWalks
    <2>3. CASE ns.queue[NextStep].func = "loop" /\ LoopHandler
      BY <1>2, <2>1, <2>3, LoopWalks
    <2>4. CASE ns.queue[NextStep].func = "await" /\ AwaitHandler
      BY <1>2, <2>1, <2>4, AwaitWalks
    <2>5. CASE ns.queue[NextStep].func = "sync" /\ SyncHandler
      BY <1>2, <2>1, <2>5, SyncWalks
    <2>6. CASE LockHandler
      BY <1>2, <2>1, <2>6, LockWalks
    <2>7. CASE UnlockHandler
      <3>1. Returned(Started)
        BY <2>7 DEF UnlockHandler
      <3>2. /\ Started \in Instance /\ Running(Started, allow) /\ Started.in_exec
            /\ allow \in Mixes /\ cur \in Slot \cup {None}
        BY <1>2, <2>1, Called
      <3>. QED
        BY <3>1, <3>2, Returns
    <2>. QED
      BY <2>1, <2>2, <2>3, <2>4, <2>5, <2>6, <2>7 DEF Handler
  <1>. QED
    BY <1>1, <1>2

\* A handler goes on.
LEMMA HandlerWalks ==
    ASSUME NEW q, NEW m, Running(q, m), q.in_exec, NEW c \in Slot \cup {None}
    PROVE  Walk(q, "handler", c, m)
  BY NoneIsNoSlot DEF Running, Walk, TreeThere, Climbing, Ready, Control

\* What user code finds in a handler.
LEMMA InHandler ==
    ASSUME TreeInv, pc = "handler"
    PROVE  /\ ns \in Instance /\ Running(ns, allow) /\ ns.in_exec
           /\ allow \in Mixes /\ cur \in Slot \cup {None} /\ ns.last \in Slot
           /\ ns.queue[ns.last] \in StepData
           /\ ns.queue[ns.last].repeat => ns.queue[ns.last].func \in {"loop", "await"}
  <1>1. ns.last # None /\ ns.in_exec
    BY DEF TreeInv, Walk, Control
  <1>2. ns \in Instance /\ Running(ns, allow) /\ allow \in Mixes /\ cur \in Slot \cup {None}
    BY <1>1, Here
  <1>. QED
    BY <1>1, <1>2, TipData

\* setCancel(), waitExternal()
LEMMA WaitWalks ==
    ASSUME TreeInv, Wait
    PROVE  Walk(ns', pc', cur', allow)
  <1>1. pc = "handler" /\ pc' = pc /\ cur' = cur
    BY DEF Wait
  <1>2. /\ ns \in Instance /\ Running(ns, allow) /\ ns.in_exec
        /\ allow \in Mixes /\ cur \in Slot \cup {None}
    BY <1>1, InHandler
  <1>3. CASE ns' = WaitExternal(ns)
    <2>1. Running(ns', allow) /\ SameMembers(ns, ns')
      BY <1>2, <1>3, WaitSet
    <2>2. ns'.in_exec
      BY <1>2, <2>1 DEF SameMembers
    <2>. QED
      BY <1>1, <1>2, <2>1, <2>2, HandlerWalks
  <1>4. CASE /\ Len(ns.cancels) + Cardinality(SyncsToRun) < MaxCancels
             /\ ns' = SetCancel(ns, FALSE)
    <2>1. SyncsToRun = Syncs(ns)
      BY DEF SyncsToRun, Syncs, Alive
    <2>2. Cardinality(Syncs(ns)) \in Nat /\ Len(ns.cancels) \in Nat /\ MaxCancels \in Nat
      BY <1>2, SyncsCounted, InstanceTypes, Bounds
    <2>3. Len(ns.cancels) + 1 + Cardinality(Syncs(ns)) <= MaxCancels
      BY <1>4, <2>1, <2>2
    <2>4. Running(ns', allow) /\ SameMembers(ns, ns')
      BY <1>2, <1>4, <2>3, CancelSet
    <2>5. ns'.in_exec
      BY <1>2, <2>4 DEF SameMembers
    <2>. QED
      BY <1>1, <1>2, <2>4, <2>5, HandlerWalks
  <1>. QED
    BY <1>3, <1>4 DEF Wait

\* setTimeout()
LEMMA SetTimeoutWalks ==
    ASSUME TreeInv, SetTimeout
    PROVE  Walk(ns', pc', cur', allow)
  <1>1. pc = "handler" /\ pc' = pc /\ cur' = cur
    BY DEF SetTimeout
  <1>2. /\ ns \in Instance /\ Running(ns, allow) /\ ns.in_exec /\ ns.last \in Slot
        /\ allow \in Mixes /\ cur \in Slot \cup {None} /\ ns.queue[ns.last] \in StepData
        /\ ns.queue[ns.last].repeat => ns.queue[ns.last].func \in {"loop", "await"}
    BY <1>1, InHandler
  <1>3. PICK t \in Timer :
          ns' = [ns EXCEPT !.timeouts = Append(@, [step |-> ns.last, timer |-> t]),
                           !.armed = @ \cup {t},
                           !.queue[ns.last].timeout = TRUE]
    BY DEF SetTimeout
  <1> DEFINE timeouts == Append(ns.timeouts, [step |-> ns.last, timer |-> t])
             armed == ns.armed \cup {t}
             step == [ns.queue[ns.last] EXCEPT !.timeout = TRUE]
  <1>4. /\ ns.timeouts \in Seq([step : Slot, timer : Timer]) /\ ns.armed \in SUBSET Timer
        /\ ns.cancels \in Seq([step : Slot, unlock : BOOLEAN]) /\ ns.allocs \in Seq(Slot)
        /\ Len(ns.timeouts) \in Nat /\ Len(ns.cancels) \in Nat /\ Len(ns.allocs) \in Nat
        /\ MaxTimeouts \in Nat
    BY <1>2, InstanceTypes, Bounds
  <1>5. /\ timeouts \in Seq([step : Slot, timer : Timer]) /\ armed \in SUBSET Timer
        /\ Len(timeouts) <= MaxTimeouts
    <2>1. [step |-> ns.last, timer |-> t] \in [step : Slot, timer : Timer]
      BY <1>2
    <2>2. Len(ns.timeouts) < MaxTimeouts
      BY DEF SetTimeout
    <2>3. /\ timeouts \in Seq([step : Slot, timer : Timer])
          /\ Len(timeouts) = Len(ns.timeouts) + 1
      BY <1>4, <2>1
    <2>. QED
      BY <1>4, <2>2, <2>3
  <1>6. step \in StepData /\ SameMarks(ns.queue[ns.last], step)
        /\ (step.repeat => step.func \in {"loop", "await"})
    BY <1>2 DEF StepData, SameMarks
  <1>7. Tweaked(ns, ns', ns.last, step, timeouts, armed, ns.cancels, ns.allocs)
    BY <1>2, <1>3 DEF Tweaked, Instance
  <1> HIDE DEF timeouts, armed, step
  <1>8. Len(ns.cancels) <= Len(ns.cancels) /\ Len(ns.allocs) <= Len(ns.allocs)
    BY <1>4
  <1>9. Running(ns', allow) /\ SameMembers(ns, ns')
    BY <1>2, <1>4, <1>5, <1>6, <1>7, <1>8, TipTweaked
  <1>10. ns'.in_exec
    BY <1>2, <1>9 DEF SameMembers
  <1>. QED
    BY <1>1, <1>2, <1>9, <1>10, HandlerWalks

\* stack()
LEMMA StackWalks ==
    ASSUME TreeInv, Stack
    PROVE  Walk(ns', pc', cur', allow)
  <1>1. pc = "handler" /\ pc' = pc /\ cur' = cur
    BY DEF Stack
  <1>2. /\ ns \in Instance /\ Running(ns, allow) /\ ns.in_exec /\ ns.last \in Slot
        /\ allow \in Mixes /\ cur \in Slot \cup {None} /\ ns.queue[ns.last] \in StepData
        /\ ns.queue[ns.last].repeat => ns.queue[ns.last].func \in {"loop", "await"}
    BY <1>1, InHandler
  <1> DEFINE n == ns.queue[ns.last].allocs + 1
             step == [ns.queue[ns.last] EXCEPT !.allocs = n]
             allocs == Append(ns.allocs, ns.last)
  <1>3. /\ ns.timeouts \in Seq([step : Slot, timer : Timer]) /\ ns.armed \in SUBSET Timer
        /\ ns.cancels \in Seq([step : Slot, unlock : BOOLEAN]) /\ ns.allocs \in Seq(Slot)
        /\ Len(ns.timeouts) \in Nat /\ Len(ns.cancels) \in Nat /\ Len(ns.allocs) \in Nat
        /\ MaxStackAllocs \in Nat
    BY <1>2, InstanceTypes, Bounds
  <1>4. allocs \in Seq(Slot) /\ Len(allocs) <= MaxStackAllocs
    <2>1. Len(ns.allocs) < MaxStackAllocs
      BY DEF Stack
    <2>2. allocs \in Seq(Slot) /\ Len(allocs) = Len(ns.allocs) + 1
      BY <1>2, <1>3
    <2>. QED
      BY <1>3, <2>1, <2>2
  <1>5. n \in Nat
    <2>1. ns.queue[ns.last].allocs \in Nat
      BY <1>2 DEF StepData
    <2>. QED
      BY <2>1
  <1>6. Tweaked(ns, ns', ns.last, step, ns.timeouts, ns.armed, ns.cancels, allocs)
    BY <1>2 DEF Tweaked, Instance, Stack
  <1> HIDE DEF n
  <1>7. step \in StepData /\ SameMarks(ns.queue[ns.last], step)
        /\ (step.repeat => step.func \in {"loop", "await"})
    BY <1>2, <1>5 DEF StepData, SameMarks
  <1> HIDE DEF step, allocs
  <1>8. Len(ns.cancels) <= Len(ns.cancels) /\ Len(ns.timeouts) <= Len(ns.timeouts)
    BY <1>3
  <1>9. Running(ns', allow) /\ SameMembers(ns, ns')
    BY <1>2, <1>3, <1>4, <1>6, <1>7, <1>8, TipTweaked
  <1>10. ns'.in_exec
    BY <1>2, <1>9 DEF SameMembers
  <1>. QED
    BY <1>1, <1>2, <1>9, <1>10, HandlerWalks

\* The handler returns, or fails.
LEMMA EndHandlerWalks ==
    ASSUME TreeInv, EndHandler
    PROVE  Walk(ns', pc', cur', allow)
  <1>1. /\ ns \in Instance /\ Running(ns, allow) /\ ns.in_exec
        /\ allow \in Mixes /\ cur \in Slot \cup {None} /\ ns.last \in Slot
    BY InHandler DEF EndHandler
  <1>2. \/ Returned(ns)
        \/ SubEmpty(ns, ns.last) /\ Succeed(ns)
        \/ \E code \in Codes : Raise(ns, code)
    BY DEF EndHandler, NoSubs
  <1>3. CASE Returned(ns)
    BY <1>1, <1>3, Returns
  <1>4. CASE SubEmpty(ns, ns.last) /\ Succeed(ns)
    <2>1. Walk(ns, "climb", ns.queue[ns.last].parent, allow)
      BY <1>1, <1>4, ClimbFrom
    <2>. QED
      BY <1>4, <2>1 DEF Succeed
  <1>5. ASSUME NEW code \in Codes, Raise(ns, code)
        PROVE  Walk(ns', pc', cur', allow)
    <2>1. code \in {"", "Timeout", "Error", "break", "continue"}
      BY DEF Codes
    <2>2. Walk([ns EXCEPT !.err = code], "unwind", ns.last, allow)
      BY <1>1, <2>1, UnwindFrom DEF Running
    <2>. QED
      BY <1>5, <2>2 DEF Raise
  <1>. QED
    BY <1>2, <1>3, <1>4, <1>5

\* A level of the walk up is left, or goes on with its next step.
LEMMA ClimbWalks ==
    ASSUME TreeInv, Climb
    PROVE  Walk(ns', pc', cur', allow)
  <1> DEFINE c == cur
             f == ns.queue[c].front
             q == ShiftSub(ns, c)
             up == ns.queue[c].parent
  <1>1. /\ allow \in Mixes /\ ns \in Instance /\ Sound(ns, allow) /\ c \in Slot
        /\ c # None
    BY Here DEF Climb
  <1>2. TreeOf(ns, c) /\ Front(ns, c) < ns.size /\ FrontStep(ns, c).ran
    BY DEF TreeInv, Walk, TreeThere, Climbing, Climb
  <1>3. f \in Slot /\ FrontStep(ns, c) = ns.queue[f] /\ Front(ns, c) \in Nat
        /\ ns.size \in Nat /\ ~SubEmpty(ns, c)
    <2>1. ns.size \in Nat
      BY <1>1, InstanceTypes
    <2>2. f \in Slot /\ FrontStep(ns, c) = ns.queue[f] /\ Front(ns, c) \in Nat
          /\ (SubEmpty(ns, c) <=> Front(ns, c) = ns.size)
      BY <1>1, <1>2, FrontSlot
    <2>. QED
      BY <1>2, <2>1, <2>2
  <1>4. IF SubEmpty(q, c)
        THEN ns' = SubQueueFree(q, c) /\ cur' = up /\ pc' = "climb"
        ELSE /\ ns' = Scheduled([q EXCEPT !.last = c]) /\ cur' = cur
             /\ pc' = IF ns.in_exec THEN "exec" ELSE "idle"
    BY DEF Climb, Return
  <1>5. ASSUME NEW r \in Instance, Sound(r, allow), TreeOf(r, c), NextReady(r, c),
               r.in_exec = ns.in_exec, ns' = Scheduled([r EXCEPT !.last = c]), cur' = cur,
               pc' = IF ns.in_exec THEN "exec" ELSE "idle"
        PROVE  Walk(ns', pc', cur', allow)
    <2> DEFINE t == [r EXCEPT !.last = c]
    <2>1. SameQueue(r, t) /\ t.last = c /\ t.in_exec = r.in_exec /\ t \in Instance
      BY <1>1, MembersSet DEF Instance
    <2> HIDE DEF t
    <2>2. SameQueue(t, Scheduled(t)) /\ Scheduled(t).last = t.last
          /\ Scheduled(t).in_exec = t.in_exec
      BY <2>1, MembersSet
    <2>3. SameQueue(r, ns') /\ ns'.last = c /\ ns'.in_exec = ns.in_exec
      BY <1>5, <2>1, <2>2 DEF SameQueue, t
    <2>. QED
      BY <1>1, <1>5, <2>3, QueueWalks
  <1>6. CASE ns.queue[f].repeat
    <2>1. q = ns
      BY <1>6 DEF ShiftSub
    <2>2. NextReady(ns, c)
      BY <1>3, <1>6 DEF NextReady
    <2>. QED
      BY <1>1, <1>2, <1>3, <1>4, <1>5, <2>1, <2>2
  <1>7. CASE ~ns.queue[f].repeat
    <2>1. /\ q \in Instance /\ Sound(q, allow) /\ SameMembers(ns, q)
          /\ \A x \in Slot : /\ q.queue[x].parent = ns.queue[x].parent
                             /\ q.queue[x].start = ns.queue[x].start
                             /\ q.queue[x].ran = ns.queue[x].ran
          /\ \A x \in Slot \ {c} : q.queue[x].front = ns.queue[x].front
          /\ Front(q, c) = Front(ns, c) + 1
          /\ (Front(q, c) < q.size => TreeOf(q, c) /\ NextReady(q, c))
      BY <1>1, <1>2, <1>7, ShiftedFront
    <2> HIDE DEF q
    <2>2. q.begin = ns.begin /\ q.size = ns.size /\ q.in_exec = ns.in_exec
      BY <2>1 DEF SameMembers
    <2>3. SubEmpty(q, c) <=> Front(q, c) = q.size
      BY <1>1, <2>1, FrontSlot
    <2>4. CASE SubEmpty(q, c)
      <3> DEFINE k == Marks(ns)[c].start
                 t == SubQueueFree(q, c)
      <3>1. k \in 0 .. q.size
        <4>1. k <= ns.size /\ k = Offset(ns, ns.queue[c].start)
              /\ ns.queue[c].start \in Slot
          <5>1. ns.queue[c] \in StepData
            BY <1>1, InstanceTypes
          <5>. QED
            BY <1>1, <1>2, <5>1, TipInUse, MarksOf DEF StepData
        <4>2. k \in 0 .. MaxSteps - 1 /\ MaxSteps \in Nat
          BY <1>1, <4>1, SlotInRing, Bounds
        <4>. QED
          BY <1>3, <2>2, <4>1, <4>2
      <3>2. Offset(q, q.queue[c].start) = k
        BY <1>1, <2>1, <2>2, MarksOf DEF Offset
      <3> HIDE DEF k
      <3>3. Cut(q, t, k)
        BY <1>1, <2>1, <3>1, <3>2, SubFreed
      <3> HIDE DEF t
      <3>4. Sound(t, allow)
        BY <1>1, <2>1, <3>3, CutKeeps
      <3>5. Cut(q, t, Marks(ns)[c].start)
        BY <3>3 DEF k
      <3>6. /\ t \in Instance /\ up \in Slot \cup {None} /\ TreeOf(t, up)
            /\ Front(t, up) < t.size /\ FrontStep(t, up).ran
        BY <1>1, <1>2, <2>1, <2>2, <3>5, LevelLeft
      <3>7. Walk(t, "climb", up, allow)
        BY <3>4, <3>6 DEF Walk, TreeThere, Climbing, Ready, Control
      <3>. QED
        BY <1>4, <2>4, <3>7 DEF t
    <2>5. CASE ~SubEmpty(q, c)
      <3>1. Front(q, c) < q.size
        BY <1>2, <1>3, <2>1, <2>2, <2>3, <2>5
      <3>. QED
        BY <1>4, <1>5, <2>1, <2>2, <2>5, <3>1
    <2>. QED
      BY <2>4, <2>5
  <1>. QED
    BY <1>6, <1>7

\* The root step is left, or runs again.
LEMMA ClimbRootWalks ==
    ASSUME TreeInv, ClimbRoot
    PROVE  Walk(ns', pc', cur', allow)
  <1> DEFINE b == [ns EXCEPT !.last = None]
             r == ShiftRoot(b)
  <1>1. /\ allow \in Mixes /\ ns \in Instance /\ Sound(ns, allow) /\ cur \in Slot \cup {None}
        /\ cur = None
    BY Here DEF ClimbRoot
  <1>2. TreeOf(ns, None) /\ Front(ns, None) < ns.size /\ FrontStep(ns, None).ran
    BY DEF TreeInv, Walk, TreeThere, Climbing, ClimbRoot
  <1>3. /\ ns' = (IF r.size # 0 THEN Scheduled(r) ELSE r) /\ cur' = cur
        /\ pc' = IF ns.in_exec THEN "exec" ELSE "idle"
    BY DEF ClimbRoot, Return
  <1>4. SameQueue(ns, b) /\ b.last = None /\ b.in_exec = ns.in_exec
    BY <1>1, MembersSet DEF Instance
  <1> HIDE DEF b
  <1>5. /\ b \in Instance /\ Sound(b, allow) /\ TreeOf(b, None) /\ Front(b, None) < b.size
        /\ FrontStep(b, None).ran
    BY <1>1, <1>2, <1>4, QueueStays
  <1>6. Front(b, None) = 0 /\ FrontStep(b, None) = b.queue[b.begin] /\ 0 < b.size
    <2>1. Front(b, None) = 0
      BY DEF Front, FrontOf
    <2>. QED
      BY <1>5, <2>1, FrontSlot
  <1>7. /\ r \in Instance /\ Sound(r, allow) /\ TreeOf(r, None) /\ NextReady(r, None)
        /\ r.last = None /\ r.in_exec = ns.in_exec
    <2>1. CASE b.queue[b.begin].repeat
      <3>1. r = b
        BY <2>1 DEF ShiftRoot
      <3>2. NextReady(b, None)
        BY <1>6, <2>1 DEF NextReady
      <3>. QED
        BY <1>4, <1>5, <3>1, <3>2
    <2>2. CASE ~b.queue[b.begin].repeat
      <3> DEFINE f == FreeStep(b, b.begin)
      <3>1. b.begin \in Slot
        BY <1>5, InstanceTypes
      <3>2. Freed(b, f, b.begin) /\ RootGone(f, r)
        BY <1>5, <1>6, <2>2, <3>1, StepFreed, RootShifted
      <3> HIDE DEF f, r
      <3>3. Sound(r, allow) /\ TreeOf(r, None) /\ NextReady(r, None)
        BY <1>1, <1>5, <1>6, <3>2, RootKeeps
      <3>4. r \in Instance /\ r.last = f.last /\ r.in_exec = f.in_exec
        BY <3>2 DEF RootGone
      <3>5. f.last = b.last /\ f.in_exec = b.in_exec
        BY <3>2 DEF Freed, SameMembers
      <3>. QED
        BY <1>4, <3>3, <3>4, <3>5
    <2>. QED
      BY <2>1, <2>2
  <1> HIDE DEF r
  <1>8. SameQueue(r, ns') /\ ns'.last = None /\ ns'.in_exec = ns.in_exec
    <2>1. SameQueue(r, Scheduled(r)) /\ Scheduled(r).last = r.last
          /\ Scheduled(r).in_exec = r.in_exec
      BY <1>7, MembersSet
    <2>2. SameQueue(r, r)
      BY <1>7 DEF SameQueue
    <2>. QED
      BY <1>3, <1>7, <2>1, <2>2
  <1>. QED
    BY <1>1, <1>3, <1>7, <1>8, QueueWalks

\* handle_error_unwind() has dropped the sub-steps of a level and used up its
\* timer, its on_cancel and its on_error.
LEMMA UnwoundLevel ==
    ASSUME ns \in Instance, allow \in Mixes, Sound(ns, allow), cur \in Slot,
           ns.last = cur, TreeOf(ns, cur)
    PROVE  /\ Unwound \in Instance /\ Running(Unwound, allow) /\ SubEmpty(Unwound, cur)
           /\ Marks(Unwound)[cur].start = Unwound.size /\ TreeOf(Unwound, cur)
           /\ Unwound.queue[cur].parent = ns.queue[cur].parent
           /\ Unwound.last = cur /\ Unwound.in_exec = ns.in_exec
  <1> DEFINE k == Marks(ns)[cur].start
             start == ns.queue[cur].start
             t == SubQueueFree(ns, cur)
             v == Unwound
  <1>1. k = Offset(ns, start) /\ start \in Slot /\ k <= ns.size
    <2>1. ns.queue[cur] \in StepData
      BY InstanceTypes
    <2>. QED
      BY <2>1, MarksOf, TipInUse DEF StepData
  <1>2. k \in 0 .. ns.size
    <2>1. k \in 0 .. MaxSteps - 1 /\ MaxSteps \in Nat /\ ns.size \in Nat
      BY <1>1, SlotInRing, Bounds, InstanceTypes, ZenonT(60)
    <2>. QED
      BY <1>1, <2>1
  <1>3. Cut(ns, t, k)
    BY <1>1, <1>2, SubFreed
  <1>4. t \in Instance /\ t.last = ns.last /\ t.in_exec = ns.in_exec
    BY <1>3 DEF Cut
  <1>5. UsedUp(t, v, cur, start)
    <2>1. v = PopCancel(PopTimeout([t EXCEPT !.queue[cur].front = start,
                                             !.queue[cur].on_error = "none"], cur), cur)
      BY DEF Unwound
    <2> HIDE DEF t, start, v
    <2>2. UsedUp(t, PopCancel(PopTimeout([t EXCEPT !.queue[cur].front = start,
                                                   !.queue[cur].on_error = "none"], cur), cur),
                 cur, start)
      BY <1>1, <1>4, LevelUsedUp
    <2>. QED
      BY <2>1, <2>2
  <1> HIDE DEF t, v
  <1>6. v.in_exec = t.in_exec
    BY <1>5 DEF UsedUp, SameMembers
  <1>7. /\ v \in Instance /\ Sound(v, allow) /\ TreeOf(v, cur) /\ SubEmpty(v, cur)
        /\ Marks(v)[cur].start = v.size /\ v.queue[cur].parent = ns.queue[cur].parent
        /\ v.last = ns.last
    <2>1. Cut(ns, t, Marks(ns)[cur].start) /\ UsedUp(t, v, cur, ns.queue[cur].start)
      BY <1>3, <1>5
    <2>. QED
      BY <2>1, LevelUnwound
  <1>8. NextReady(v, cur)
    <2>1. Front(v, cur) = v.size /\ v.size \in Nat
      BY <1>7, FrontSlot, InstanceTypes, NoneIsNoSlot
    <2>. QED
      BY <2>1 DEF NextReady
  <1>. QED
    BY <1>4, <1>6, <1>7, <1>8 DEF Running, v

\* The next level up.
LEMMA UpwardsWalks ==
    ASSUME allow \in Mixes, cur \in Slot, NEW q \in Instance, Sound(q, allow),
           TreeOf(q, cur), Marks(q)[cur].start = q.size,
           q.queue[cur].parent = ns.queue[cur].parent,
           NEW code \in {"", "Timeout", "Error", "break", "continue"}, Upwards(q, code)
    PROVE  Walk(ns', pc', cur', allow)
  <1> DEFINE up == q.queue[cur].parent
             f == FreeStep(q, cur)
             r == [f EXCEPT !.last = up, !.err = code]
  <1>1. ns' = r /\ cur' = up /\ pc' = "unwind"
    BY DEF Upwards
  <1>2. up \in Slot \cup {None} /\ TreeOf(q, up)
    BY LeafLeft
  <1>3. Freed(q, f, cur)
    BY StepFreed
  <1> HIDE DEF f, up
  <1>4. Sound(f, allow) /\ SameTree(q, f)
    BY <1>3, FreedKeeps
  <1>5. f \in Instance
    BY <1>3 DEF Freed
  <1>6. TreeOf(f, up)
    BY <1>2, <1>4, <1>5, TreeStays DEF TreeOf
  <1>7. SameQueue(f, r) /\ r.last = up
    BY <1>2, <1>5, MembersSet DEF Instance
  <1> HIDE DEF r
  <1>8. Sound(r, allow) /\ TreeOf(r, up)
    BY <1>2, <1>4, <1>5, <1>6, <1>7, QueueStays
  <1>9. Walk(r, "unwind", up, allow)
    BY <1>2, <1>7, <1>8 DEF Walk, TreeThere, Climbing, Ready, Control
  <1>. QED
    BY <1>1, <1>9

\* A level handles the error, or does not.
LEMMA UnwindWalks ==
    ASSUME TreeInv, Unwind
    PROVE  Walk(ns', pc', cur', allow)
  <1>1. /\ allow \in Mixes /\ ns \in Instance /\ Sound(ns, allow) /\ cur \in Slot
        /\ ns.last = cur /\ TreeOf(ns, cur)
        /\ ns.err \in {"", "Timeout", "Error", "break", "continue"}
    <2>1. allow \in Mixes /\ ns \in Instance /\ Sound(ns, allow) /\ cur \in Slot
      BY Here DEF Unwind
    <2>2. ns.last = cur /\ TreeOf(ns, ns.last)
      BY DEF TreeInv, Walk, TreeThere, Control, Unwind
    <2>. QED
      BY <2>1, <2>2, InstanceTypes
  <1> DEFINE v == Unwound
             again == ns.err # "break"
             q == [v EXCEPT !.err = "", !.queue[cur].repeat = @ /\ again]
  <1>2. /\ v \in Instance /\ Running(v, allow) /\ SubEmpty(v, cur) /\ TreeOf(v, cur)
        /\ Marks(v)[cur].start = v.size /\ v.queue[cur].parent = ns.queue[cur].parent
        /\ v.last = cur /\ v.in_exec = ns.in_exec
    BY <1>1, UnwoundLevel
  <1>3. \/ ns' = v /\ pc' = "on_error" /\ cur' = cur
        \/ Upwards(v, ns.err)
        \/ Succeed(q)
    BY DEF Unwind
  <1>4. again \in BOOLEAN
    OBVIOUS
  <1> HIDE DEF v, again
  <1>5. CASE ns' = v /\ pc' = "on_error" /\ cur' = cur
    <2>1. Walk(v, "on_error", cur, allow)
      BY <1>1, <1>2, NoneIsNoSlot
         DEF Running, Walk, TreeThere, Climbing, Ready, Control
    <2>. QED
      BY <1>5, <2>1
  <1>6. CASE Upwards(v, ns.err)
    BY <1>1, <1>2, <1>6, UpwardsWalks DEF Running
  <1>7. CASE Succeed(q)
    <2> DEFINE e == [v EXCEPT !.err = ""]
               step == [e.queue[cur] EXCEPT !.repeat = @ /\ again]
    <2>1. SameQueue(v, e) /\ e.last = cur
      BY <1>2, MembersSet DEF Instance
    <2>2. q = [e EXCEPT !.queue[cur] = step]
      BY <1>2 DEF Instance
    <2> HIDE DEF e
    <2>3. /\ e \in Instance /\ Sound(e, allow) /\ TreeOf(e, cur) /\ NextReady(e, cur)
          /\ SubEmpty(e, cur)
      BY <1>1, <1>2, <2>1, QueueStays DEF Running
    <2>4. Running(e, allow)
      BY <1>1, <2>1, <2>3 DEF Running
    <2>5. e.queue[cur] \in StepData
          /\ (e.queue[cur].repeat => e.queue[cur].func \in {"loop", "await"})
      BY <1>1, <2>1, <2>3, <2>4, TipData
    <2>6. step \in StepData /\ SameMarks(e.queue[cur], step)
          /\ (step.repeat => step.func \in {"loop", "await"})
          /\ step.parent = e.queue[cur].parent
      BY <1>4, <2>5 DEF StepData, SameMarks
    <2> HIDE DEF step, q
    <2>7. /\ q \in Instance /\ Running(q, allow) /\ SameRun(e, q) /\ SameMembers(e, q)
      BY <1>1, <2>1, <2>2, <2>3, <2>4, <2>6, TipSet
    <2>8. q.last = cur /\ SubEmpty(q, cur)
      <3>1. SubEmpty(q, cur) <=> SubEmpty(e, cur)
        BY <1>1, <2>3, <2>7, RunStays, NoneIsNoSlot
      <3>2. q.last = e.last
        BY <2>7 DEF SameMembers
      <3>. QED
        BY <2>1, <2>3, <3>1, <3>2
    <2>9. Walk(q, "climb", q.queue[cur].parent, allow)
      BY <1>1, <2>7, <2>8, ClimbFrom
    <2>. QED
      BY <1>7, <2>8, <2>9 DEF Succeed
  <1>. QED
    BY <1>3, <1>5, <1>6, <1>7

\* The on_error handler ends.
LEMMA EndOnErrorWalks ==
    ASSUME TreeInv, EndOnError
    PROVE  Walk(ns', pc', cur', allow)
  <1>1. /\ allow \in Mixes /\ ns \in Instance /\ Running(ns, allow) /\ cur \in Slot
        /\ ns.last = cur /\ TreeOf(ns, cur) /\ Sound(ns, allow) /\ NextReady(ns, cur)
        /\ ns.err \in {"", "Timeout", "Error", "break", "continue"}
    <2>1. ns.last = cur /\ cur # None
      BY DEF TreeInv, Walk, Control, EndOnError
    <2>. QED
      BY <2>1, Here, InstanceTypes DEF EndOnError
  <1>2. SubEmpty(ns, cur) => Marks(ns)[cur].start = ns.size
    BY <1>1, TipInUse
  <1> DEFINE q == [ns EXCEPT !.err = ""]
  <1>3. SameQueue(ns, q) /\ q.last = cur /\ q.in_exec = ns.in_exec
    BY <1>1, MembersSet DEF Instance
  <1>4. \/ SubEmpty(ns, cur) /\ Succeed(q)
        \/ ns' = q /\ cur' = cur /\ pc' = IF ns.in_exec THEN "exec" ELSE "idle"
        \/ SubEmpty(ns, cur) /\ Upwards(ns, ns.err)
        \/ SubEmpty(ns, cur) /\ \E code \in Codes : Upwards(ns, code)
        \/ UNCHANGED <<ns, cur, pc>>
    BY <1>1 DEF EndOnError, NoSubs, Recover, Substitute, Override, Stop, Return
  <1> HIDE DEF q
  <1>5. CASE SubEmpty(ns, cur) /\ Succeed(q)
    <2>1. /\ q \in Instance /\ Sound(q, allow) /\ TreeOf(q, cur) /\ NextReady(q, cur)
          /\ SubEmpty(q, cur)
      BY <1>1, <1>3, <1>5, QueueStays
    <2>2. Walk(q, "climb", q.queue[cur].parent, allow)
      BY <1>1, <1>3, <2>1, ClimbFrom DEF Running
    <2>. QED
      BY <1>3, <1>5, <2>2 DEF Succeed
  <1>6. CASE ns' = q /\ cur' = cur /\ pc' = IF ns.in_exec THEN "exec" ELSE "idle"
    BY <1>1, <1>3, <1>6, QueueWalks
  <1>7. CASE SubEmpty(ns, cur) /\ Upwards(ns, ns.err)
    BY <1>1, <1>2, <1>7, UpwardsWalks
  <1>8. CASE SubEmpty(ns, cur) /\ \E code \in Codes : Upwards(ns, code)
    <2>1. PICK code \in Codes : Upwards(ns, code)
      BY <1>8
    <2>2. code \in {"", "Timeout", "Error", "break", "continue"}
      BY DEF Codes
    <2>. QED
      BY <1>1, <1>2, <1>8, <2>1, <2>2, UpwardsWalks
  <1>. QED
    BY <1>4, <1>5, <1>6, <1>7, <1>8, StopWalks

----------------------------------------------------------------------------
(* Who schedules handle_execute()                                           *)

\* Neither in_exec_, nor the handle, nor the calls under way change.
Untouched(q, r) ==
    /\ {"handle", "runs", "in_exec"} \subseteq DOMAIN q
    /\ {"handle", "runs", "in_exec"} \subseteq DOMAIN r
    /\ r.handle = q.handle /\ r.runs = q.runs /\ r.in_exec = q.in_exec

\* Two changes in a row that leave these members alone.
LEMMA TouchedTwice ==
    ASSUME NEW q, NEW r, NEW t, Untouched(q, r), Untouched(r, t)
    PROVE  Untouched(q, t)
  BY DEF Untouched

\* The methods that leave them alone.
LEMMA MethodsTouch ==
    ASSUME NEW q, {"handle", "runs", "in_exec"} \subseteq DOMAIN q
    PROVE  /\ Untouched(q, q)
           /\ \A s : Untouched(q, FreeStep(q, s)) /\ Untouched(q, ShiftSub(q, s))
                     /\ Untouched(q, SubQueueFree(q, s))
           /\ \A s, f : Untouched(q, AllocStep(q, s, f))
           /\ \A s, k : Untouched(q, AddStep(q, s, k))
           /\ Untouched(q, Reset(q)) /\ Untouched(q, ShiftRoot(q))
           /\ \A b : Untouched(q, SetCancel(q, b))
           /\ Untouched(q, WaitExternal(q))
           /\ \A e : Untouched(q, [q EXCEPT !.err = e])
           /\ \A l : Untouched(q, [q EXCEPT !.last = l])
           /\ \A l, e : Untouched(q, [q EXCEPT !.last = l, !.err = e])
           /\ \A x : Untouched(q, [q EXCEPT !.queue = x])
           /\ \A x : Untouched(q, [q EXCEPT !.armed = x])
  <1>1. /\ Untouched(q, q)
        /\ \A e : Untouched(q, [q EXCEPT !.err = e])
        /\ \A l : Untouched(q, [q EXCEPT !.last = l])
        /\ \A l, e : Untouched(q, [q EXCEPT !.last = l, !.err = e])
        /\ \A x : Untouched(q, [q EXCEPT !.queue = x])
        /\ \A x : Untouched(q, [q EXCEPT !.armed = x])
    BY DEF Untouched
  <1>2. \A s : Untouched(q, FreeStep(q, s))
    BY SMTT(90) DEF Untouched, FreeStep, PopCancel, PopTimeout
  <1>3. \A s : Untouched(q, SubQueueFree(q, s))
    BY DEF Untouched, SubQueueFree
  <1>4. \A s, f : Untouched(q, AllocStep(q, s, f))
    BY DEF Untouched, AllocStep
  <1>5. \A s, k : Untouched(q, AddStep(q, s, k))
    <2> TAKE s, k
    <2> DEFINE r == AllocStep(q, s, k.func)
    <2>1. Untouched(q, r)
      BY <1>4
    <2> HIDE DEF r
    <2>2. /\ Untouched(r, [r EXCEPT !.queue[QueueEnd(q)].on_error = k.on_error])
          /\ Untouched(r, AllocExtended(r, QueueEnd(q), k.object))
      BY <2>1 DEF Untouched, AllocExtended
    <2>. QED
      BY <2>1, <2>2, TouchedTwice DEF AddStep, r
  <1>6. \A s : Untouched(q, ShiftSub(q, s))
    <2> TAKE s
    <2> DEFINE r == FreeStep(q, q.queue[s].front)
    <2>1. Untouched(q, r)
      BY <1>2
    <2> HIDE DEF r
    <2>2. Untouched(r, [r EXCEPT !.queue[s].front = (@ + 1) % MaxSteps])
      BY <2>1 DEF Untouched
    <2>. QED
      BY <1>1, <2>1, <2>2, TouchedTwice DEF ShiftSub, r
  <1>7. Untouched(q, ShiftRoot(q))
    <2> DEFINE r == FreeStep(q, q.begin)
    <2>1. Untouched(q, r)
      BY <1>2
    <2> HIDE DEF r
    <2>2. Untouched(r, [r EXCEPT !.begin = (@ + 1) % MaxSteps, !.size = (@ - 1) % 256,
                                 !.queue[q.begin] = Left(@)])
      BY <2>1 DEF Untouched
    <2>. QED
      BY <1>1, <2>1, <2>2, TouchedTwice DEF ShiftRoot, r
  <1>8. Untouched(q, Reset(q)) /\ Untouched(q, WaitExternal(q))
        /\ \A b : Untouched(q, SetCancel(q, b))
    BY DEF Untouched, Reset, WaitExternal, SetCancel
  <1>. QED
    BY <1>1, <1>2, <1>3, <1>4, <1>5, <1>6, <1>7, <1>8

\* It is so of the innermost step's handler when it returns or fails.
LEMMA ReturnsTouch ==
    ASSUME NEW q, {"handle", "runs", "in_exec"} \subseteq DOMAIN q
    PROVE  /\ Returned(q) => Untouched(q, ns')
           /\ Succeed(q) => Untouched(q, ns')
           /\ \A code : Raise(q, code) => Untouched(q, ns')
  <1>1. /\ Succeed(q) => Untouched(q, ns')
        /\ \A code : Raise(q, code) => Untouched(q, ns')
    BY DEF Untouched, Succeed, Raise
  <1>2. Returned(q) => Untouched(q, ns')
    <2> SUFFICES ASSUME Returned(q) PROVE Untouched(q, ns')
      OBVIOUS
    <2>1. \/ Raise(q, q.err) \/ Succeed(q)
          \/ ns' = [q EXCEPT !.queue[q.last].asked = SubEmpty(q, q.last)]
      BY DEF Returned
    <2>2. CASE ns' = [q EXCEPT !.queue[q.last].asked = SubEmpty(q, q.last)]
      BY <2>2 DEF Untouched
    <2>. QED
      BY <1>1, <2>1, <2>2
  <1>. QED
    BY <1>1, <1>2

\* What the handlers of a burst's step leave alone.
LEMMA RunTouches ==
    ASSUME ns \in Instance, RunStep
    PROVE  Untouched(ns, ns')
  <1>1. {"handle", "runs", "in_exec"} \subseteq DOMAIN ns
    BY DEF Instance
  <1>2. Untouched(ns, Started)
    BY <1>1 DEF Untouched, Started
  <1>3. \A q : {"handle", "runs", "in_exec"} \subseteq DOMAIN q =>
                 /\ Returned(q) => Untouched(q, ns')
                 /\ \A code : Raise(q, code) => Untouched(q, ns')
    BY ReturnsTouch
  <1>4. {"handle", "runs", "in_exec"} \subseteq DOMAIN Started
    BY <1>2 DEF Untouched
  <1>5. ASSUME NEW q, Untouched(ns, q),
               Returned(q) \/ (\E code : Raise(q, code)) \/ ns' = q
        PROVE  Untouched(ns, ns')
    <2>1. {"handle", "runs", "in_exec"} \subseteq DOMAIN q
      BY <1>5 DEF Untouched
    <2>2. Untouched(q, ns')
      BY <1>3, <1>5, <2>1, MethodsTouch
    <2>. QED
      BY <1>5, <2>2, TouchedTwice
  <1>6. CASE NextStep \notin Alive
    BY <1>1, <1>6, MethodsTouch DEF RunStep, Stop
  <1>7. CASE NextStep \in Alive /\ Handler(ns.queue[NextStep].func)
    <2>1. CASE ns' = Started
      BY <1>2, <1>5, <2>1
    <2>2. CASE LoopHandler
      <3> DEFINE q == [Started EXCEPT !.allocs = Drop(@, ns.queue[NextStep].allocs),
                                      !.queue[NextStep].allocs = 0]
                 more == [q EXCEPT !.queue[NextStep].repeat = TRUE,
                                   !.queue[NextStep].on_error = "loop"]
                 over == [q EXCEPT !.queue[NextStep].repeat = FALSE]
      <3>1. ns' = more \/ Returned(over)
        BY <2>2 DEF LoopHandler
      <3>2. Untouched(Started, q)
        BY <1>4 DEF Untouched
      <3>3. Untouched(q, more) /\ Untouched(q, over)
        BY <3>2 DEF Untouched
      <3> HIDE DEF q, more, over
      <3>. QED
        BY <1>2, <1>5, <3>1, <3>2, <3>3, TouchedTwice
    <2>3. CASE AwaitHandler
      <3> DEFINE q == [Started EXCEPT !.queue[NextStep].repeat = FALSE]
                 more == [q EXCEPT !.queue[NextStep].repeat = TRUE]
      <3>1. Returned(q) \/ Returned(more) \/ Raise(q, "Error")
        BY <2>3 DEF AwaitHandler
      <3>2. Untouched(Started, q)
        BY <1>4 DEF Untouched
      <3>3. Untouched(q, more)
        BY <3>2 DEF Untouched
      <3> HIDE DEF q, more
      <3>. QED
        BY <1>2, <1>5, <3>1, <3>2, <3>3, TouchedTwice
    <2>4. CASE SyncHandler
      <3>1. PICK on_error \in {"none", "user"} :
               LET q == AllocStep(SetCancel(Started, TRUE), NextStep, "lock")
                   t == AllocStep(q, NextStep, "body")
                   r == [t EXCEPT !.queue[QueueEnd(q)].on_error = on_error]
               IN  Returned(AllocStep(r, NextStep, "unlock"))
        BY <2>4 DEF SyncHandler, OnErrors
      <3> DEFINE c == SetCancel(Started, TRUE)
                 q == AllocStep(c, NextStep, "lock")
                 t == AllocStep(q, NextStep, "body")
                 r == [t EXCEPT !.queue[QueueEnd(q)].on_error = on_error]
                 u == AllocStep(r, NextStep, "unlock")
      <3>2. Returned(u)
        BY <3>1
      <3>3. Untouched(Started, c)
        BY <1>4, MethodsTouch
      <3> HIDE DEF c
      <3>4. Untouched(c, q)
        <4>1. {"handle", "runs", "in_exec"} \subseteq DOMAIN c
          BY <3>3 DEF Untouched
        <4>. QED
          BY <4>1, MethodsTouch
      <3> HIDE DEF q
      <3>5. Untouched(q, t)
        <4>1. {"handle", "runs", "in_exec"} \subseteq DOMAIN q
          BY <3>4 DEF Untouched
        <4>. QED
          BY <4>1, MethodsTouch
      <3> HIDE DEF t
      <3>6. Untouched(t, r)
        BY <3>5 DEF Untouched
      <3> HIDE DEF r
      <3>7. Untouched(r, u)
        <4>1. {"handle", "runs", "in_exec"} \subseteq DOMAIN r
          BY <3>6 DEF Untouched
        <4>. QED
          BY <4>1, MethodsTouch
      <3> HIDE DEF u
      <3>8. Untouched(ns, q) /\ Untouched(q, r) /\ Untouched(r, u)
        BY <1>2, <3>3, <3>4, <3>5, <3>6, <3>7, TouchedTwice
      <3>9. Untouched(ns, u)
        BY <3>8, TouchedTwice
      <3>. QED
        BY <1>5, <3>2, <3>9
    <2>5. CASE LockHandler
      <3>1. \/ ns' = ns \/ Returned(Started) \/ Returned(WaitExternal(Started))
            \/ Raise(Started, "Error")
        BY <2>5 DEF LockHandler, Stop
      <3>2. Untouched(Started, WaitExternal(Started)) /\ Untouched(ns, ns)
        BY <1>1, <1>4, MethodsTouch
      <3>. QED
        BY <1>2, <1>5, <3>1, <3>2, TouchedTwice
    <2>6. CASE UnlockHandler
      BY <1>2, <1>5, <2>6 DEF UnlockHandler
    <2>. QED
      BY <1>7, <2>1, <2>2, <2>3, <2>4, <2>5, <2>6 DEF Handler
  <1>. QED
    BY <1>6, <1>7 DEF RunStep

\* What the other actions leave alone.
LEMMA ActionTouches ==
    ASSUME ns \in Instance,
           \/ Add \/ Handlers \/ RunStep \/ Unwind \/ UnwindRoot \/ CancelLevel \/ CancelEnd
           \/ (\E t \in Timer : TimerFire(t)) \/ ExternalEvent \/ ForeignSuccess
           \/ ForeignTask
    PROVE  Untouched(ns, ns')
  <1>1. {"handle", "runs", "in_exec"} \subseteq DOMAIN ns
    BY DEF Instance
  <1>2. CASE Add
    <2>1. \A s, k : Untouched(ns, AddStep(ns, s, k))
      BY <1>1, MethodsTouch
    <2>2. PICK kind \in Kinds : ns' = AddStep(ns, ns.last, kind)
      BY <1>2 DEF Add
    <2>. QED
      BY <2>1, <2>2
  <1>3. CASE Handlers
    <2>1. CASE Wait
      BY <1>1, <2>1, MethodsTouch DEF Wait
    <2>2. CASE SetTimeout
      BY <1>1, <2>2 DEF SetTimeout, Untouched
    <2>3. CASE Stack
      BY <1>1, <2>3 DEF Stack, Untouched
    <2>4. CASE EndHandler
      BY <1>1, <2>4, ReturnsTouch DEF EndHandler
    <2>5. CASE EndOnError
      <3>1. \/ Succeed([ns EXCEPT !.err = ""]) \/ ns' = [ns EXCEPT !.err = ""]
            \/ (\E code : Upwards(ns, code)) \/ ns' = ns
        BY <2>5 DEF EndOnError, Recover, Substitute, Override, Stop
      <3>2. ASSUME NEW code, Upwards(ns, code)
            PROVE  Untouched(ns, ns')
        <4> DEFINE f == FreeStep(ns, cur)
        <4>1. Untouched(ns, f)
          BY <1>1, MethodsTouch
        <4> HIDE DEF f
        <4>2. Untouched(f, [f EXCEPT !.last = ns.queue[cur].parent, !.err = code])
          BY <4>1 DEF Untouched
        <4>. QED
          BY <3>2, <4>1, <4>2, TouchedTwice DEF Upwards, f
      <3>3. Untouched(ns, [ns EXCEPT !.err = ""])
        BY <1>1 DEF Untouched
      <3>4. CASE Succeed([ns EXCEPT !.err = ""])
        BY <3>3, <3>4 DEF Succeed
      <3>. QED
        BY <1>1, <3>1, <3>2, <3>3, <3>4, MethodsTouch
    <2>. QED
      BY <1>3, <2>1, <2>2, <2>3, <2>4, <2>5 DEF Handlers
  <1>4. CASE RunStep
    BY <1>4, RunTouches
  <1>5. CASE Unwind
    <2> DEFINE t == SubQueueFree(ns, cur)
               u == [t EXCEPT !.queue[cur].front = ns.queue[cur].start,
                              !.queue[cur].on_error = "none"]
               v == Unwound
    <2>1. Untouched(ns, t)
      BY <1>1, MethodsTouch
    <2> HIDE DEF t
    <2>2. Untouched(t, u)
      BY <2>1 DEF Untouched
    <2>3. v = PopCancel(PopTimeout(u, cur), cur)
      BY DEF Unwound, t
    <2> HIDE DEF u, v
    <2>4. Untouched(u, v)
      BY <2>2, <2>3 DEF Untouched, PopCancel, PopTimeout
    <2>5. Untouched(ns, v)
      BY <2>1, <2>2, <2>4, TouchedTwice
    <2>6. \/ ns' = v \/ Upwards(v, ns.err)
          \/ Succeed([v EXCEPT !.err = "",
                               !.queue[cur].repeat = @ /\ ns.err # "break"])
      BY <1>5 DEF Unwind, v
    <2>7. CASE Upwards(v, ns.err)
      <3> DEFINE f == FreeStep(v, cur)
      <3>1. {"handle", "runs", "in_exec"} \subseteq DOMAIN v
        BY <2>5 DEF Untouched
      <3>2. Untouched(v, f)
        BY <3>1, MethodsTouch
      <3> HIDE DEF f
      <3>3. Untouched(f, [f EXCEPT !.last = ns.queue[cur].parent, !.err = ns.err])
        BY <3>2 DEF Untouched
      <3>4. Untouched(f, ns')
        BY <2>7, <3>3 DEF Upwards, f
      <3>. QED
        BY <2>5, <3>2, <3>4, TouchedTwice
    <2>8. CASE Succeed([v EXCEPT !.err = "",
                               !.queue[cur].repeat = @ /\ ns.err # "break"])
      <3>1. Untouched(v, [v EXCEPT !.err = "",
                               !.queue[cur].repeat = @ /\ ns.err # "break"])
        BY <2>5 DEF Untouched
      <3>. QED
        BY <2>5, <2>8, <3>1, TouchedTwice DEF Succeed
    <2>. QED
      BY <2>5, <2>6, <2>7, <2>8
  <1>6. CASE UnwindRoot \/ CancelEnd
    BY <1>1, <1>6, MethodsTouch DEF UnwindRoot, CancelEnd
  <1>7. CASE CancelLevel
    <2> DEFINE f == FreeStep(ns, ns.last)
    <2>1. Untouched(ns, f)
      BY <1>1, MethodsTouch
    <2> HIDE DEF f
    <2>2. Untouched(f, [f EXCEPT !.last = ns.queue[ns.last].parent])
      BY <2>1 DEF Untouched
    <2>. QED
      BY <1>7, <2>1, <2>2, TouchedTwice DEF CancelLevel, f
  <1>8. CASE \E t \in Timer : TimerFire(t)
    <2>1. PICK t \in Timer : TimerFire(t)
      BY <1>8
    <2> DEFINE q == [ns EXCEPT !.armed = @ \ {t}]
    <2>2. ns' = ns \/ Raise(q, "Timeout")
      BY <2>1 DEF TimerFire, Stop
    <2>3. Untouched(ns, q)
      BY <1>1 DEF Untouched
    <2> HIDE DEF q
    <2>4. Raise(q, "Timeout") => Untouched(q, ns')
      BY <2>3 DEF Untouched, Raise
    <2>. QED
      <3>1. Untouched(ns, ns)
        BY <1>1, MethodsTouch
      <3>. QED
        BY <2>2, <2>3, <2>4, <3>1, TouchedTwice
  <1>9. CASE ExternalEvent
    <2> DEFINE q == [ns EXCEPT !.queue[ns.last].asked = FALSE]
    <2>1. Succeed(q) \/ Raise(q, "Error")
      BY <1>9 DEF ExternalEvent
    <2>2. Untouched(ns, q)
      BY <1>1 DEF Untouched
    <2> HIDE DEF q
    <2>3. Untouched(q, ns')
      BY <2>1, <2>2 DEF Untouched, Raise, Succeed
    <2>. QED
      BY <2>2, <2>3, TouchedTwice
  <1>10. CASE ForeignSuccess
    BY <1>1, <1>10 DEF ForeignSuccess, Untouched
  <1>11. CASE ForeignTask
    BY <1>1, <1>11, MethodsTouch DEF ForeignTask, Succeed, Stop
  <1>. QED
    BY <1>2, <1>3, <1>4, <1>5, <1>6, <1>7, <1>8, <1>9, <1>10, <1>11

\* One more call of handle_execute(), except in a burst.
Rescheduled(q, r) ==
    /\ r.in_exec = q.in_exec
    /\ IF q.in_exec THEN r.handle = q.handle /\ r.runs = q.runs
       ELSE r.handle /\ r.runs = q.runs + 1

\* execute() adds one call, unless a burst is running.
LEMMA SchedulesOnce ==
    ASSUME NEW q, NEW r, Untouched(q, r)
    PROVE  Rescheduled(q, Scheduled(r))
  BY DEF Untouched, Rescheduled, Scheduled

\* Only the end of a walk up schedules.
LEMMA ClimbTouches ==
    ASSUME ns \in Instance
    PROVE  /\ Climb => \/ pc' = "climb" /\ Untouched(ns, ns')
                       \/ pc' # "climb" /\ Rescheduled(ns, ns')
           /\ ClimbRoot => IF ns'.size # 0 THEN Rescheduled(ns, ns') ELSE Untouched(ns, ns')
  <1>1. {"handle", "runs", "in_exec"} \subseteq DOMAIN ns
    BY DEF Instance
  <1>2. ASSUME Climb
        PROVE  \/ pc' = "climb" /\ Untouched(ns, ns')
               \/ pc' # "climb" /\ Rescheduled(ns, ns')
    <2> DEFINE q == ShiftSub(ns, cur)
    <2>1. Untouched(ns, q)
      BY <1>1, MethodsTouch
    <2> HIDE DEF q
    <2>2. Untouched(q, SubQueueFree(q, cur))
      <3>1. {"handle", "runs", "in_exec"} \subseteq DOMAIN q
        BY <2>1 DEF Untouched
      <3>. QED
        BY <3>1, MethodsTouch
    <2>3. Untouched(q, [q EXCEPT !.last = cur])
      BY <2>1 DEF Untouched
    <2>4. Rescheduled(ns, Scheduled([q EXCEPT !.last = cur]))
      BY <2>1, <2>3, TouchedTwice, SchedulesOnce
    <2>5. CASE SubEmpty(q, cur)
      BY <1>2, <2>1, <2>2, <2>5, TouchedTwice DEF Climb, q
    <2>6. CASE ~SubEmpty(q, cur)
      <3>1. /\ ns' = Scheduled([q EXCEPT !.last = cur])
            /\ pc' = IF ns.in_exec THEN "exec" ELSE "idle"
        BY <1>2, <2>6 DEF Climb, q, Return
      <3>2. pc' # "climb"
        BY <3>1
      <3>. QED
        BY <2>4, <3>1, <3>2
    <2>. QED
      BY <2>5, <2>6
  <1>3. ASSUME ClimbRoot
        PROVE  IF ns'.size # 0 THEN Rescheduled(ns, ns') ELSE Untouched(ns, ns')
    <2> DEFINE b == [ns EXCEPT !.last = None]
               r == ShiftRoot(b)
    <2>1. Untouched(ns, b)
      BY <1>1 DEF Untouched
    <2> HIDE DEF b
    <2>2. Untouched(b, r)
      <3>1. {"handle", "runs", "in_exec"} \subseteq DOMAIN b
        BY <2>1 DEF Untouched
      <3>. QED
        BY <3>1, MethodsTouch
    <2>3. ns' = IF r.size # 0 THEN Scheduled(r) ELSE r
      BY <1>3 DEF ClimbRoot, b
    <2> HIDE DEF r
    <2>4. Untouched(ns, r) /\ Rescheduled(ns, Scheduled(r))
      BY <2>1, <2>2, TouchedTwice, SchedulesOnce
    <2>5. r.size # 0 => Scheduled(r).size = r.size
      <3>1. [r EXCEPT !.handle = TRUE, !.runs = @ + 1].size = r.size
        OBVIOUS
      <3>. QED
        BY <3>1 DEF Scheduled
    <2>. QED
      BY <2>3, <2>4, <2>5
  <1>. QED
    BY <1>2, <1>3

----------------------------------------------------------------------------
(* The other variables                                                      *)

SyncTypes == held \in [Object -> Nat] /\ pending \in Object \cup {None}

\* Whatever unlock() is called with.
LEMMA UnlockTypes ==
    ASSUME SyncTypes, NEW o \in Object \cup {None}, Unlock(o)
    PROVE  SyncTypes'
  <1>1. CASE o = None
    BY <1>1 DEF Unlock, SyncTypes, sync
  <1>2. CASE o # None
    <2>1. /\ pending' = IF pending = o THEN None ELSE pending
          /\ held' = IF pending # o /\ held[o] > 0
                     THEN [held EXCEPT ![o] = held[o] - 1] ELSE held
      BY <1>2 DEF Unlock
    <2>2. held[o] > 0 => held[o] - 1 \in Nat
      <3>1. held[o] \in Nat
        BY <1>2 DEF SyncTypes
      <3>. QED
        BY <3>1
    <2>. QED
      BY <2>1, <2>2 DEF SyncTypes
  <1>. QED
    BY <1>1, <1>2

\* The object of the extended state is one, or none yet.
LEMMA CurrentTyped ==
    ASSUME NEW q \in Instance, q.last \in Slot
    PROVE  CurrentObject(q) \in Object \cup {None}
  <1>1. q.queue[q.last] \in StepData /\ q.object \in [Ext -> Object \cup {None}]
    BY InstanceTypes
  <1>2. q.queue[q.last].ext \in Ext
    BY <1>1 DEF StepData
  <1>. QED
    BY <1>1, <1>2 DEF CurrentObject

\* An on_cancel handler keeps the types of the locks.
LEMMA OnCancelTypes ==
    ASSUME SyncTypes, ns \in Instance, ns.last \in Slot, NEW s, OnCancel(s)
    PROVE  SyncTypes'
  <1>1. CurrentObject(ns) \in Object \cup {None}
    BY CurrentTyped
  <1>2. Unlock(CurrentObject(ns)) \/ UNCHANGED sync
    BY DEF OnCancel
  <1>3. CASE Unlock(CurrentObject(ns))
    BY <1>1, <1>3, UnlockTypes
  <1>. QED
    BY <1>2, <1>3 DEF SyncTypes, sync

\* So does the handler that locks.
LEMMA LockTypes ==
    ASSUME TreeInv, SyncTypes, pc = "exec", NextStep \in Alive, LockHandler
    PROVE  SyncTypes'
  <1> DEFINE o == CurrentObject(Started)
  <1>1. o \in Object \cup {None}
    BY Called, CurrentTyped
  <1>2. CASE o = None
    BY <1>2 DEF LockHandler, SyncTypes, sync
  <1>3. CASE o # None
    <2>1. \/ held' = [held EXCEPT ![o] = held[o] + 1] /\ pending' = pending
          \/ pending' = o /\ held' = held
          \/ held' = held /\ pending' = pending
      BY <1>3 DEF LockHandler, sync
    <2> HIDE DEF o
    <2>2. held[o] + 1 \in Nat /\ o \in Object
      <3>1. held[o] \in Nat /\ o \in Object
        BY <1>1, <1>3 DEF SyncTypes
      <3>. QED
        BY <3>1
    <2>. QED
      BY <2>1, <2>2 DEF SyncTypes
  <1>. QED
    BY <1>2, <1>3

\* What the sync objects know of the flow keeps its type.
LEMMA SyncTyped ==
    ASSUME TreeInv, SyncTypes, Next
    PROVE  SyncTypes'
  <1>1. CASE UNCHANGED sync
    BY <1>1 DEF SyncTypes, sync
  <1>2. CASE RunStep
    <2>1. pc = "exec"
      BY <1>2 DEF RunStep
    <2>2. \/ UNCHANGED sync
          \/ NextStep \in Alive /\ LockHandler
          \/ NextStep \in Alive /\ Unlock(CurrentObject(Started))
      BY <1>2 DEF RunStep, Handler, UnlockHandler
    <2>3. CASE NextStep \in Alive /\ Unlock(CurrentObject(Started))
      <3>1. CurrentObject(Started) \in Object \cup {None}
        BY <2>1, <2>3, Called, CurrentTyped
      <3>. QED
        BY <2>3, <3>1, UnlockTypes
    <2>. QED
      BY <1>1, <2>1, <2>2, <2>3, LockTypes
  <1>3. CASE Unwind
    <2>1. ns.last \in Slot /\ ns \in Instance
      BY <1>3, Here DEF Unwind, TreeInv, Walk, Control
    <2>. QED
      BY <1>3, <2>1, OnCancelTypes DEF Unwind
  <1>4. CASE CancelLevel
    <2>1. ns.last \in Slot /\ ns \in Instance
      BY <1>4, Here DEF CancelLevel
    <2>. QED
      BY <1>4, <2>1, OnCancelTypes DEF CancelLevel
  <1>5. CASE ExternalEvent
    <2>1. UNCHANGED sync \/ /\ pending # None /\ pending' = None
                            /\ held' = [held EXCEPT ![pending] = 1]
      BY <1>5 DEF ExternalEvent
    <2>. QED
      BY <1>1, <2>1 DEF SyncTypes
  <1>6. Add \/ Execute \/ Handlers \/ Cancel \/ (\E t \in Timer : TimerFire(t))
          \/ ForeignSuccess \/ ForeignTask \/ BeginBurst \/ EndBurst \/ Climb
          \/ ClimbRoot \/ UnwindRoot \/ CancelEnd
        => UNCHANGED sync
    BY DEF Add, Execute, Handlers, Wait, SetTimeout, Stack, EndHandler, EndOnError, Cancel,
           TimerFire, ForeignSuccess, ForeignTask, BeginBurst, EndBurst, Climb,
           ClimbRoot, UnwindRoot, CancelEnd
  <1>. QED
    BY <1>1, <1>2, <1>3, <1>4, <1>5, <1>6 DEF Next, Engine

\* sched_exec, the rest of the burst and the call from another thread
LoopTypes ==
    /\ request \in Slot \cup {None}
    /\ sched \in BOOLEAN /\ burst \in 0 .. BurstSize

\* Every step keeps the types of what drives a burst.
LEMMA LoopTyped ==
    ASSUME TreeInv, LoopTypes, Next
    PROVE  LoopTypes'
  <1>1. BurstSize \in Nat
    BY Bounds
  <1>2. request' \in Slot \cup {None}
    <2>1. CASE ForeignSuccess
      <3>1. request' = ns.last /\ ns.last # None
        BY <2>1 DEF ForeignSuccess, Waiting
      <3>. QED
        BY <3>1, Here
    <2>2. CASE ForeignTask
      BY <2>2 DEF ForeignTask
    <2>3. Add \/ Execute \/ Engine \/ Handlers \/ Cancel
            \/ (\E t \in Timer : TimerFire(t)) \/ ExternalEvent
          => UNCHANGED request
      BY DEF Add, Execute, Handlers, Wait, SetTimeout, Stack, EndHandler, EndOnError,
             Cancel, TimerFire, ExternalEvent, Engine, BeginBurst, EndBurst, Climb,
             ClimbRoot, UnwindRoot, CancelEnd, CancelLevel, Unwind, RunStep
    <2>. QED
      BY <2>1, <2>2, <2>3 DEF Next, LoopTypes
  <1>3. sched' \in BOOLEAN /\ burst' \in 0 .. BurstSize
    <2>1. CASE UNCHANGED loop
      BY <2>1 DEF loop, LoopTypes
    <2>2. CASE BeginBurst
      BY <1>1, <2>2 DEF BeginBurst
    <2>3. CASE EndBurst
      <3>1. sched' = FALSE /\ burst' = 0
        BY <2>3 DEF EndBurst
      <3>2. burst' \in 0 .. BurstSize
        BY <1>1, <3>1
      <3>3. sched' \in BOOLEAN
        BY <3>1, Zenon
      <3>. QED
        BY <3>2, <3>3
    <2>4. \A q : Returned(q) => sched' \in BOOLEAN
      BY DEF Returned, LoopTypes, SubEmpty
    <2>5. CASE RunStep
      <3>1. burst > 0 /\ burst' = burst - 1
        BY <2>5 DEF RunStep, MoreToRun
      <3>2. sched' = sched \/ \E q : Returned(q)
        <4>1. LoopHandler \/ AwaitHandler \/ SyncHandler \/ LockHandler \/ UnlockHandler
                => sched' = sched \/ \E q : Returned(q)
          BY DEF LoopHandler, AwaitHandler, SyncHandler, LockHandler, UnlockHandler
        <4>. QED
          BY <2>5, <4>1 DEF RunStep, Handler
      <3>3. burst' \in 0 .. BurstSize
        BY <1>1, <3>1 DEF LoopTypes
      <3>. QED
        BY <2>4, <3>2, <3>3 DEF LoopTypes
    <2>6. CASE EndHandler
      <3>1. (sched' = sched \/ Returned(ns)) /\ burst' = burst
        BY <2>6 DEF EndHandler
      <3>. QED
        BY <2>4, <3>1 DEF LoopTypes
    <2>7. Add \/ Execute \/ Wait \/ SetTimeout \/ Stack \/ EndOnError \/ Cancel
            \/ (\E t \in Timer : TimerFire(t)) \/ ExternalEvent \/ ForeignSuccess
            \/ ForeignTask \/ Climb \/ ClimbRoot \/ Unwind \/ UnwindRoot \/ CancelLevel
            \/ CancelEnd
          => UNCHANGED loop
      BY DEF Add, Execute, Wait, SetTimeout, Stack, EndOnError, Cancel, TimerFire,
             ExternalEvent, ForeignSuccess, ForeignTask, Climb, ClimbRoot, Unwind,
             UnwindRoot, CancelLevel, CancelEnd
    <2>. QED
      BY <2>1, <2>2, <2>3, <2>5, <2>6, <2>7 DEF Next, Engine, Handlers
  <1>. QED
    BY <1>2, <1>3 DEF LoopTypes

\* exec_handle_ refers to a call that the reactor has still to make.
LEMMA HandleIsUnderWay ==
    ASSUME TreeInv, Next
    PROVE  ns'.handle => ns'.runs > 0
  <1>1. ns \in Instance /\ ns.runs \in Nat /\ (ns.handle => ns.runs > 0)
    BY Here, InstanceTypes DEF TreeInv, Others
  <1>2. CASE Untouched(ns, ns')
    BY <1>1, <1>2 DEF Untouched
  <1>3. CASE Rescheduled(ns, ns')
    <2>1. CASE ns.in_exec
      BY <1>1, <1>3, <2>1, Zenon DEF Rescheduled
    <2>2. CASE ~ns.in_exec
      <3>1. ns'.runs = ns.runs + 1
        BY <1>3, <2>2 DEF Rescheduled
      <3>. QED
        BY <1>1, <3>1
    <2>. QED
      BY <2>1, <2>2
  <1>4. CASE Climb \/ ClimbRoot
    BY <1>1, <1>2, <1>3, <1>4, ClimbTouches
  <1>5. CASE Execute
    <2>1. Untouched(ns, ns)
      BY <1>1 DEF Untouched, Instance
    <2>2. Rescheduled(ns, Scheduled(ns))
      BY <2>1, SchedulesOnce
    <2>. QED
      BY <1>3, <1>5, <2>2 DEF Execute
  <1>6. CASE BeginBurst \/ Cancel
    <2>1. ns'.handle = FALSE
      BY <1>1, <1>6 DEF BeginBurst, Cancel, Instance
    <2>. QED
      BY <2>1
  <1>7. CASE EndBurst
    <2> DEFINE q == [ns EXCEPT !.in_exec = FALSE]
    <2>1. ns' = q \/ ns' = Scheduled(q)
      BY <1>7 DEF EndBurst
    <2>2. q.handle = ns.handle /\ q.runs = ns.runs /\ Untouched(q, q)
      BY <1>1 DEF Instance, Untouched
    <2> HIDE DEF q
    <2>3. Rescheduled(q, Scheduled(q))
      BY <2>2, SchedulesOnce
    <2>. QED
      BY <1>1, <2>1, <2>2, <2>3 DEF Rescheduled
  <1>. QED
    BY <1>1, <1>2, <1>4, <1>5, <1>6, <1>7, ActionTouches DEF Next, Engine

----------------------------------------------------------------------------
(* The invariant                                                            *)

LEMMA InitWalks ==
    ASSUME Init
    PROVE  TreeInv
  <1>1. MaxSteps \in Nat \ {0} /\ MaxExtended \in Nat \ {0} /\ 0 \in Slot /\ 0 \in Ext
        /\ BurstSize \in Nat /\ MaxTimeouts \in Nat /\ MaxStackAllocs \in Nat
        /\ MaxCancels \in Nat
    BY Bounds DEF Slot, Ext
  <1>2. Fresh \in StepData
    BY <1>1 DEF Fresh, StepData
  <1> DEFINE queue == [s \in Slot |-> Fresh]
             object == [e \in Ext |-> None]
  <1>3. queue \in [Slot -> StepData] /\ object \in [Ext -> Object \cup {None}]
    BY <1>2
  <1>4. /\ ns.queue = queue /\ ns.begin = 0 /\ ns.size = 0 /\ ns.last = None
        /\ ns.in_exec = FALSE /\ ns.handle = FALSE /\ ns.runs = 0 /\ ns.timeouts = <<>>
        /\ ns.cancels = <<>> /\ ns.allocs = <<>>
    BY DEF Init
  <1>5. ns \in Instance
    <2>1. 0 \in 0 .. MaxSteps - 1
      BY <1>1
    <2> HIDE DEF queue, object
    <2>2. ns = [queue |-> queue, begin |-> 0, size |-> 0,
                last |-> None, in_exec |-> FALSE, handle |-> FALSE, runs |-> 0,
                timeouts |-> <<>>, armed |-> {}, cancels |-> <<>>,
                allocs |-> <<>>, used |-> {}, lost |-> {}, object |-> object, err |-> ""]
      BY DEF Init, queue, object
    <2>3. /\ <<>> \in Seq([step : Slot, timer : Timer]) /\ {} \in SUBSET Timer
          /\ <<>> \in Seq([step : Slot, unlock : BOOLEAN]) /\ <<>> \in Seq(Slot)
          /\ {} \in SUBSET Ext /\ None \in Slot \cup {None} /\ 0 \in Nat
          /\ FALSE \in BOOLEAN /\ "" \in {"", "Timeout", "Error", "break", "continue"}
      OBVIOUS
    <2>. QED
      BY <1>1, <1>3, <2>1, <2>2, <2>3, Zenon DEF Instance
  <1>6. Repeaters(ns)
    BY <1>4 DEF Repeaters, Fresh
  <1> HIDE DEF queue, object
  <1>7. Syncs(ns) = {}
    <2>1. \A s \in Slot : ~InQueue(ns, s)
      <3> TAKE s \in Slot
      <3>1. Offset(ns, s) \in 0 .. MaxSteps - 1
        BY <1>5, SlotInRing
      <3>2. ~(Offset(ns, s) < ns.size)
        BY <1>1, <1>4, <3>1
      <3>. QED
        BY <1>5, <3>2, SlotInRing
    <2>. QED
      BY <2>1 DEF Syncs
  <1>8. allow \in Mixes /\ allow.steps \in Nat
    BY Bounds DEF Init
  <1>9. Sound(ns, allow)
    <2>1. Cardinality(Syncs(ns)) = 0
      BY <1>7, FS_EmptySet
    <2>2. Len(ns.timeouts) = 0 /\ Len(ns.cancels) = 0 /\ Len(ns.allocs) = 0
      BY <1>4
    <2>. QED
      BY <1>1, <1>4, <1>5, <1>6, <1>8, <2>1, <2>2 DEF Sound
  <1>10. TreeOf(ns, None) /\ NextReady(ns, None)
    <2>1. Ring(ns) = <<>>
      BY <1>4, <1>5, RingList
    <2>2. Front(ns, None) = 0
      BY DEF Front, FrontOf
    <2>. QED
      BY <1>4, <2>1, <2>2, TreeEmpty DEF TreeOf, NextReady
  <1>11. Walk(ns, pc, cur, allow)
    BY <1>4, <1>9, <1>10 DEF Init, Walk, TreeThere, Climbing, Ready, Control
  <1>12. Others
    <2>1. held \in [Object -> Nat]
      BY DEF Init
    <2>2. ns.handle = FALSE /\ sched = FALSE /\ pending = None /\ request = None
          /\ burst = 0
      BY DEF Init
    <2>3. burst \in 0 .. BurstSize
      BY <1>1, <2>2
    <2>. QED
      BY <1>8, <2>1, <2>2, <2>3, Zenon DEF Others
  <1>. QED
    BY <1>11, <1>12 DEF TreeInv

\* Every step keeps it.
LEMMA NextWalks ==
    ASSUME Roomy, TreeInv, [Next]_vars
    PROVE  TreeInv'
  <1>1. CASE Next
    <2>1. Walk(ns', pc', cur', allow)
      <3>1. CASE Engine
        BY <3>1, BeginWalks, RunWalks, EndWalks, ClimbWalks, ClimbRootWalks, UnwindWalks,
           ResetWalks, CancelLevelWalks DEF Engine
      <3>2. CASE Handlers
        BY <3>2, WaitWalks, SetTimeoutWalks, StackWalks, EndHandlerWalks, EndOnErrorWalks
           DEF Handlers
      <3>. QED
        BY <1>1, <3>1, <3>2, AddWalks, ExecuteWalks, TimerWalks, EventWalks,
           ForeignSuccessWalks, ForeignTaskWalks, CancelWalks DEF Next
    <2>2. allow' = allow
      BY <1>1 DEF Next
    <2>3. SyncTypes' /\ LoopTypes'
      BY <1>1, SyncTyped, LoopTyped DEF TreeInv, Others, SyncTypes, LoopTypes
    <2>4. ns'.handle => ns'.runs > 0
      BY <1>1, HandleIsUnderWay
    <2>. QED
      BY <2>1, <2>2, <2>3, <2>4 DEF TreeInv, Others, SyncTypes, LoopTypes
  <1>2. CASE UNCHANGED vars
    BY <1>2 DEF vars, sync, loop, TreeInv, Others, Walk, Sound, TreeThere, Climbing, Ready,
                Control
  <1>. QED
    BY <1>1, <1>2

\* With a slot of the ring to spare the tree is there in every state.
THEOREM NitroTree == ASSUME Roomy PROVE Spec => []TreeInv
  <1>1. Init => TreeInv
    BY InitWalks
  <1>2. TreeInv /\ [Next]_vars => TreeInv'
    BY NextWalks
  <1>. QED
    BY <1>1, <1>2, PTL DEF Spec

\* Type correctness: whatever user code does within its limits, indices stay in
\* the ring and the buffers do not overflow.
THEOREM NitroTypes == ASSUME Roomy PROVE Spec => []TypeOK
  <1>1. TreeInv => TypeOK
    <2> SUFFICES ASSUME TreeInv PROVE TypeOK
      OBVIOUS
    <2>1. ns \in Instance /\ Sound(ns, allow) /\ cur \in Slot \cup {None}
          /\ allow \in Mixes
      BY Here
    <2>2. /\ MaxSteps \in Nat \ {0} /\ MaxCancels \in Nat
          /\ Len(ns.cancels) \in Nat /\ Cardinality(Syncs(ns)) \in Nat
      BY <2>1, Bounds, InstanceTypes, SyncsCounted
    <2>3. /\ Len(ns.timeouts) <= MaxTimeouts /\ Len(ns.allocs) <= MaxStackAllocs
          /\ Len(ns.cancels) + Cardinality(Syncs(ns)) <= MaxCancels
      BY <2>1 DEF Sound
    <2>4. Len(ns.cancels) <= MaxCancels
      BY <2>2, <2>3
    <2>5. ns.size \in 0 .. MaxSteps
      <3>1. ns.size \in 0 .. MaxSteps - 1
        BY <2>1, InstanceTypes
      <3>. QED
        BY <2>2, <3>1
    <2>6. /\ ns.queue \in [Slot -> StepData] /\ ns.begin \in Slot
          /\ ns.last \in Slot \cup {None} /\ ns.used \subseteq Ext /\ ns.armed \subseteq Timer
          /\ ns.runs \in Nat
      <3>1. ns.used \in SUBSET Ext /\ ns.armed \in SUBSET Timer
            /\ ns.queue \in [Slot -> StepData] /\ ns.begin \in Slot
            /\ ns.last \in Slot \cup {None} /\ ns.runs \in Nat
        BY <2>1, InstanceTypes
      <3>. QED
        BY <3>1
    <2>7. held \in [Object -> Nat] /\ pending \in Object \cup {None}
          /\ burst \in 0 .. BurstSize
      BY DEF TreeInv, Others
    <2>8. pc \in {"idle", "build", "exec", "handler", "climb", "unwind", "on_error",
                  "cancel"}
      BY DEF TreeInv, Walk, Control
    <2>. QED
      BY <2>1, <2>3, <2>4, <2>5, <2>6, <2>7, <2>8 DEF TypeOK
  <1>. QED
    BY <1>1, NitroTree, PTL

\* The ring begins at its first place.
LEMMA BeginIsFirst ==
    ASSUME NEW q \in Instance
    PROVE  Offset(q, q.begin) = 0
  <1>1. q.begin \in Int /\ MaxSteps \in Nat \ {0}
    <2>1. q.begin \in Slot /\ MaxSteps \in Nat \ {0}
      BY InstanceTypes, NitroAssumption
    <2>. QED
      BY <2>1 DEF Slot
  <1>2. q.begin - q.begin = 0 /\ 0 % MaxSteps = 0
    BY <1>1
  <1>. QED
    BY <1>2 DEF Offset, Distance

\* Wherever the ring begins, its steps form a tree.
THEOREM NitroRing == ASSUME Roomy PROVE Spec => []RingIsTree
  <1>1. TreeInv /\ TypeOK => RingIsTree
    <2> SUFFICES ASSUME TreeInv, TypeOK, pc \notin {"climb", "unwind", "cancel"}
                 PROVE  RingIsTree
      BY DEF RingIsTree
    <2> DEFINE L == Ring(ns)
               f == Marks(ns)
               tip == ns.last
    <2>1. ns \in Instance /\ tip \in Slot \cup {None} /\ TreeOf(ns, tip)
      BY Here
    <2>2. Typed(L, f, tip) /\ Tree(L, f, tip)
      BY <2>1, MarksOf DEF TreeOf
    <2>3. /\ Len(L) = ns.size /\ DOMAIN L = 1 .. ns.size /\ ns.size \in Nat
          /\ \A i \in 1 .. ns.size : L[i] \in Slot /\ Offset(ns, L[i]) = i - 1
      BY <2>1, RingList, InstanceTypes
    <2>4. \A s : Position(s) = Offset(ns, s)
      BY DEF Position, Offset, Distance
    <2>5. \A s \in Alive : /\ s \in Slot /\ Offset(ns, s) \in Nat /\ Offset(ns, s) < ns.size
                           /\ Offset(ns, s) + 1 \in DOMAIN L /\ L[Offset(ns, s) + 1] = s
      <3> SUFFICES ASSUME NEW s \in Alive
                   PROVE  /\ s \in Slot /\ Offset(ns, s) \in Nat /\ Offset(ns, s) < ns.size
                          /\ Offset(ns, s) + 1 \in DOMAIN L /\ L[Offset(ns, s) + 1] = s
        OBVIOUS
      <3>1. s \in Slot /\ InQueue(ns, s)
        BY DEF Alive
      <3>2. Offset(ns, s) \in 0 .. MaxSteps - 1 /\ MaxSteps \in Nat
        BY <2>1, <3>1, SlotInRing, Bounds
      <3>3. Offset(ns, s) < ns.size /\ Offset(ns, s) + 1 \in 1 .. ns.size
            /\ L[Offset(ns, s) + 1] = s
        BY <2>1, <3>1, SlotInRing
      <3>. QED
        BY <2>3, <3>1, <3>2, <3>3
    <2>6. \A s \in Slot : /\ f[s].parent = ns.queue[s].parent
                          /\ f[s].start = Offset(ns, ns.queue[s].start)
                          /\ f[s].front = Offset(ns, ns.queue[s].front)
                          /\ ns.queue[s].start \in Slot /\ ns.queue[s].front \in Slot
                          /\ f[s].start \in Nat /\ f[s].front \in Nat
      <3>1. \A s \in Slot : ns.queue[s].start \in Slot /\ ns.queue[s].front \in Slot
        BY <2>1, MarksOf DEF StepData
      <3>. QED
        BY <2>1, <2>2, <3>1, MarksOf DEF Typed
    <2> HIDE DEF L, f
    <2>7. ASSUME NEW s \in Alive, ns.queue[s].parent # None
          PROVE  LET p == ns.queue[s].parent IN
                 /\ p \in Alive /\ Position(p) < Mark(ns.queue[p].start)
                 /\ Mark(ns.queue[p].start) <= Mark(ns.queue[p].front)
                 /\ Mark(ns.queue[p].front) < ns.size
                 /\ \A r \in Alive : Position(r) \in Mark(ns.queue[p].start)
                                                     .. Position(s)
                                     => ns.queue[r].parent = p
      <3> DEFINE p == ns.queue[s].parent
                 j == Offset(ns, s) + 1
      <3>1. s \in Slot /\ j \in DOMAIN L /\ L[j] = s /\ f[L[j]].parent = p
        BY <2>5, <2>6
      <3>2. /\ \E k \in DOMAIN L : L[k] = p /\ k <= f[p].start
            /\ f[p].start <= f[p].front /\ f[p].front < Len(L)
            /\ \A i \in f[p].start + 1 .. j : f[L[i]].parent = p
        BY <2>2, <2>7, <3>1, LevelRun
      <3>3. PICK k \in DOMAIN L : L[k] = p /\ k <= f[p].start
        BY <3>2
      <3> HIDE DEF j
      <3>4. p \in Slot /\ Offset(ns, p) = k - 1 /\ k \in Nat
        BY <2>3, <3>3
      <3>5. /\ f[p].start = Offset(ns, ns.queue[p].start)
            /\ f[p].front = Offset(ns, ns.queue[p].front)
            /\ f[p].start \in Nat /\ f[p].front \in Nat /\ ns.queue[p].front \in Slot
        BY <2>6, <3>4
      <3>6. Offset(ns, p) < f[p].start
        BY <3>3, <3>4, <3>5
      <3>7. p \in Alive
        <4>1. Offset(ns, p) < ns.size
          BY <2>3, <3>3, <3>4
        <4>. QED
          BY <2>1, <3>4, <4>1, SlotInRing DEF Alive
      <3>8. /\ Mark(ns.queue[p].start) = f[p].start
            /\ Mark(ns.queue[p].front) = f[p].front
        <4>1. f[p].start # 0 /\ f[p].front # 0
          BY <3>2, <3>3, <3>4, <3>5, SMTT(40)
        <4>2. Offset(ns, ns.begin) = 0
          BY <2>1, BeginIsFirst
        <4>3. ns.queue[p].start # ns.begin /\ ns.queue[p].front # ns.begin
          BY <3>5, <4>1, <4>2
        <4>. QED
          BY <2>4, <3>5, <4>3 DEF Mark
      <3>9. ASSUME NEW r \in Alive, Offset(ns, r) \in f[p].start .. Offset(ns, s)
            PROVE  ns.queue[r].parent = p
        <4>1. Offset(ns, r) + 1 \in f[p].start + 1 .. j /\ L[Offset(ns, r) + 1] = r
              /\ r \in Slot
          BY <2>5, <3>5, <3>9 DEF j
        <4>. QED
          BY <2>6, <3>2, <4>1
      <3>. QED
        BY <2>3, <2>4, <3>2, <3>6, <3>7, <3>8, <3>9
    <2>8. ASSUME tip # None
          PROVE  /\ tip \in Alive /\ ns.queue[tip].ran
                 /\ LET p == ns.queue[tip].parent
                    IN  tip = IF p = None THEN ns.begin ELSE ns.queue[p].front
                 /\ \A r \in Alive : ns.queue[r].parent = tip
                                    <=> Mark(ns.queue[tip].start) <= Position(r)
      <3> DEFINE p == ns.queue[tip].parent
      <3>1. tip \in Slot /\ InQueue(ns, tip) /\ ns.queue[tip].ran
        BY <2>1, <2>8, TipInUse
      <3>2. p \in Slot \cup {None} /\ Front(ns, p) < ns.size
            /\ Ring(ns)[Front(ns, p) + 1] = tip
        BY <2>1, <3>1, TipIsFront
      <3>3. Ring(ns)[Front(ns, p) + 1] = IF p = None THEN ns.begin ELSE ns.queue[p].front
        BY <2>1, <3>2, FrontSlot
      <3>4. ASSUME NEW r \in Alive
            PROVE  ns.queue[r].parent = tip <=> f[tip].start <= Offset(ns, r)
        <4>1. /\ r \in Slot /\ Offset(ns, r) \in Nat /\ Offset(ns, r) + 1 \in DOMAIN L
              /\ L[Offset(ns, r) + 1] = r
          BY <2>5
        <4>2. f[L[Offset(ns, r) + 1]].parent = tip <=> Offset(ns, r) + 1 > StartOf(f, tip)
          BY <2>2, <4>1 DEF Tree, EndIsTip
        <4>3. StartOf(f, tip) = f[tip].start /\ f[tip].start \in Nat
          BY <2>6, <2>8, <3>1 DEF StartOf
        <4>. QED
          BY <2>6, <4>1, <4>2, <4>3
      <3>5. Mark(ns.queue[tip].start) = f[tip].start
        <4>1. Offset(ns, ns.begin) = 0 /\ Offset(ns, tip) \in Nat
          BY <2>1, <2>5, <3>1, BeginIsFirst DEF Alive
        <4>2. Offset(ns, tip) < f[tip].start
          <5>1. tip \in Path(L, f, tip) /\ f[tip].parent = p
            BY <2>6, <2>8, <3>1 DEF Path
          <5>2. FrontOf(f, p) + 1 \in DOMAIN L /\ L[FrontOf(f, p) + 1] = tip
                /\ FrontOf(f, p) < f[tip].start
            BY <2>2, <5>1 DEF Tree, Levels
          <5>3. Front(ns, p) = FrontOf(f, p)
            BY DEF Front, f
          <5>4. Front(ns, p) \in Nat
            BY <2>1, <3>2, FrontSlot
          <5>. QED
            BY <2>3, <5>2, <5>3, <5>4
        <4>3. ns.queue[tip].start # ns.begin
          BY <2>6, <3>1, <4>1, <4>2
        <4>. QED
          BY <2>4, <2>6, <3>1, <4>3 DEF Mark
      <3>. QED
        BY <2>4, <2>6, <3>1, <3>2, <3>3, <3>4, <3>5 DEF Alive
    <2>. QED
      BY <2>7, <2>8 DEF RingIsTree
  <1>. QED
    BY <1>1, NitroTree, NitroTypes, PTL

\* Of the children of the innermost step those before the next one have run.
LEMMA ChildrenInOrder ==
    ASSUME NEW q, NEW f, NEW tip, Typed(q, f, tip), Tree(q, f, tip),
           FrontOf(f, tip) < Len(q)
    PROVE  /\ f[q[FrontOf(f, tip) + 1]].parent = tip
           /\ \A i \in DOMAIN q :
                 f[q[i]].parent = tip =>
                   /\ i < FrontOf(f, tip) + 1 => f[q[i]].ran
                   /\ i > FrontOf(f, tip) + 1 => ~f[q[i]].ran
  <1>1. f[q[FrontOf(f, tip) + 1]].parent = tip
    <2> DEFINE s == q[FrontOf(f, tip) + 1]
    <2>1. f[s].parent = tip
      BY NextIsChild
    <2>. QED
      BY <2>1
  <1>. QED
    BY <1>1 DEF Tree, Order

\* The same of an instance: the next step is a child of the innermost one, and
\* its siblings have run when they are before it.
LEMMA SiblingsInOrder ==
    ASSUME NEW q \in Instance, NEW o \in Slot \cup {None}, TreeOf(q, o),
           Front(q, o) < q.size
    PROVE  LET n == IF o = None THEN q.begin ELSE q.queue[o].front IN
           /\ q.queue[n].parent = o
           /\ \A s \in Slot : InQueue(q, s) /\ s # n /\ q.queue[s].parent = o =>
                 (q.queue[s].ran <=> Offset(q, s) < Offset(q, n))
  <1> DEFINE L == Ring(q)
             f == Marks(q)
             n == IF o = None THEN q.begin ELSE q.queue[o].front
  <1>0. n \in Slot /\ Front(q, o) = Offset(q, n) /\ L[Front(q, o) + 1] = n
    BY FrontSlot
  <1> HIDE DEF n
  <1>1. Typed(L, f, o) /\ Tree(L, f, o) /\ Len(L) = q.size /\ DOMAIN L = 1 .. q.size
        /\ FrontOf(f, o) = Offset(q, n) /\ FrontOf(f, o) < Len(L)
    BY <1>0, MarksOf, RingList DEF TreeOf, Front
  <1>2. \A x \in Slot : f[x].parent = q.queue[x].parent /\ f[x].ran = q.queue[x].ran
    BY MarksOf
  <1>3. L[Offset(q, n) + 1] = n
    BY <1>0
  <1>4. \A s \in Slot : InQueue(q, s) =>
           /\ Offset(q, s) \in 0 .. MaxSteps - 1 /\ Offset(q, s) + 1 \in 1 .. q.size
           /\ L[Offset(q, s) + 1] = s
    BY SlotInRing
  <1>5. MaxSteps \in Nat /\ Offset(q, n) \in Nat
    BY <1>0, Bounds, SlotInRing
  <1> HIDE DEF L, f
  <1>6. /\ f[L[FrontOf(f, o) + 1]].parent = o
        /\ \A i \in DOMAIN L :
              f[L[i]].parent = o =>
                /\ i < FrontOf(f, o) + 1 => f[L[i]].ran
                /\ i > FrontOf(f, o) + 1 => ~f[L[i]].ran
    BY <1>1, ChildrenInOrder
  <1>7. q.queue[n].parent = o
    BY <1>0, <1>1, <1>2, <1>3, <1>6
  <1>8. ASSUME NEW s \in Slot, InQueue(q, s), s # n, q.queue[s].parent = o
        PROVE  q.queue[s].ran <=> Offset(q, s) < Offset(q, n)
    <2> DEFINE i == Offset(q, s)
               j == Offset(q, n)
    <2>1. i \in 0 .. MaxSteps - 1 /\ i + 1 \in 1 .. q.size /\ L[i + 1] = s
      BY <1>4, <1>8
    <2>2. f[s].parent = o /\ f[s].ran = q.queue[s].ran
      BY <1>2, <1>8
    <2>3. i # j
      BY <1>3, <1>8, <2>1
    <2>4. i + 1 \in DOMAIN L
      BY <1>1, <2>1
    <2> HIDE DEF i, j
    <2>5. (i + 1 < j + 1 => f[s].ran) /\ (i + 1 > j + 1 => ~f[s].ran)
      BY <1>1, <1>6, <2>1, <2>2, <2>4 DEF j
    <2>6. i \in Nat /\ j \in Nat
      BY <1>5, <2>1 DEF j
    <2>7. (i < j => i + 1 < j + 1) /\ (~(i < j) => i + 1 > j + 1)
      BY <2>3, <2>6
    <2>8. f[s].ran <=> i < j
      BY <2>5, <2>7
    <2>. QED
      BY <2>2, <2>8 DEF i, j
  <1>. QED
    BY <1>7, <1>8 DEF n

\* Handlers are called in the order of their steps.
THEOREM NitroOrder == ASSUME Roomy PROVE Spec => RunsInOrder
  <1> DEFINE Ordered ==
               pc = "exec" /\ burst' # burst /\ ns'.in_exec /\ fatal' = "" =>
                  LET step == ns.queue[NextStep] IN
                  /\ step.ran => step.repeat
                  /\ \A s \in Alive \ {NextStep} :
                        ns.queue[s].parent = step.parent =>
                            (ns.queue[s].ran <=> Position(s) < Position(NextStep))
  <1>1. TreeInv /\ [Next]_vars => [Ordered]_vars
    <2> SUFFICES ASSUME TreeInv, Next, pc = "exec", burst' # burst, ns'.in_exec,
                        fatal' = ""
                 PROVE  LET step == ns.queue[NextStep] IN
                        /\ step.ran => step.repeat
                        /\ \A s \in Alive \ {NextStep} :
                              ns.queue[s].parent = step.parent =>
                                  (ns.queue[s].ran <=> Position(s) < Position(NextStep))
      OBVIOUS
    <2>1. RunStep
      <3>1. ~EndBurst
        <4> SUFFICES ASSUME EndBurst PROVE FALSE
          OBVIOUS
        <4> DEFINE q == [ns EXCEPT !.in_exec = FALSE]
        <4>1. ns' = q \/ ns' = Scheduled(q)
          BY DEF EndBurst
        <4>2. ~q.in_exec /\ Untouched(q, q)
          BY Here DEF Instance, Untouched
        <4> HIDE DEF q
        <4>3. Rescheduled(q, Scheduled(q))
          BY <4>2, SchedulesOnce
        <4>. QED
          BY <4>1, <4>2, <4>3 DEF Rescheduled
      <3>2. Add \/ Execute \/ Handlers \/ Cancel \/ (\E t \in Timer : TimerFire(t))
              \/ ExternalEvent \/ ForeignTask \/ BeginBurst \/ Climb \/ ClimbRoot
              \/ Unwind \/ UnwindRoot \/ CancelLevel \/ CancelEnd
            => FALSE
        BY DEF Add, Execute, Handlers, Wait, SetTimeout, Stack, EndHandler, EndOnError,
               Cancel, TimerFire, ExternalEvent, ForeignTask, BeginBurst, Climb, ClimbRoot,
               Unwind, UnwindRoot, CancelLevel, CancelEnd
      <3>3. ~ForeignSuccess
        BY DEF ForeignSuccess, loop
      <3>. QED
        BY <3>1, <3>2, <3>3 DEF Next, Engine
    <2>2. NextStep \in Alive
      BY <2>1 DEF RunStep, Stop
    <2> DEFINE o == ns.last
    <2>3. /\ ns \in Instance /\ o \in Slot \cup {None} /\ TreeOf(ns, o)
          /\ NextStep \in Slot /\ InQueue(ns, NextStep)
      BY <2>2, Here DEF Alive
    <2>4. NextStep = IF o = None THEN ns.begin ELSE ns.queue[o].front
      BY DEF NextStep
    <2>5. Front(ns, o) < ns.size
      BY <2>3, <2>4, FrontSlot
    <2>6. /\ ns.queue[NextStep].parent = o
          /\ \A s \in Slot : InQueue(ns, s) /\ s # NextStep /\ ns.queue[s].parent = o =>
                (ns.queue[s].ran <=> Offset(ns, s) < Offset(ns, NextStep))
      BY <2>3, <2>4, <2>5, SiblingsInOrder
    <2>7. ns.queue[NextStep].ran => ns.queue[NextStep].repeat
      BY <2>2, Called
    <2>8. \A s : Position(s) = Offset(ns, s)
      BY DEF Position, Offset, Distance
    <2>. QED
      BY <2>6, <2>7, <2>8 DEF Alive
  <1>. QED
    BY <1>1, NitroTree, PTL DEF Spec, RunsInOrder

=============================================================================
