-------------------------- MODULE NitroFlowProofs --------------------------
(* Proofs about the fixed-buffer engine, NitroSteps, that rest on its tree:  *)
(* resources belong to the running steps, and the flow goes on.              *)
EXTENDS NitroProofs

----------------------------------------------------------------------------
(* The stacks of resources.  A stack is a list of the steps that own its     *)
(* entries; c says how many entries each step has, and d orders the steps.   *)

Kept(own, c, d) ==
    /\ own \in Seq(Slot)
    /\ \A i \in DOMAIN own : \A j \in DOMAIN own : i <= j => d[own[i]] <= d[own[j]]
    /\ \A s \in Slot : Cardinality({i \in DOMAIN own : own[i] = s}) = c[s]

\* The entries of a step behind which no other step has any are the last ones.
LEMMA LastEntries ==
    ASSUME NEW own \in Seq(Slot), NEW t \in Slot, NEW d \in [Slot -> Int],
           \A i \in DOMAIN own : \A j \in DOMAIN own : i <= j => d[own[i]] <= d[own[j]],
           \A i \in DOMAIN own : own[i] # t => d[own[i]] < d[t]
    PROVE  LET n == Cardinality({i \in DOMAIN own : own[i] = t}) IN
           /\ n \in 0 .. Len(own)
           /\ \A i \in DOMAIN own : own[i] = t <=> i > Len(own) - n
  <1> DEFINE K == {i \in DOMAIN own : own[i] = t}
  <1>1. Len(own) \in Nat /\ DOMAIN own = 1 .. Len(own) /\ \A i \in DOMAIN own : own[i] \in Slot
    OBVIOUS
  <1>2. ASSUME NEW i \in K, NEW j \in DOMAIN own, i <= j
        PROVE  j \in K
    <2>1. d[own[i]] = d[t] /\ d[own[i]] <= d[own[j]] /\ d[own[j]] \in Int /\ d[t] \in Int
      BY <1>1, <1>2
    <2>. QED
      BY <2>1
  <1>3. CASE K = {}
    <2>1. Cardinality(K) = 0 /\ \A i \in DOMAIN own : own[i] # t
      BY <1>3, FS_EmptySet
    <2>. HIDE DEF K
    <2>2. Cardinality(K) \in 0 .. Len(own) /\ \A i \in DOMAIN own : ~(i > Len(own) - 0)
      BY <1>1, <2>1
    <2>. QED
      BY <2>1, <2>2 DEF K
  <1>4. CASE K # {}
    <2>1. K \subseteq Nat
      BY <1>1
    <2>2. PICK k \in K : \A j \in K : k <= j
      BY <1>4, <2>1, LeastNumber
    <2>3. K = k .. Len(own)
      BY <1>1, <1>2, <2>2
    <2>4. Cardinality(K) = Len(own) - k + 1
      <3>1. k \in Int /\ Len(own) \in Int /\ k <= Len(own)
        <4>1. k \in DOMAIN own
          OBVIOUS
        <4>. QED
          BY <1>1, <4>1
      <3>2. Cardinality(k .. Len(own)) = Len(own) - k + 1
        BY <3>1, FS_Interval
      <3>. QED
        BY <2>3, <3>2
    <2>5. k \in 1 .. Len(own)
      BY <1>1, <2>2
    <2>6. \A i \in DOMAIN own : own[i] = t <=> i >= k
      BY <1>1, <2>3, <2>5
    <2>. HIDE DEF K
    <2>7. Cardinality(K) \in 0 .. Len(own) /\ Len(own) - Cardinality(K) = k - 1
      BY <1>1, <2>4, <2>5
    <2>8. \A i \in DOMAIN own : i >= k <=> i > Len(own) - Cardinality(K)
      BY <1>1, <2>5, <2>7
    <2>. QED
      BY <2>6, <2>7, <2>8 DEF K
  <1>. QED
    BY <1>3, <1>4

\* Such a step's entries are dropped.
LEMMA Popped ==
    ASSUME NEW own, NEW c, NEW d \in [Slot -> Int], Kept(own, c, d), NEW t \in Slot,
           \A s \in Slot \ {t} : c[s] # 0 => d[s] < d[t],
           NEW e, \A s \in Slot : e[s] = IF s = t THEN 0 ELSE c[s]
    PROVE  Kept(Drop(own, c[t]), e, d) /\ c[t] \in Nat
  <1> DEFINE n == c[t]
             r == Drop(own, n)
  <1>1. /\ own \in Seq(Slot) /\ Len(own) \in Nat /\ DOMAIN own = 1 .. Len(own)
        /\ \A i \in DOMAIN own : own[i] \in Slot
    BY DEF Kept
  <1>2. ASSUME NEW i \in DOMAIN own, own[i] # t
        PROVE  d[own[i]] < d[t]
    <2>1. {j \in DOMAIN own : own[j] = own[i]} # {}
      OBVIOUS
    <2>2. IsFiniteSet({j \in DOMAIN own : own[j] = own[i]})
      <3>1. IsFiniteSet(1 .. Len(own))
        BY <1>1, FS_Interval
      <3>. QED
        BY <1>1, <3>1, FS_Subset
    <2>3. Cardinality({j \in DOMAIN own : own[j] = own[i]}) # 0
      BY <2>1, <2>2, FS_EmptySet
    <2>4. own[i] \in Slot \ {t} /\ c[own[i]] # 0
      BY <1>1, <1>2, <2>3 DEF Kept
    <2>. QED
      BY <2>4
  <1>3. n \in 0 .. Len(own) /\ \A i \in DOMAIN own : own[i] = t <=> i > Len(own) - n
    <2>1. n = Cardinality({i \in DOMAIN own : own[i] = t})
      BY DEF Kept
    <2>2. \A i \in DOMAIN own : \A j \in DOMAIN own : i <= j => d[own[i]] <= d[own[j]]
      BY DEF Kept
    <2>. HIDE DEF n
    <2>. QED
      BY <1>1, <1>2, <2>1, <2>2, LastEntries, ZenonT(60)
  <1>4. /\ r \in Seq(Slot) /\ Len(r) = Len(own) - n /\ DOMAIN r = 1 .. Len(own) - n
        /\ \A i \in 1 .. Len(own) - n : r[i] = own[i]
    <2>1. n \in Nat /\ n <= Len(own)
      BY <1>1, <1>3
    <2>2. Len(Drop(own, n)) = Len(own) - n /\ Drop(own, n) \in Seq(Slot)
      <3>. HIDE DEF n
      <3>. QED
        BY <1>1, <2>1, Dropped
    <2>3. DOMAIN Drop(own, n) = 1 .. Len(Drop(own, n))
          /\ \A i \in 1 .. Len(Drop(own, n)) : Drop(own, n)[i] = own[i]
      <3>. HIDE DEF n
      <3>. QED
        BY <1>1, <2>1, Dropped
    <2>. QED
      BY <2>2, <2>3
  <1>5. \A i \in DOMAIN r : i \in DOMAIN own /\ r[i] = own[i] /\ r[i] # t
    BY <1>1, <1>3, <1>4
  <1>6. ASSUME NEW s \in Slot
        PROVE  Cardinality({i \in DOMAIN r : r[i] = s}) = e[s]
    <2>1. CASE s = t
      <3>1. {i \in DOMAIN r : r[i] = s} = {}
        BY <1>5, <2>1
      <3>. QED
        BY <2>1, <3>1, FS_EmptySet
    <2>2. CASE s # t
      <3>1. {i \in DOMAIN r : r[i] = s} = {i \in DOMAIN own : own[i] = s}
        BY <1>1, <1>3, <1>4, <1>5, <2>2, SMTT(40)
      <3>. QED
        BY <2>2, <3>1 DEF Kept
    <2>. QED
      BY <2>1, <2>2
  <1>7. \A i \in DOMAIN r : \A j \in DOMAIN r : i <= j => d[r[i]] <= d[r[j]]
    BY <1>5 DEF Kept
  <1>8. n \in Nat
    BY <1>3
  <1>. QED
    BY <1>4, <1>6, <1>7, <1>8 DEF Kept

\* A step gets one more entry, on top of those of the others.
LEMMA Pushed ==
    ASSUME NEW own, NEW c, NEW d \in [Slot -> Int], Kept(own, c, d), NEW t \in Slot,
           \A s \in Slot \ {t} : c[s] # 0 => d[s] < d[t],
           NEW e, \A s \in Slot : e[s] = IF s = t THEN c[s] + 1 ELSE c[s]
    PROVE  Kept(Append(own, t), e, d)
  <1> DEFINE r == Append(own, t)
  <1>1. /\ own \in Seq(Slot) /\ Len(own) \in Nat /\ DOMAIN own = 1 .. Len(own)
        /\ \A i \in DOMAIN own : own[i] \in Slot
    BY DEF Kept
  <1>2. /\ r \in Seq(Slot) /\ DOMAIN r = 1 .. Len(own) + 1 /\ r[Len(own) + 1] = t
        /\ \A i \in DOMAIN own : i \in DOMAIN r /\ r[i] = own[i]
    BY <1>1
  <1>3. \A s \in Slot : IsFiniteSet({i \in DOMAIN own : own[i] = s})
    <2>1. IsFiniteSet(1 .. Len(own))
      BY <1>1, FS_Interval
    <2>. QED
      BY <1>1, <2>1, FS_Subset
  <1>4. ASSUME NEW i \in DOMAIN own
        PROVE  d[own[i]] <= d[t]
    <2>1. {j \in DOMAIN own : own[j] = own[i]} # {}
      OBVIOUS
    <2>2. Cardinality({j \in DOMAIN own : own[j] = own[i]}) # 0
      BY <1>1, <1>3, <2>1, FS_EmptySet
    <2>3. c[own[i]] # 0 /\ own[i] \in Slot
      BY <1>1, <2>2 DEF Kept
    <2>4. d[own[i]] \in Int /\ d[t] \in Int
      BY <2>3
    <2>. QED
      BY <2>3, <2>4
  <1>5. ASSUME NEW i \in DOMAIN r, NEW j \in DOMAIN r, i <= j
        PROVE  d[r[i]] <= d[r[j]]
    <2>1. CASE j \in DOMAIN own
      <3>1. i \in DOMAIN own
        BY <1>1, <1>2, <1>5, <2>1
      <3>. QED
        BY <1>2, <1>5, <2>1, <3>1 DEF Kept
    <2>2. CASE j = Len(own) + 1
      <3>1. CASE i \in DOMAIN own
        BY <1>2, <1>4, <2>2, <3>1
      <3>2. CASE i = Len(own) + 1
        BY <1>2, <2>2, <3>2
      <3>. QED
        BY <1>1, <1>2, <3>1, <3>2
    <2>. QED
      BY <1>1, <1>2, <2>1, <2>2
  <1>6. ASSUME NEW s \in Slot
        PROVE  Cardinality({i \in DOMAIN r : r[i] = s}) = e[s]
    <2> DEFINE K == {i \in DOMAIN own : own[i] = s}
    <2>1. Cardinality(K) = c[s] /\ IsFiniteSet(K)
      BY <1>3 DEF Kept
    <2>2. CASE s = t
      <3>1. {i \in DOMAIN r : r[i] = s} = K \cup {Len(own) + 1}
        BY <1>1, <1>2, <2>2
      <3>2. Len(own) + 1 \notin K
        BY <1>1
      <3>3. Cardinality(K \cup {Len(own) + 1}) = Cardinality(K) + 1
        BY <2>1, <3>2, FS_AddElement
      <3>. QED
        BY <2>1, <2>2, <3>1, <3>3
    <2>3. CASE s # t
      <3>1. {i \in DOMAIN r : r[i] = s} = K
        BY <1>1, <1>2, <2>3
      <3>. QED
        BY <2>1, <2>3, <3>1
    <2>. QED
      BY <2>2, <2>3
  <1>. QED
    BY <1>2, <1>5, <1>6 DEF Kept

\* With no entries to own there is none.
LEMMA NobodyOwns ==
    ASSUME NEW own, NEW c, NEW d, Kept(own, c, d), \A s \in Slot : c[s] = 0
    PROVE  own = <<>>
  <1>1. /\ own \in Seq(Slot) /\ Len(own) \in Nat /\ DOMAIN own = 1 .. Len(own)
        /\ \A i \in DOMAIN own : own[i] \in Slot
    BY DEF Kept
  <1>2. ASSUME NEW i \in DOMAIN own
        PROVE  FALSE
    <2>1. {j \in DOMAIN own : own[j] = own[i]} # {}
      OBVIOUS
    <2>2. IsFiniteSet({j \in DOMAIN own : own[j] = own[i]})
      <3>1. IsFiniteSet(1 .. Len(own))
        BY <1>1, FS_Interval
      <3>. QED
        BY <1>1, <3>1, FS_Subset
    <2>3. Cardinality({j \in DOMAIN own : own[j] = own[i]}) # 0
      BY <2>1, <2>2, FS_EmptySet
    <2>. QED
      BY <1>1, <2>3 DEF Kept
  <1>3. 1 \notin 1 .. Len(own)
    BY <1>1, <1>2
  <1>4. Len(own) = 0
    BY <1>1, <1>3
  <1>. QED
    BY <1>1, <1>4

\* An empty stack.
LEMMA NothingKept ==
    ASSUME NEW c, NEW d, \A s \in Slot : c[s] = 0
    PROVE  Kept(<<>>, c, d)
  <1>1. <<>> \in Seq(Slot) /\ DOMAIN <<>> = {}
    OBVIOUS
  <1>2. \A s : {i \in DOMAIN <<>> : <<>>[i] = s} = {}
    BY <1>1
  <1>. QED
    BY <1>1, <1>2, FS_EmptySet DEF Kept

----------------------------------------------------------------------------
(* Who owns entries: the running steps, and a step that is to run again.     *)

\* The running steps when o is the innermost one and the first n places of the
\* ring count.
Runs(q, n, o) ==
    ({o} \cup {q.queue[x].parent : x \in {y \in Slot : Offset(q, y) < n}}) \ {None}

\* An extended state is a resource of the step from when it runs.
Claims(step) == step.extended /\ step.ran

Owner(q, s) ==
    \/ q.queue[s].timeout \/ q.queue[s].cancel \/ q.queue[s].allocs # 0
    \/ Claims(q.queue[s])

OwnersIn(q, n, o) == \A s \in Slot : Owner(q, s) => s \in Runs(q, n, o)

NextOf(q, o) == IF o = None THEN q.begin ELSE q.queue[o].front

OwnersOrNext(q, o) ==
    \A s \in Slot : Owner(q, s) =>
        \/ s \in Runs(q, q.size, o)
        \/ s = NextOf(q, o) /\ InQueue(q, s) /\ q.queue[s].ran

\* The entries and the flags of the slots agree, and the entries are in the
\* order of their owners in the ring.  Every timer of the reactor is in the stack.
TimeoutsOf(q) == [s \in Slot |-> IF q.queue[s].timeout THEN 1 ELSE 0]
CancelsOf(q) == [s \in Slot |-> IF q.queue[s].cancel THEN 1 ELSE 0]
AllocsOf(q) == [s \in Slot |-> q.queue[s].allocs]
OffsetsOf(q) == [s \in Slot |-> Offset(q, s)]

Stacks(q) ==
    /\ Kept(Owners(q.timeouts), TimeoutsOf(q), OffsetsOf(q))
    /\ Kept(Owners(q.cancels), CancelsOf(q), OffsetsOf(q))
    /\ Kept(q.allocs, AllocsOf(q), OffsetsOf(q))
    /\ \A t \in q.armed : \E i \in DOMAIN q.timeouts : q.timeouts[i].timer = t

\* Each extended step in the ring has an extended state of its own; the others
\* that are in use were lost.
ExtendedApart(q) ==
    /\ q.lost \subseteq q.used
    /\ \A s \in Slot : q.queue[s].extended =>
          /\ InQueue(q, s) /\ q.queue[s].ext \in q.used \ q.lost
          /\ \A x \in Slot : q.queue[x].extended /\ q.queue[x].ext = q.queue[s].ext => x = s
    /\ \A e \in q.used \ q.lost : \E s \in Slot : q.queue[s].extended /\ q.queue[s].ext = e

Whole(q) == Stacks(q) /\ ExtendedApart(q)

\* Part of the ring and running steps, as slots and as a list.
LEMMA RunsPath ==
    ASSUME NEW q \in Instance, NEW n \in 0 .. q.size, NEW o
    PROVE  Runs(q, n, o) = Path(Part(q, n), Marks(q), o)
  <1>1. /\ Ring(q) \in Seq(Slot) /\ Len(Ring(q)) = q.size /\ q.size \in Nat /\ n \in Nat
        /\ n <= q.size
        /\ \A i \in 1 .. q.size : Ring(q)[i] \in Slot /\ Offset(q, Ring(q)[i]) = i - 1
    <2>1. q.size \in Nat
      BY InstanceTypes
    <2>2. n \in Nat /\ n <= q.size
      BY <2>1
    <2>. QED
      BY <2>1, <2>2, RingList
  <1>2. /\ DOMAIN Part(q, n) = 1 .. n
        /\ \A i \in 1 .. n : Part(q, n)[i] = Ring(q)[i] /\ i \in 1 .. q.size
    BY <1>1 DEF Part
  <1>3. \A x \in Slot : Marks(q)[x].parent = q.queue[x].parent
    BY MarksOf
  <1>4. ASSUME NEW i \in 1 .. n
        PROVE  \E x \in Slot : Offset(q, x) < n /\ q.queue[x].parent = Marks(q)[Part(q, n)[i]].parent
    <2>1. Ring(q)[i] \in Slot /\ Offset(q, Ring(q)[i]) = i - 1 /\ Part(q, n)[i] = Ring(q)[i]
      BY <1>1, <1>2
    <2>2. i - 1 < n
      BY <1>1
    <2>. QED
      BY <1>3, <2>1, <2>2
  <1>5. ASSUME NEW x \in Slot, Offset(q, x) < n
        PROVE  \E i \in DOMAIN Part(q, n) : q.queue[x].parent = Marks(q)[Part(q, n)[i]].parent
    <2>1. Offset(q, x) \in Nat /\ Offset(q, x) < q.size
      <3>1. Offset(q, x) \in 0 .. MaxSteps - 1
        BY SlotInRing
      <3>. QED
        BY <1>1, <1>5, <3>1
    <2>2. Ring(q)[Offset(q, x) + 1] = x
      BY <2>1, SlotInRing
    <2>3. Offset(q, x) + 1 \in 1 .. n
      BY <1>1, <1>5, <2>1
    <2>. QED
      BY <1>2, <1>3, <2>2, <2>3
  <1>. QED
    BY <1>2, <1>4, <1>5 DEF Runs, Path

\* The running steps are in the ring, none after the innermost one.
LEMMA RunsBelowTip ==
    ASSUME NEW q \in Instance, NEW n \in 0 .. q.size, NEW o \in Slot \cup {None},
           Tree(Part(q, n), Marks(q), o), NEW s \in Runs(q, n, o)
    PROVE  /\ o \in Slot /\ s \in Slot /\ InQueue(q, s) /\ q.queue[s].ran
           /\ Offset(q, s) <= Offset(q, o) /\ Offset(q, o) < n
           /\ s # o => Offset(q, s) < Offset(q, o)
  <1>1. /\ Ring(q) \in Seq(Slot) /\ Len(Ring(q)) = q.size /\ q.size \in Nat /\ n \in Nat
        /\ n <= q.size
        /\ \A i \in 1 .. q.size : Ring(q)[i] \in Slot /\ Offset(q, Ring(q)[i]) = i - 1
    <2>1. q.size \in Nat
      BY InstanceTypes
    <2>2. n \in Nat /\ n <= q.size
      BY <2>1
    <2>. QED
      BY <2>1, <2>2, RingList
  <1>2. /\ DOMAIN Part(q, n) = 1 .. n
        /\ \A i \in 1 .. n : Part(q, n)[i] = Ring(q)[i] /\ i \in 1 .. q.size
    BY <1>1 DEF Part
  <1>3. Typed(Part(q, n), Marks(q), o)
    BY PartList
  <1>4. s \in Path(Part(q, n), Marks(q), o)
    BY RunsPath
  <1>5. /\ o # None /\ Marks(q)[s].ran /\ s \in Slot
        /\ \E i, j \in DOMAIN Part(q, n) : i <= j /\ Part(q, n)[i] = s /\ Part(q, n)[j] = o
    BY <1>3, <1>4, PathBelowTip
  <1>6. PICK i \in 1 .. n, j \in 1 .. n : i <= j /\ Ring(q)[i] = s /\ Ring(q)[j] = o
    BY <1>2, <1>5
  <1>7. Offset(q, s) = i - 1 /\ Offset(q, o) = j - 1
    BY <1>1, <1>2, <1>6
  <1>8. Offset(q, s) <= Offset(q, o) /\ Offset(q, o) < n /\ Offset(q, s) < q.size
    BY <1>1, <1>6, <1>7
  <1>9. InQueue(q, s)
    BY <1>5, <1>8, SlotInRing
  <1>10. q.queue[s].ran
    BY <1>5, MarksOf
  <1>11. s # o => Offset(q, s) < Offset(q, o)
    <2>1. s # o => i # j
      BY <1>6
    <2>. QED
      BY <1>1, <1>6, <1>7, <2>1
  <1>. QED
    BY <1>5, <1>8, <1>9, <1>10, <1>11

\* The ring is its own part.
LEMMA WholePart ==
    ASSUME NEW q \in Instance, NEW o
    PROVE  /\ q.size \in 0 .. q.size
           /\ TreeOf(q, o) <=> Tree(Part(q, q.size), Marks(q), o)
  <1>1. q.size \in Nat
    BY InstanceTypes
  <1>2. q.size \in 0 .. q.size
    BY <1>1
  <1>3. Part(q, q.size) = Ring(q)
    BY <1>2, PartList
  <1>. QED
    BY <1>2, <1>3 DEF TreeOf

\* Without the sub-steps of the innermost step the same steps run, and without
\* itself the others.
LEMMA RunsCut ==
    ASSUME NEW q \in Instance, NEW n \in 0 .. q.size, NEW o \in Slot,
           Tree(Part(q, n), Marks(q), o)
    PROVE  LET k == Marks(q)[o].start
               up == q.queue[o].parent
           IN  /\ k \in 0 .. n /\ Offset(q, o) < k /\ up \in Slot \cup {None} /\ up # o
               /\ Runs(q, n, o) \subseteq Runs(q, k, o)
               /\ Runs(q, n, o) \ {o} \subseteq Runs(q, k, up)
               /\ Tree(Part(q, k), Marks(q), up)
  <1> DEFINE k == Marks(q)[o].start
             up == q.queue[o].parent
             kept == SubSeq(Part(q, n), 1, k)
  <1>1. o # None
    BY NoneIsNoSlot
  <1>2. Typed(Part(q, n), Marks(q), o) /\ Len(Part(q, n)) = n /\ DOMAIN Part(q, n) = 1 .. n
    <2>1. Part(q, n) \in Seq(Slot) /\ Len(Part(q, n)) = n
      BY PartList
    <2>. QED
      BY <2>1, PartList
  <1>3. KeepsPath(Part(q, n), Marks(q), o, k, kept)
    BY <1>1, <1>2, KeptPath
  <1>4. k \in 0 .. n /\ kept = Part(q, k) /\ k \in 0 .. q.size
    <2>1. k \in 0 .. n
      BY <1>2, <1>3 DEF KeepsPath
    <2>2. k \in 0 .. q.size
      <3>1. q.size \in Nat
        BY InstanceTypes
      <3>. QED
        BY <2>1, <3>1
    <2>. QED
      BY <2>1, <2>2, PartList
  <1>5. Runs(q, n, o) = Path(Part(q, n), Marks(q), o) /\ Runs(q, k, o) = Path(Part(q, k), Marks(q), o)
        /\ Runs(q, k, up) = Path(Part(q, k), Marks(q), up)
    BY <1>4, RunsPath
  <1>6. o \in Path(Part(q, n), Marks(q), o)
    BY <1>1 DEF Path
  <1>7. \A x \in Path(Part(q, n), Marks(q), o) \ {o} :
           \E i \in 1 .. k : Marks(q)[Part(q, n)[i]].parent = x /\ Part(q, k)[i] = Part(q, n)[i]
    BY <1>3, <1>4 DEF KeepsPath
  <1>8. DOMAIN Part(q, k) = 1 .. k
    BY <1>4, PartList
  <1>9. Runs(q, n, o) \ {o} \subseteq Runs(q, k, up) /\ Runs(q, n, o) \subseteq Runs(q, k, o)
    <2>1. \A x \in Path(Part(q, n), Marks(q), o) \ {o} :
             x # None /\ \E i \in DOMAIN Part(q, k) : Marks(q)[Part(q, k)[i]].parent = x
      BY <1>7, <1>8 DEF Path
    <2>. QED
      BY <1>5, <2>1 DEF Path
  <1>10. up \in Slot \cup {None} /\ Marks(q)[o].parent = up
    <2>1. Marks(q)[o].parent = up
      BY MarksOf
    <2>. QED
      BY <1>2, <2>1 DEF Typed
  <1>11. Typed(Part(q, k), Marks(q), up)
    BY <1>4, <1>10, PartList
  <1>12. Tree(Part(q, k), Marks(q), up)
    BY <1>1, <1>2, <1>3, <1>4, <1>10, <1>11, TreeLeft
  <1>13. Offset(q, o) < k /\ up # o
    <2>1. /\ FrontOf(Marks(q), up) < k
          /\ FrontOf(Marks(q), up) + 1 \in DOMAIN Part(q, n)
          /\ Part(q, n)[FrontOf(Marks(q), up) + 1] = o
          /\ Marks(q)[o].start <= Marks(q)[o].front
      BY <1>6, <1>10 DEF Tree, Levels
    <2>2. FrontOf(Marks(q), up) \in Nat
      BY <1>10, <1>11 DEF FrontOf, Typed
    <2>3. Part(q, n)[FrontOf(Marks(q), up) + 1] = Ring(q)[FrontOf(Marks(q), up) + 1]
          /\ FrontOf(Marks(q), up) + 1 \in 1 .. q.size
      <3>1. n \in 0 .. q.size /\ q.size \in Nat /\ Len(Ring(q)) = q.size
        BY InstanceTypes, RingList
      <3>2. FrontOf(Marks(q), up) + 1 \in 1 .. n
        BY <1>2, <2>1
      <3>. QED
        BY <3>1, <3>2 DEF Part
    <2>4. Offset(q, o) = (FrontOf(Marks(q), up) + 1) - 1
      BY <2>1, <2>3, RingList
    <2>5. k \in Nat
      BY <1>4
    <2>6. up # o
      BY <1>2, <1>6, <1>10, TipIsInnermost
    <2>. QED
      BY <2>1, <2>2, <2>4, <2>5, <2>6
  <1>. QED
    BY <1>4, <1>9, <1>10, <1>12, <1>13

\* The owners of what is dropped from a stack, or put on it.
LEMMA OwnersDropped ==
    ASSUME NEW S, NEW s \in Seq(S), \A e \in S : e.step \in Slot, NEW n \in Nat
    PROVE  /\ Owners(s) \in Seq(Slot) /\ Owners(Drop(s, n)) = Drop(Owners(s), n)
           /\ \A e \in S : Owners(Append(s, e)) = Append(Owners(s), e.step)
  <1>1. Len(s) \in Nat /\ DOMAIN s = 1 .. Len(s) /\ \A i \in DOMAIN s : s[i] \in S
    OBVIOUS
  <1>2. Owners(s) \in [1 .. Len(s) -> Slot]
    BY <1>1 DEF Owners
  <1>3. /\ Owners(s) \in Seq(Slot) /\ Len(Owners(s)) = Len(s)
        /\ DOMAIN Owners(s) = 1 .. Len(s) /\ \A i \in 1 .. Len(s) : Owners(s)[i] = s[i].step
    BY <1>1, <1>2 DEF Owners
  <1>4. /\ Len(Drop(s, n)) = Len(Drop(Owners(s), n))
        /\ DOMAIN Drop(s, n) = 1 .. Len(Drop(s, n))
        /\ \A i \in 1 .. Len(Drop(s, n)) : Drop(s, n)[i] = s[i]
        /\ Len(Drop(s, n)) \in Nat /\ Len(Drop(s, n)) <= Len(s)
    <2>1. /\ Drop(s, n) \in Seq(S) /\ Len(Drop(s, n)) <= Len(s)
          /\ Len(Drop(s, n)) = IF n <= Len(s) THEN Len(s) - n ELSE 0
          /\ DOMAIN Drop(s, n) = 1 .. Len(Drop(s, n))
          /\ \A i \in 1 .. Len(Drop(s, n)) : Drop(s, n)[i] = s[i]
      BY Dropped
    <2>2. Len(Drop(Owners(s), n)) = IF n <= Len(s) THEN Len(s) - n ELSE 0
      <3>1. Owners(s) \in Seq(Slot) /\ Len(Owners(s)) = Len(s)
        BY <1>3
      <3>2. \A o \in Seq(Slot) : Len(Drop(o, n)) = IF n <= Len(o) THEN Len(o) - n ELSE 0
        BY Dropped
      <3>. QED
        BY <3>1, <3>2
    <2>. QED
      BY <2>1, <2>2
  <1>5. /\ Drop(Owners(s), n) \in Seq(Slot)
        /\ DOMAIN Drop(Owners(s), n) = 1 .. Len(Drop(s, n))
        /\ \A i \in 1 .. Len(Drop(s, n)) : Drop(Owners(s), n)[i] = Owners(s)[i]
    BY <1>3, <1>4, Dropped
  <1>6. Owners(Drop(s, n)) = [i \in 1 .. Len(Drop(s, n)) |-> Drop(s, n)[i].step]
    BY <1>4 DEF Owners
  <1>7. \A i \in 1 .. Len(Drop(s, n)) : Drop(s, n)[i].step = Drop(Owners(s), n)[i]
    <2> SUFFICES ASSUME NEW i \in 1 .. Len(Drop(s, n))
                 PROVE  Drop(s, n)[i].step = Drop(Owners(s), n)[i]
      OBVIOUS
    <2>1. i \in 1 .. Len(s)
      BY <1>1, <1>4
    <2>. QED
      BY <1>3, <1>4, <1>5, <2>1
  <1>8. Owners(Drop(s, n)) = Drop(Owners(s), n)
    <2>1. Drop(Owners(s), n) = [i \in 1 .. Len(Drop(s, n)) |-> Drop(Owners(s), n)[i]]
      BY <1>5
    <2>. QED
      BY <1>6, <1>7, <2>1
  <1>9. ASSUME NEW e \in S
        PROVE  Owners(Append(s, e)) = Append(Owners(s), e.step)
    <2>1. /\ DOMAIN Append(s, e) = 1 .. Len(s) + 1 /\ Append(s, e)[Len(s) + 1] = e
          /\ \A i \in 1 .. Len(s) : Append(s, e)[i] = s[i]
      BY <1>1
    <2>2. Owners(Append(s, e)) = [i \in 1 .. Len(s) + 1 |-> Append(s, e)[i].step]
      BY <2>1 DEF Owners
    <2>3. Append(Owners(s), e.step) = [i \in 1 .. Len(s) + 1 |-> IF i = Len(s) + 1 THEN e.step ELSE Owners(s)[i]]
      BY <1>3
    <2>4. \A i \in 1 .. Len(s) + 1 :
             Append(s, e)[i].step = IF i = Len(s) + 1 THEN e.step ELSE Owners(s)[i]
      <3> SUFFICES ASSUME NEW i \in 1 .. Len(s) + 1
                   PROVE  Append(s, e)[i].step = IF i = Len(s) + 1 THEN e.step ELSE Owners(s)[i]
        OBVIOUS
      <3>1. CASE i = Len(s) + 1
        BY <2>1, <3>1
      <3>2. CASE i # Len(s) + 1
        <4>1. i \in 1 .. Len(s)
          BY <1>1, <3>2
        <4>. QED
          BY <1>3, <2>1, <3>2, <4>1
      <3>. QED
        BY <3>1, <3>2
    <2>. QED
      BY <2>2, <2>3, <2>4
  <1>. QED
    BY <1>3, <1>8, <1>9

\* How the slots are ordered and what they count.
LEMMA CountsTyped ==
    ASSUME NEW q \in Instance
    PROVE  /\ OffsetsOf(q) \in [Slot -> Int]
           /\ \A s \in Slot : /\ OffsetsOf(q)[s] = Offset(q, s)
                              /\ TimeoutsOf(q)[s] = IF q.queue[s].timeout THEN 1 ELSE 0
                              /\ CancelsOf(q)[s] = IF q.queue[s].cancel THEN 1 ELSE 0
                              /\ AllocsOf(q)[s] = q.queue[s].allocs
                              /\ q.queue[s].allocs \in Nat
                              /\ q.queue[s].timeout \in BOOLEAN /\ q.queue[s].cancel \in BOOLEAN
           /\ \A e \in [step : Slot, timer : Timer] : e.step \in Slot
           /\ \A e \in [step : Slot, unlock : BOOLEAN] : e.step \in Slot
  <1>1. MaxSteps \in Nat
    BY NitroAssumption
  <1>2. \A s \in Slot : Offset(q, s) \in Int
    <2> SUFFICES ASSUME NEW s \in Slot PROVE Offset(q, s) \in Int
      OBVIOUS
    <2>1. Offset(q, s) \in 0 .. MaxSteps - 1
      BY SlotInRing
    <2>. QED
      BY <1>1, <2>1
  <1>3. \A s \in Slot : q.queue[s] \in StepData
    BY MarksOf
  <1>4. \A s \in Slot : /\ q.queue[s].allocs \in Nat
                        /\ q.queue[s].timeout \in BOOLEAN /\ q.queue[s].cancel \in BOOLEAN
    BY <1>3 DEF StepData
  <1>. QED
    BY <1>2, <1>4 DEF OffsetsOf, TimeoutsOf, CancelsOf, AllocsOf

\* The last owner: what may be popped for it, or pushed, is on top.
LastOwner(q, t) == \A s \in Slot \ {t} : Owner(q, s) => Offset(q, s) < Offset(q, t)

\* Its timer is popped,
LEMMA TimerReleased ==
    ASSUME NEW q \in Instance, NEW r \in Instance, NEW t \in Slot, Stacks(q),
           LastOwner(q, t), OffsetsOf(r) = OffsetsOf(q),
           \A x \in Slot : r.queue[x].timeout = (q.queue[x].timeout /\ x # t),
           r.timeouts = Drop(q.timeouts, IF q.queue[t].timeout THEN 1 ELSE 0),
           r.armed = IF q.queue[t].timeout THEN q.armed \ {Top(q.timeouts).timer} ELSE q.armed
    PROVE  /\ Kept(Owners(r.timeouts), TimeoutsOf(r), OffsetsOf(r))
           /\ \A a \in r.armed : \E i \in DOMAIN r.timeouts : r.timeouts[i].timer = a
  <1> DEFINE n == IF q.queue[t].timeout THEN 1 ELSE 0
  <1>1. n \in Nat /\ TimeoutsOf(q)[t] = n
    BY CountsTyped
  <1>2. \A s \in Slot : TimeoutsOf(r)[s] = IF s = t THEN 0 ELSE TimeoutsOf(q)[s]
    BY CountsTyped
  <1>3. \A s \in Slot \ {t} : TimeoutsOf(q)[s] # 0 => OffsetsOf(q)[s] < OffsetsOf(q)[t]
    BY CountsTyped DEF LastOwner, Owner
  <1>4. OffsetsOf(q) \in [Slot -> Int]
    BY CountsTyped
  <1>5. Kept(Owners(q.timeouts), TimeoutsOf(q), OffsetsOf(q))
    BY DEF Stacks
  <1>6. Kept(Drop(Owners(q.timeouts), n), TimeoutsOf(r), OffsetsOf(q))
    <2>. HIDE DEF n
    <2>. QED
      BY <1>1, <1>2, <1>3, <1>4, <1>5, Popped
  <1>7. q.timeouts \in Seq([step : Slot, timer : Timer])
    BY InstanceTypes
  <1>8. Owners(r.timeouts) = Drop(Owners(q.timeouts), n)
    <2>1. r.timeouts = Drop(q.timeouts, n)
      OBVIOUS
    <2>2. \A e \in [step : Slot, timer : Timer] : e.step \in Slot
      OBVIOUS
    <2>. HIDE DEF n
    <2>. QED
      BY <1>1, <1>7, <2>1, <2>2, OwnersDropped
  <1>9. Kept(Owners(r.timeouts), TimeoutsOf(r), OffsetsOf(r))
    BY <1>6, <1>8
  <1>10. ASSUME NEW a \in r.armed
         PROVE  \E i \in DOMAIN r.timeouts : r.timeouts[i].timer = a
    <2>1. PICK i \in DOMAIN q.timeouts : q.timeouts[i].timer = a
      BY DEF Stacks
    <2>2. Len(q.timeouts) \in Nat /\ DOMAIN q.timeouts = 1 .. Len(q.timeouts)
      BY <1>7
    <2>3. CASE ~q.queue[t].timeout
      <3>1. r.timeouts = q.timeouts
        BY <1>7, <2>3, Dropped
      <3>. QED
        BY <2>1, <3>1
    <2>4. CASE q.queue[t].timeout
      <3>1. i # Len(q.timeouts)
        BY <2>1, <2>4 DEF Top
      <3>2. Len(r.timeouts) = Len(q.timeouts) - 1 /\ DOMAIN r.timeouts = 1 .. Len(r.timeouts)
            /\ \A j \in 1 .. Len(r.timeouts) : r.timeouts[j] = q.timeouts[j]
        <4>1. r.timeouts = Drop(q.timeouts, 1) /\ 1 <= Len(q.timeouts) /\ 1 \in Nat
          BY <2>1, <2>2, <2>4
        <4>. QED
          BY <1>7, <4>1, Dropped
      <3>3. i \in 1 .. Len(r.timeouts)
        BY <2>1, <2>2, <3>1, <3>2
      <3>. QED
        BY <2>1, <3>2, <3>3
    <2>. QED
      BY <2>3, <2>4
  <1>. QED
    BY <1>9, <1>10

\* and its on_cancel handler,
LEMMA CancelReleased ==
    ASSUME NEW q \in Instance, NEW r \in Instance, NEW t \in Slot, Stacks(q),
           LastOwner(q, t), OffsetsOf(r) = OffsetsOf(q),
           \A x \in Slot : r.queue[x].cancel = (q.queue[x].cancel /\ x # t),
           r.cancels = Drop(q.cancels, IF q.queue[t].cancel THEN 1 ELSE 0)
    PROVE  Kept(Owners(r.cancels), CancelsOf(r), OffsetsOf(r))
  <1> DEFINE n == IF q.queue[t].cancel THEN 1 ELSE 0
  <1>1. n \in Nat /\ CancelsOf(q)[t] = n
    BY CountsTyped
  <1>2. \A s \in Slot : CancelsOf(r)[s] = IF s = t THEN 0 ELSE CancelsOf(q)[s]
    BY CountsTyped
  <1>3. \A s \in Slot \ {t} : CancelsOf(q)[s] # 0 => OffsetsOf(q)[s] < OffsetsOf(q)[t]
    BY CountsTyped DEF LastOwner, Owner
  <1>4. OffsetsOf(q) \in [Slot -> Int]
    BY CountsTyped
  <1>5. Kept(Owners(q.cancels), CancelsOf(q), OffsetsOf(q))
    BY DEF Stacks
  <1>6. Kept(Drop(Owners(q.cancels), n), CancelsOf(r), OffsetsOf(q))
    <2>. HIDE DEF n
    <2>. QED
      BY <1>1, <1>2, <1>3, <1>4, <1>5, Popped
  <1>7. q.cancels \in Seq([step : Slot, unlock : BOOLEAN])
    BY InstanceTypes
  <1>8. Owners(r.cancels) = Drop(Owners(q.cancels), n)
    <2>1. r.cancels = Drop(q.cancels, n)
      OBVIOUS
    <2>2. \A e \in [step : Slot, unlock : BOOLEAN] : e.step \in Slot
      OBVIOUS
    <2>. HIDE DEF n
    <2>. QED
      BY <1>1, <1>7, <2>1, <2>2, OwnersDropped
  <1>. QED
    BY <1>6, <1>8

\* and its objects.
LEMMA AllocsReleased ==
    ASSUME NEW q \in Instance, NEW r \in Instance, NEW t \in Slot, Stacks(q),
           LastOwner(q, t), OffsetsOf(r) = OffsetsOf(q),
           \A x \in Slot : r.queue[x].allocs = IF x = t THEN 0 ELSE q.queue[x].allocs,
           r.allocs = Drop(q.allocs, q.queue[t].allocs)
    PROVE  Kept(r.allocs, AllocsOf(r), OffsetsOf(r))
  <1>1. AllocsOf(q)[t] = q.queue[t].allocs
    BY CountsTyped
  <1>2. \A s \in Slot : AllocsOf(r)[s] = IF s = t THEN 0 ELSE AllocsOf(q)[s]
    BY CountsTyped
  <1>3. \A s \in Slot \ {t} : AllocsOf(q)[s] # 0 => OffsetsOf(q)[s] < OffsetsOf(q)[t]
    BY CountsTyped DEF LastOwner, Owner
  <1>4. OffsetsOf(q) \in [Slot -> Int]
    BY CountsTyped
  <1>5. Kept(q.allocs, AllocsOf(q), OffsetsOf(q))
    BY DEF Stacks
  <1>6. Kept(Drop(q.allocs, AllocsOf(q)[t]), AllocsOf(r), OffsetsOf(q))
    BY <1>2, <1>3, <1>4, <1>5, Popped
  <1>. QED
    BY <1>1, <1>6

\* Offsets are a matter of where the ring begins.
LEMMA SameOffsets ==
    ASSUME NEW q \in Instance, NEW r \in Instance, r.begin = q.begin
    PROVE  OffsetsOf(r) = OffsetsOf(q) /\ \A s \in Slot : Offset(r, s) = Offset(q, s)
  BY DEF OffsetsOf, Offset

\* Extended states stay apart when no step gets or loses one.
LEMMA ApartStays ==
    ASSUME NEW q, NEW r, ExtendedApart(q), r.used = q.used, r.lost = q.lost,
           \A s \in Slot : /\ r.queue[s].extended <=> q.queue[s].extended
                           /\ q.queue[s].extended => /\ r.queue[s].ext = q.queue[s].ext
                                                     /\ InQueue(q, s) => InQueue(r, s)
    PROVE  ExtendedApart(r)
  BY DEF ExtendedApart

\* The same where the ring is the same.
LEMMA SamePlaces ==
    ASSUME NEW q, NEW r, r.begin = q.begin, r.size = q.size
    PROVE  \A s : InQueue(r, s) <=> InQueue(q, s)
  BY DEF InQueue

\* free_step() releases what is the step's own.
LEMMA FreedWhole ==
    ASSUME NEW q \in Instance, Whole(q), NEW t \in Slot, LastOwner(q, t),
           NEW r, Freed(q, r, t)
    PROVE  Whole(r) /\ \A s \in Slot : Owner(r, s) <=> Owner(q, s) /\ s # t
  <1>1. r \in Instance /\ OffsetsOf(r) = OffsetsOf(q)
    BY SameOffsets DEF Freed, SameMembers
  <1>2. Stacks(q) /\ ExtendedApart(q)
    BY DEF Whole
  <1>3. /\ Kept(Owners(r.timeouts), TimeoutsOf(r), OffsetsOf(r))
        /\ \A a \in r.armed : \E i \in DOMAIN r.timeouts : r.timeouts[i].timer = a
    <2>1. /\ \A x \in Slot : r.queue[x].timeout = (q.queue[x].timeout /\ x # t)
          /\ r.timeouts = Drop(q.timeouts, IF q.queue[t].timeout THEN 1 ELSE 0)
          /\ r.armed = IF q.queue[t].timeout THEN q.armed \ {Top(q.timeouts).timer} ELSE q.armed
      BY DEF Freed
    <2>. QED
      BY <1>1, <1>2, <2>1, TimerReleased
  <1>4. Kept(Owners(r.cancels), CancelsOf(r), OffsetsOf(r))
    <2>1. /\ \A x \in Slot : r.queue[x].cancel = (q.queue[x].cancel /\ x # t)
          /\ r.cancels = Drop(q.cancels, IF q.queue[t].cancel THEN 1 ELSE 0)
      BY DEF Freed
    <2>. QED
      BY <1>1, <1>2, <2>1, CancelReleased
  <1>5. Kept(r.allocs, AllocsOf(r), OffsetsOf(r))
    <2>1. /\ \A x \in Slot : r.queue[x].allocs = IF x = t THEN 0 ELSE q.queue[x].allocs
          /\ r.allocs = Drop(q.allocs, q.queue[t].allocs)
      BY DEF Freed
    <2>. QED
      BY <1>1, <1>2, <2>1, AllocsReleased
  <1>6. ExtendedApart(r)
    <2>1. \A s \in Slot : r.queue[s].extended <=> q.queue[s].extended /\ s # t
      BY DEF Freed
    <2>2. \A s \in Slot : r.queue[s].ext = q.queue[s].ext
      BY DEF Freed, SameSteps
    <2>3. /\ r.used = q.used \ (IF q.queue[t].extended THEN {q.queue[t].ext} ELSE {})
          /\ r.lost = q.lost /\ r.begin = q.begin /\ r.size = q.size
      BY DEF Freed, SameMembers
    <2>4. \A s \in Slot : q.queue[s].extended /\ q.queue[t].extended /\ s # t
                          => q.queue[t].ext # q.queue[s].ext
      BY <1>2 DEF ExtendedApart
    <2>5. \A s \in Slot : r.queue[s].extended =>
             /\ InQueue(r, s) /\ r.queue[s].ext \in r.used \ r.lost
             /\ \A x \in Slot : r.queue[x].extended /\ r.queue[x].ext = r.queue[s].ext => x = s
      BY <1>2, <2>1, <2>2, <2>3, <2>4, SamePlaces DEF ExtendedApart
    <2>6. \A e \in r.used \ r.lost : \E s \in Slot : r.queue[s].extended /\ r.queue[s].ext = e
      BY <1>2, <2>1, <2>2, <2>3 DEF ExtendedApart
    <2>7. r.lost \subseteq r.used
      BY <1>2, <2>3 DEF ExtendedApart
    <2>. QED
      BY <2>5, <2>6, <2>7 DEF ExtendedApart
  <1>7. \A s \in Slot : Owner(r, s) <=> Owner(q, s) /\ s # t
    <2> SUFFICES ASSUME NEW s \in Slot PROVE Owner(r, s) <=> Owner(q, s) /\ s # t
      OBVIOUS
    <2>1. /\ r.queue[s].timeout = (q.queue[s].timeout /\ s # t)
          /\ r.queue[s].cancel = (q.queue[s].cancel /\ s # t)
          /\ r.queue[s].allocs = IF s = t THEN 0 ELSE q.queue[s].allocs
          /\ r.queue[s].extended = (q.queue[s].extended /\ s # t)
          /\ r.queue[s].ran = q.queue[s].ran
      BY DEF Freed, SameSteps
    <2>. QED
      BY <2>1 DEF Owner, Claims
  <1>. QED
    BY <1>3, <1>4, <1>5, <1>6, <1>7 DEF Whole, Stacks

\* What handle_error_unwind() uses up of a level is its own, too.
LEMMA UsedUpWhole ==
    ASSUME NEW q \in Instance, Whole(q), NEW t \in Slot, LastOwner(q, t),
           NEW r, NEW start, UsedUp(q, r, t, start)
    PROVE  Whole(r) /\ \A s \in Slot : Owner(r, s) => Owner(q, s)
  <1>1. r \in Instance /\ OffsetsOf(r) = OffsetsOf(q)
    BY SameOffsets DEF UsedUp, SameMembers
  <1>2. Stacks(q) /\ ExtendedApart(q)
    BY DEF Whole
  <1>3. /\ Kept(Owners(r.timeouts), TimeoutsOf(r), OffsetsOf(r))
        /\ \A a \in r.armed : \E i \in DOMAIN r.timeouts : r.timeouts[i].timer = a
    <2>1. /\ \A x \in Slot : r.queue[x].timeout = (q.queue[x].timeout /\ x # t)
          /\ r.timeouts = Drop(q.timeouts, IF q.queue[t].timeout THEN 1 ELSE 0)
          /\ r.armed = IF q.queue[t].timeout THEN q.armed \ {Top(q.timeouts).timer} ELSE q.armed
      BY DEF UsedUp
    <2>. QED
      BY <1>1, <1>2, <2>1, TimerReleased
  <1>4. Kept(Owners(r.cancels), CancelsOf(r), OffsetsOf(r))
    <2>1. /\ \A x \in Slot : r.queue[x].cancel = (q.queue[x].cancel /\ x # t)
          /\ r.cancels = Drop(q.cancels, IF q.queue[t].cancel THEN 1 ELSE 0)
      BY DEF UsedUp
    <2>. QED
      BY <1>1, <1>2, <2>1, CancelReleased
  <1>5. Kept(r.allocs, AllocsOf(r), OffsetsOf(r))
    <2>1. r.allocs = q.allocs /\ \A x \in Slot : r.queue[x].allocs = q.queue[x].allocs
      BY DEF UsedUp
    <2>2. AllocsOf(r) = AllocsOf(q)
      BY <2>1 DEF AllocsOf
    <2>. QED
      BY <1>1, <1>2, <2>1, <2>2 DEF Stacks
  <1>6. ExtendedApart(r)
    <2>1. \A s \in Slot : r.queue[s].extended = q.queue[s].extended
                          /\ r.queue[s].ext = q.queue[s].ext
      BY DEF UsedUp
    <2>2. r.used = q.used /\ r.lost = q.lost /\ r.begin = q.begin /\ r.size = q.size
      BY DEF UsedUp, SameMembers
    <2>. QED
      BY <1>2, <2>1, <2>2, SamePlaces, ApartStays
  <1>7. \A s \in Slot : Owner(r, s) => Owner(q, s)
    <2>1. \A s \in Slot : /\ r.queue[s].timeout => q.queue[s].timeout
                          /\ r.queue[s].cancel => q.queue[s].cancel
                          /\ r.queue[s].allocs = q.queue[s].allocs
                          /\ r.queue[s].extended = q.queue[s].extended
                          /\ r.queue[s].ran = q.queue[s].ran
      BY DEF UsedUp
    <2>. QED
      BY <2>1 DEF Owner, Claims
  <1>. QED
    BY <1>3, <1>4, <1>5, <1>6, <1>7 DEF Whole, Stacks

\* With the same stacks and flags nothing changes owners.
SameOwners(q, r) ==
    /\ r.begin = q.begin /\ r.timeouts = q.timeouts /\ r.cancels = q.cancels
    /\ r.allocs = q.allocs /\ r.armed \subseteq q.armed
    /\ \A x \in Slot : /\ r.queue[x].timeout = q.queue[x].timeout
                       /\ r.queue[x].cancel = q.queue[x].cancel
                       /\ r.queue[x].allocs = q.queue[x].allocs

\* The claims of all steps are those of before.
SameClaims(q, r) == \A x \in Slot : Claims(r.queue[x]) <=> Claims(q.queue[x])

LEMMA StacksStay ==
    ASSUME NEW q \in Instance, NEW r \in Instance, Stacks(q), SameOwners(q, r)
    PROVE  /\ Stacks(r)
           /\ SameClaims(q, r) => \A s \in Slot : Owner(r, s) <=> Owner(q, s)
  <1>1. OffsetsOf(r) = OffsetsOf(q)
    BY SameOffsets DEF SameOwners
  <1>2. TimeoutsOf(r) = TimeoutsOf(q) /\ CancelsOf(r) = CancelsOf(q) /\ AllocsOf(r) = AllocsOf(q)
    BY DEF SameOwners, TimeoutsOf, CancelsOf, AllocsOf
  <1>3. r.timeouts = q.timeouts /\ r.cancels = q.cancels /\ r.allocs = q.allocs
        /\ r.armed \subseteq q.armed
    BY DEF SameOwners
  <1>4. Stacks(r)
    BY <1>1, <1>2, <1>3 DEF Stacks
  <1>5. SameClaims(q, r) => \A s \in Slot : Owner(r, s) <=> Owner(q, s)
    BY DEF SameOwners, SameClaims, Owner
  <1>. QED
    BY <1>4, <1>5

\* The owner of what is put on a stack.
LEMMA OwnersPushed ==
    ASSUME NEW t \in Slot
    PROVE  /\ \A s \in Seq([step : Slot, unlock : BOOLEAN]), u \in BOOLEAN :
                 Owners(Append(s, [step |-> t, unlock |-> u])) = Append(Owners(s), t)
           /\ \A s \in Seq([step : Slot, timer : Timer]), u \in Timer :
                 Owners(Append(s, [step |-> t, timer |-> u])) = Append(Owners(s), t)
  <1>1. ASSUME NEW s \in Seq([step : Slot, unlock : BOOLEAN]), NEW u \in BOOLEAN
        PROVE  Owners(Append(s, [step |-> t, unlock |-> u])) = Append(Owners(s), t)
    <2> DEFINE S == [step : Slot, unlock : BOOLEAN]
               e == [step |-> t, unlock |-> u]
    <2>1. s \in Seq(S) /\ (\A x \in S : x.step \in Slot) /\ e \in S /\ e.step = t /\ 0 \in Nat
      OBVIOUS
    <2>. HIDE DEF S, e
    <2>2. \A x \in S : Owners(Append(s, x)) = Append(Owners(s), x.step)
      BY <2>1, OwnersDropped
    <2>3. Owners(Append(s, e)) = Append(Owners(s), t)
      BY <2>1, <2>2
    <2>. QED
      BY <2>3 DEF e
  <1>2. ASSUME NEW s \in Seq([step : Slot, timer : Timer]), NEW u \in Timer
        PROVE  Owners(Append(s, [step |-> t, timer |-> u])) = Append(Owners(s), t)
    <2> DEFINE S == [step : Slot, timer : Timer]
               e == [step |-> t, timer |-> u]
    <2>1. s \in Seq(S) /\ (\A x \in S : x.step \in Slot) /\ e \in S /\ e.step = t /\ 0 \in Nat
      OBVIOUS
    <2>. HIDE DEF S, e
    <2>2. \A x \in S : Owners(Append(s, x)) = Append(Owners(s), x.step)
      BY <2>1, OwnersDropped
    <2>3. Owners(Append(s, e)) = Append(Owners(s), t)
      BY <2>1, <2>2
    <2>. QED
      BY <2>3 DEF e
  <1>. QED
    BY <1>1, <1>2

\* The slot of the step t is changed and so are the stacks: what is pushed for
\* it is on top, and what is popped is its own.
LEMMA TweakedApart ==
    ASSUME NEW q \in Instance, ExtendedApart(q), NEW t \in Slot, NEW r, NEW step,
           NEW timeouts, NEW armed, NEW cancels, NEW allocs,
           TweakedOnly(q, r, t, step, timeouts, armed, cancels, allocs),
           step.extended = q.queue[t].extended, step.ext = q.queue[t].ext
    PROVE  ExtendedApart(r) /\ OffsetsOf(r) = OffsetsOf(q) /\ r \in Instance
  <1>1. r \in Instance /\ r.begin = q.begin /\ r.size = q.size
        /\ r.used = q.used /\ r.lost = q.lost
    BY DEF TweakedOnly, SameMembers
  <1>2. \A x \in Slot : r.queue[x].extended = q.queue[x].extended
                        /\ r.queue[x].ext = q.queue[x].ext
    BY DEF TweakedOnly
  <1>3. ExtendedApart(r)
    BY <1>1, <1>2, SamePlaces, ApartStays
  <1>. QED
    BY <1>1, <1>3, SameOffsets

\* A change that is no matter of resources.
LEMMA PlainTweaked ==
    ASSUME NEW q \in Instance, Whole(q), NEW t \in Slot, NEW r, NEW step,
           TweakedOnly(q, r, t, step, q.timeouts, q.armed, q.cancels, q.allocs),
           step.extended = q.queue[t].extended, step.ext = q.queue[t].ext,
           step.timeout = q.queue[t].timeout, step.cancel = q.queue[t].cancel,
           step.allocs = q.queue[t].allocs, step.ran = q.queue[t].ran
    PROVE  Whole(r) /\ \A s \in Slot : Owner(r, s) <=> Owner(q, s)
  <1>1. ExtendedApart(r) /\ r \in Instance
    BY TweakedApart DEF Whole
  <1>2. SameOwners(q, r) /\ SameClaims(q, r)
    BY DEF TweakedOnly, SameMembers, SameOwners, SameClaims, Claims
  <1>. QED
    BY <1>1, <1>2, StacksStay DEF Whole

\* setCancel()
LEMMA CancelPushed ==
    ASSUME NEW q \in Instance, Whole(q), NEW t \in Slot, LastOwner(q, t),
           ~q.queue[t].cancel, NEW r, NEW step, NEW unlock \in BOOLEAN,
           TweakedOnly(q, r, t, step, q.timeouts, q.armed,
                       Append(q.cancels, [step |-> t, unlock |-> unlock]), q.allocs),
           step.extended = q.queue[t].extended, step.ext = q.queue[t].ext,
           step.timeout = q.queue[t].timeout, step.cancel,
           step.allocs = q.queue[t].allocs
    PROVE  Whole(r) /\ \A s \in Slot : Owner(r, s) => Owner(q, s) \/ s = t
  <1>1. ExtendedApart(r) /\ r \in Instance /\ OffsetsOf(r) = OffsetsOf(q)
    BY TweakedApart DEF Whole
  <1>2. /\ r.queue[t] = step /\ \A x \in Slot \ {t} : r.queue[x] = q.queue[x]
        /\ r.timeouts = q.timeouts /\ r.armed = q.armed /\ r.allocs = q.allocs
        /\ r.cancels = Append(q.cancels, [step |-> t, unlock |-> unlock])
    BY DEF TweakedOnly
  <1>3. Stacks(q)
    BY DEF Whole
  <1>4. TimeoutsOf(r) = TimeoutsOf(q) /\ AllocsOf(r) = AllocsOf(q)
    BY <1>2 DEF TimeoutsOf, AllocsOf
  <1>5. \A s \in Slot : CancelsOf(r)[s] = IF s = t THEN CancelsOf(q)[s] + 1 ELSE CancelsOf(q)[s]
    <2>1. CancelsOf(q)[t] = 0 /\ CancelsOf(r)[t] = 1
      BY <1>2 DEF CancelsOf
    <2>2. \A s \in Slot \ {t} : CancelsOf(r)[s] = CancelsOf(q)[s]
      BY <1>2 DEF CancelsOf
    <2>. QED
      BY <2>1, <2>2
  <1>6. \A s \in Slot \ {t} : CancelsOf(q)[s] # 0 => OffsetsOf(q)[s] < OffsetsOf(q)[t]
    BY CountsTyped DEF LastOwner, Owner
  <1>7. OffsetsOf(q) \in [Slot -> Int]
    BY CountsTyped
  <1>8. Kept(Append(Owners(q.cancels), t), CancelsOf(r), OffsetsOf(q))
    BY <1>3, <1>5, <1>6, <1>7, Pushed DEF Stacks
  <1>9. Owners(r.cancels) = Append(Owners(q.cancels), t)
    <2>1. q.cancels \in Seq([step : Slot, unlock : BOOLEAN])
      BY InstanceTypes
    <2>. QED
      BY <1>2, <2>1, OwnersPushed
  <1>10. Stacks(r)
    BY <1>1, <1>2, <1>3, <1>4, <1>8, <1>9, ZenonT(60) DEF Stacks
  <1>11. \A s \in Slot : Owner(r, s) => Owner(q, s) \/ s = t
    BY <1>2 DEF Owner
  <1>. QED
    BY <1>1, <1>10, <1>11 DEF Whole

\* setTimeout()
LEMMA TimerPushed ==
    ASSUME NEW q \in Instance, Whole(q), NEW t \in Slot, LastOwner(q, t),
           ~q.queue[t].timeout, NEW r, NEW step, NEW timer \in Timer,
           TweakedOnly(q, r, t, step, Append(q.timeouts, [step |-> t, timer |-> timer]),
                       q.armed \cup {timer}, q.cancels, q.allocs),
           step.extended = q.queue[t].extended, step.ext = q.queue[t].ext,
           step.timeout, step.cancel = q.queue[t].cancel,
           step.allocs = q.queue[t].allocs
    PROVE  Whole(r) /\ \A s \in Slot : Owner(r, s) => Owner(q, s) \/ s = t
  <1>1. ExtendedApart(r) /\ r \in Instance /\ OffsetsOf(r) = OffsetsOf(q)
    BY TweakedApart DEF Whole
  <1>2. /\ r.queue[t] = step /\ \A x \in Slot \ {t} : r.queue[x] = q.queue[x]
        /\ r.timeouts = Append(q.timeouts, [step |-> t, timer |-> timer])
        /\ r.armed = q.armed \cup {timer} /\ r.allocs = q.allocs /\ r.cancels = q.cancels
    BY DEF TweakedOnly
  <1>3. Stacks(q)
    BY DEF Whole
  <1>4. CancelsOf(r) = CancelsOf(q) /\ AllocsOf(r) = AllocsOf(q)
    BY <1>2 DEF CancelsOf, AllocsOf
  <1>5. \A s \in Slot : TimeoutsOf(r)[s] = IF s = t THEN TimeoutsOf(q)[s] + 1 ELSE TimeoutsOf(q)[s]
    <2>1. TimeoutsOf(q)[t] = 0 /\ TimeoutsOf(r)[t] = 1
      BY <1>2 DEF TimeoutsOf
    <2>2. \A s \in Slot \ {t} : TimeoutsOf(r)[s] = TimeoutsOf(q)[s]
      BY <1>2 DEF TimeoutsOf
    <2>. QED
      BY <2>1, <2>2
  <1>6. \A s \in Slot \ {t} : TimeoutsOf(q)[s] # 0 => OffsetsOf(q)[s] < OffsetsOf(q)[t]
    BY CountsTyped DEF LastOwner, Owner
  <1>7. OffsetsOf(q) \in [Slot -> Int]
    BY CountsTyped
  <1>8. Kept(Append(Owners(q.timeouts), t), TimeoutsOf(r), OffsetsOf(q))
    BY <1>3, <1>5, <1>6, <1>7, Pushed DEF Stacks
  <1>9. q.timeouts \in Seq([step : Slot, timer : Timer])
        /\ [step |-> t, timer |-> timer] \in [step : Slot, timer : Timer]
    BY InstanceTypes
  <1>10. Owners(r.timeouts) = Append(Owners(q.timeouts), t)
    <2>1. q.timeouts \in Seq([step : Slot, timer : Timer])
      BY <1>9
    <2>. QED
      BY <1>2, <2>1, OwnersPushed, ZenonT(60)
  <1>11. \A a \in r.armed : \E i \in DOMAIN r.timeouts : r.timeouts[i].timer = a
    <2>1. /\ DOMAIN r.timeouts = 1 .. Len(q.timeouts) + 1 /\ Len(q.timeouts) \in Nat
          /\ DOMAIN q.timeouts = 1 .. Len(q.timeouts)
          /\ r.timeouts[Len(q.timeouts) + 1].timer = timer
          /\ \A i \in DOMAIN q.timeouts : r.timeouts[i] = q.timeouts[i]
      BY <1>2, <1>9
    <2>2. \A i \in DOMAIN q.timeouts : i \in DOMAIN r.timeouts
      BY <2>1
    <2>3. Len(q.timeouts) + 1 \in DOMAIN r.timeouts
      BY <2>1
    <2>. QED
      BY <1>2, <1>3, <2>1, <2>2, <2>3 DEF Stacks
  <1>12. Stacks(r)
    BY <1>1, <1>2, <1>3, <1>4, <1>8, <1>10, <1>11 DEF Stacks
  <1>13. \A s \in Slot : Owner(r, s) => Owner(q, s) \/ s = t
    BY <1>2 DEF Owner
  <1>. QED
    BY <1>1, <1>12, <1>13 DEF Whole

\* stack(), and what a loop frees before its next iteration
LEMMA AllocsTweaked ==
    ASSUME NEW q \in Instance, Whole(q), NEW t \in Slot, LastOwner(q, t),
           NEW r, NEW step, NEW allocs,
           TweakedOnly(q, r, t, step, q.timeouts, q.armed, q.cancels, allocs),
           \/ allocs = Append(q.allocs, t) /\ step.allocs = q.queue[t].allocs + 1
           \/ allocs = Drop(q.allocs, q.queue[t].allocs) /\ step.allocs = 0,
           step.extended = q.queue[t].extended, step.ext = q.queue[t].ext,
           step.timeout = q.queue[t].timeout, step.cancel = q.queue[t].cancel
    PROVE  Whole(r) /\ \A s \in Slot : Owner(r, s) => Owner(q, s) \/ s = t
  <1>1. ExtendedApart(r) /\ r \in Instance /\ OffsetsOf(r) = OffsetsOf(q)
    BY TweakedApart DEF Whole
  <1>2. /\ r.queue[t] = step /\ \A x \in Slot \ {t} : r.queue[x] = q.queue[x]
        /\ r.timeouts = q.timeouts /\ r.armed = q.armed /\ r.allocs = allocs
        /\ r.cancels = q.cancels
    BY DEF TweakedOnly
  <1>3. Stacks(q)
    BY DEF Whole
  <1>4. TimeoutsOf(r) = TimeoutsOf(q) /\ CancelsOf(r) = CancelsOf(q)
    BY <1>2 DEF TimeoutsOf, CancelsOf
  <1>5. /\ AllocsOf(r)[t] = step.allocs /\ AllocsOf(q)[t] = q.queue[t].allocs
        /\ \A s \in Slot \ {t} : AllocsOf(r)[s] = AllocsOf(q)[s]
    BY <1>2 DEF AllocsOf
  <1>6. \A s \in Slot \ {t} : AllocsOf(q)[s] # 0 => OffsetsOf(q)[s] < OffsetsOf(q)[t]
    BY CountsTyped DEF LastOwner, Owner
  <1>7. OffsetsOf(q) \in [Slot -> Int]
    BY CountsTyped
  <1>8. Kept(q.allocs, AllocsOf(q), OffsetsOf(q))
    BY <1>3 DEF Stacks
  <1>9. CASE allocs = Append(q.allocs, t) /\ step.allocs = q.queue[t].allocs + 1
    <2>1. \A s \in Slot : AllocsOf(r)[s] = IF s = t THEN AllocsOf(q)[s] + 1 ELSE AllocsOf(q)[s]
      BY <1>5, <1>9
    <2>. QED
      <3>1. Kept(Append(q.allocs, t), AllocsOf(r), OffsetsOf(q))
        BY <1>6, <1>7, <1>8, <2>1, Pushed
      <3>2. Stacks(r)
        BY <1>1, <1>2, <1>3, <1>4, <1>9, <3>1 DEF Stacks
      <3>3. \A s \in Slot : Owner(r, s) => Owner(q, s) \/ s = t
        BY <1>2 DEF Owner
      <3>. QED
        BY <1>1, <3>2, <3>3 DEF Whole
  <1>10. CASE allocs = Drop(q.allocs, q.queue[t].allocs) /\ step.allocs = 0
    <2>1. \A s \in Slot : AllocsOf(r)[s] = IF s = t THEN 0 ELSE AllocsOf(q)[s]
      BY <1>5, <1>10
    <2>. QED
      <3>1. Kept(Drop(q.allocs, AllocsOf(q)[t]), AllocsOf(r), OffsetsOf(q))
        BY <1>6, <1>7, <1>8, <2>1, Popped
      <3>2. Stacks(r)
        BY <1>1, <1>2, <1>3, <1>4, <1>5, <1>10, <3>1 DEF Stacks
      <3>3. \A s \in Slot : Owner(r, s) => Owner(q, s) \/ s = t
        BY <1>2 DEF Owner
      <3>. QED
        BY <1>1, <3>2, <3>3 DEF Whole
  <1>. QED
    BY <1>9, <1>10

----------------------------------------------------------------------------
(* Who owns what, while the engine walks                                    *)

\* In a handler, and where an error is: the running steps own the entries.
Innermost(q) == Whole(q) /\ OwnersIn(q, q.size, q.last)

\* Between two handlers a loop that goes on is the next step, and owns entries.
Between(q) == Whole(q) /\ OwnersOrNext(q, q.last)

\* On the way up from a step that has ended.
Leaving(q, c) == Whole(q) /\ OwnersOrNext(q, c)

\* cancel() leaves the sub-steps of the levels it has been at in the ring.
Canceling(q) ==
    /\ Whole(q)
    /\ \E n \in 0 .. q.size : Tree(Part(q, n), Marks(q), q.last) /\ OwnersIn(q, n, q.last)

\* The inductive invariant.
Res(q, p, c) ==
    /\ p \in {"idle", "exec"} => Between(q)
    /\ p \in {"build", "handler", "unwind", "on_error"} => Innermost(q)
    /\ p = "climb" => Leaving(q, c)
    /\ p = "cancel" => Canceling(q)

\* More of the ring, or another innermost step, has the running steps of before.
LEMMA RunsMore ==
    ASSUME NEW q \in Instance, NEW r \in Instance, NEW n, NEW m, NEW o, NEW u,
           \A x \in Slot : Offset(q, x) < n =>
               Offset(r, x) < m /\ r.queue[x].parent = q.queue[x].parent,
           o \in Runs(r, m, u) \cup {None}
    PROVE  Runs(q, n, o) \subseteq Runs(r, m, u)
  BY DEF Runs

\* So the owners are among them, too.
LEMMA OwnersMore ==
    ASSUME NEW q \in Instance, NEW r \in Instance, NEW n, NEW m, NEW o, NEW u,
           \A x \in Slot : Offset(q, x) < n =>
               Offset(r, x) < m /\ r.queue[x].parent = q.queue[x].parent,
           o \in Runs(r, m, u) \cup {None}, OwnersIn(q, n, o),
           \A s \in Slot : Owner(r, s) => Owner(q, s) \/ s \in Runs(r, m, u)
    PROVE  OwnersIn(r, m, u)
  BY RunsMore DEF OwnersIn

\* The innermost of the running steps is the last owner.
LEMMA TipLastOwner ==
    ASSUME NEW q \in Instance, NEW n \in 0 .. q.size, NEW o \in Slot,
           Tree(Part(q, n), Marks(q), o), OwnersIn(q, n, o)
    PROVE  LastOwner(q, o) /\ o \in Runs(q, n, o)
  <1>1. \A s \in Slot \ {o} : s \in Runs(q, n, o) => Offset(q, s) < Offset(q, o)
    BY RunsBelowTip
  <1>2. o \in Runs(q, n, o)
    BY NoneIsNoSlot DEF Runs
  <1>. QED
    BY <1>1, <1>2 DEF LastOwner, OwnersIn

\* With no step running there is no owner.
LEMMA NoTipNoOwner ==
    ASSUME NEW q \in Instance, NEW n \in 0 .. q.size,
           Tree(Part(q, n), Marks(q), None), OwnersIn(q, n, None)
    PROVE  \A s \in Slot : ~Owner(q, s)
  <1>1. \A s \in Runs(q, n, None) : None \in Slot
    BY RunsBelowTip
  <1>. QED
    BY <1>1, NoneIsNoSlot DEF OwnersIn

\* With no owner the stacks are empty, and no timer is left.
LEMMA NobodyStacks ==
    ASSUME NEW q \in Instance, Stacks(q), \A s \in Slot : ~Owner(q, s)
    PROVE  q.timeouts = <<>> /\ q.cancels = <<>> /\ q.allocs = <<>> /\ q.armed = {}
  <1>1. \A s \in Slot : TimeoutsOf(q)[s] = 0 /\ CancelsOf(q)[s] = 0 /\ AllocsOf(q)[s] = 0
    BY CountsTyped DEF Owner
  <1>2. Owners(q.timeouts) = <<>> /\ Owners(q.cancels) = <<>> /\ q.allocs = <<>>
    BY <1>1, NobodyOwns DEF Stacks
  <1>3. q.timeouts \in Seq([step : Slot, timer : Timer])
        /\ q.cancels \in Seq([step : Slot, unlock : BOOLEAN])
    BY InstanceTypes
  <1>4. DOMAIN q.timeouts = {} /\ DOMAIN q.cancels = {}
    <2>1. DOMAIN Owners(q.timeouts) = DOMAIN q.timeouts
          /\ DOMAIN Owners(q.cancels) = DOMAIN q.cancels
      BY DEF Owners
    <2>2. DOMAIN <<>> = {}
      OBVIOUS
    <2>. QED
      BY <1>2, <2>1, <2>2
  <1>5. q.timeouts = <<>> /\ q.cancels = <<>>
    <2>1. Len(q.timeouts) \in Nat /\ DOMAIN q.timeouts = 1 .. Len(q.timeouts)
          /\ Len(q.cancels) \in Nat /\ DOMAIN q.cancels = 1 .. Len(q.cancels)
      BY <1>3
    <2>2. 1 \notin 1 .. Len(q.timeouts) /\ 1 \notin 1 .. Len(q.cancels)
      BY <1>4, <2>1
    <2>3. Len(q.timeouts) = 0 /\ Len(q.cancels) = 0
      BY <2>1, <2>2
    <2>. QED
      BY <1>3, <2>3
  <1>6. q.armed = {}
    BY <1>4 DEF Stacks
  <1>. QED
    BY <1>2, <1>5, <1>6

\* So they are of an instance without owners.
LEMMA NobodyWhole ==
    ASSUME NEW q \in Instance, q.timeouts = <<>>, q.cancels = <<>>, q.allocs = <<>>,
           q.armed = {}, \A s \in Slot : ~Owner(q, s), ExtendedApart(q)
    PROVE  Whole(q) /\ (\A n, o : OwnersIn(q, n, o)) /\ \A o : OwnersOrNext(q, o)
  <1>1. \A s \in Slot : TimeoutsOf(q)[s] = 0 /\ CancelsOf(q)[s] = 0 /\ AllocsOf(q)[s] = 0
    BY CountsTyped DEF Owner
  <1>2. Kept(<<>>, TimeoutsOf(q), OffsetsOf(q)) /\ Kept(<<>>, CancelsOf(q), OffsetsOf(q))
        /\ Kept(<<>>, AllocsOf(q), OffsetsOf(q))
    BY <1>1, NothingKept
  <1>3. Owners(<<>>) = <<>>
    BY DEF Owners
  <1>4. Stacks(q)
    BY <1>2, <1>3 DEF Stacks
  <1>. QED
    BY <1>4 DEF Whole, OwnersIn, OwnersOrNext

\* Nothing but the members changes, or a timer is no longer armed.
LEMMA SameRes ==
    ASSUME NEW q \in Instance, NEW r, SameQueue(q, r), r.armed \subseteq q.armed
    PROVE  /\ r \in Instance /\ (Whole(q) => Whole(r))
           /\ \A n, o : OwnersIn(q, n, o) => OwnersIn(r, n, o)
           /\ \A o : OwnersOrNext(q, o) => OwnersOrNext(r, o)
  <1>1. /\ r \in Instance /\ r.queue = q.queue /\ r.begin = q.begin /\ r.size = q.size
        /\ r.timeouts = q.timeouts /\ r.cancels = q.cancels /\ r.allocs = q.allocs
        /\ r.used = q.used /\ r.lost = q.lost
    BY DEF SameQueue
  <1>2. SameOwners(q, r)
    BY <1>1 DEF SameOwners
  <1>3. Whole(q) => Whole(r)
    <2>1. Stacks(q) => Stacks(r)
      BY <1>1, <1>2, StacksStay
    <2>2. ExtendedApart(q) => ExtendedApart(r)
      BY <1>1, SamePlaces DEF ExtendedApart
    <2>. QED
      BY <2>1, <2>2 DEF Whole
  <1>4. \A s : Owner(r, s) <=> Owner(q, s)
    BY <1>1 DEF Owner
  <1>5. \A n, o : Runs(r, n, o) = Runs(q, n, o)
    BY <1>1 DEF Runs, Offset
  <1>6. \A o : NextOf(r, o) = NextOf(q, o)
    BY <1>1 DEF NextOf
  <1>7. \A s : InQueue(r, s) <=> InQueue(q, s)
    BY <1>1, SamePlaces
  <1>8. \A n, o : OwnersIn(q, n, o) => OwnersIn(r, n, o)
    BY <1>4, <1>5 DEF OwnersIn
  <1>9. \A o : OwnersOrNext(q, o) => OwnersOrNext(r, o)
    BY <1>1, <1>4, <1>5, <1>6, <1>7 DEF OwnersOrNext
  <1>. QED
    BY <1>1, <1>3, <1>8, <1>9

\* The same with the same innermost step.
LEMMA SameInnermost ==
    ASSUME NEW q \in Instance, NEW r, SameQueue(q, r), r.armed \subseteq q.armed,
           r.last = q.last
    PROVE  /\ Innermost(q) => Innermost(r)
           /\ Between(q) => Between(r)
  <1>1. r.size = q.size
    BY DEF SameQueue
  <1>. QED
    BY <1>1, SameRes DEF Innermost, Between

\* Where no sub-step is next, only running steps are owners.
LEMMA LeafInnermost ==
    ASSUME NEW q \in Instance, q.last \in Slot, SubEmpty(q, q.last), Between(q)
    PROVE  Innermost(q)
  <1>1. ~InQueue(q, NextOf(q, q.last))
    BY RingEnd, NoneIsNoSlot DEF NextOf, SubEmpty
  <1>. QED
    BY <1>1 DEF Between, Innermost, OwnersIn, OwnersOrNext

\* A handler's owners are those between two handlers.
LEMMA InnermostBetween ==
    ASSUME NEW q, Innermost(q)
    PROVE  Between(q)
  BY DEF Innermost, Between, OwnersIn, OwnersOrNext

\* The innermost step ends: it is the next step of its parent, and owns entries.
LEMMA LeafLeaves ==
    ASSUME NEW q \in Instance, q.last \in Slot, TreeOf(q, q.last),
           SubEmpty(q, q.last), Innermost(q)
    PROVE  Leaving(q, q.queue[q.last].parent)
  <1> DEFINE o == q.last
             up == q.queue[o].parent
  <1>1. Marks(q)[o].start = q.size /\ InQueue(q, o) /\ q.queue[o].ran
    BY TipInUse
  <1>2. Tree(Part(q, q.size), Marks(q), o) /\ q.size \in 0 .. q.size
    BY WholePart
  <1>3. Runs(q, q.size, o) \ {o} \subseteq Runs(q, q.size, up) /\ up \in Slot \cup {None}
    BY <1>1, <1>2, RunsCut
  <1>4. NextOf(q, up) = o
    <2>1. Front(q, up) < q.size /\ Ring(q)[Front(q, up) + 1] = o
      BY TipIsFront
    <2>. QED
      BY <1>3, <2>1, FrontSlot DEF NextOf
  <1>5. OwnersOrNext(q, up)
    BY <1>1, <1>3, <1>4 DEF Innermost, OwnersIn, OwnersOrNext
  <1>. QED
    BY <1>5 DEF Innermost, Leaving

\* The innermost step's own slot changes, but for its marks.
LEMMA TipKeeps ==
    ASSUME NEW q \in Instance, q.last \in Slot, NEW r, NEW step, NEW timeouts, NEW armed,
           NEW cancels, NEW allocs,
           TweakedOnly(q, r, q.last, step, timeouts, armed, cancels, allocs),
           SameMarks(q.queue[q.last], step), OwnersIn(q, q.size, q.last),
           Whole(r), \A s \in Slot : Owner(r, s) => Owner(q, s) \/ s = q.last
    PROVE  Innermost(r)
  <1>1. /\ r \in Instance /\ r.begin = q.begin /\ r.size = q.size /\ r.last = q.last
        /\ r.queue[q.last] = step /\ \A x \in Slot \ {q.last} : r.queue[x] = q.queue[x]
    BY DEF TweakedOnly, SameMembers
  <1>2. \A x \in Slot : r.queue[x].parent = q.queue[x].parent /\ Offset(r, x) = Offset(q, x)
    <2>1. \A x \in Slot : r.queue[x].parent = q.queue[x].parent
      BY <1>1 DEF SameMarks
    <2>. QED
      BY <1>1, <2>1 DEF Offset
  <1>3. q.last \in Runs(r, r.size, r.last)
    BY <1>1, NoneIsNoSlot DEF Runs
  <1>4. OwnersIn(r, r.size, r.last)
    BY <1>1, <1>2, <1>3, OwnersMore
  <1>. QED
    BY <1>4 DEF Innermost

\* A change that is no matter of resources.
LEMMA PlainSet ==
    ASSUME NEW q \in Instance, q.last \in Slot, Innermost(q), NEW r, NEW step,
           TweakedOnly(q, r, q.last, step, q.timeouts, q.armed, q.cancels, q.allocs),
           SameMarks(q.queue[q.last], step),
           step.extended = q.queue[q.last].extended, step.ext = q.queue[q.last].ext,
           step.timeout = q.queue[q.last].timeout, step.cancel = q.queue[q.last].cancel,
           step.allocs = q.queue[q.last].allocs
    PROVE  Innermost(r)
  <1>1. Whole(q) /\ OwnersIn(q, q.size, q.last)
    BY DEF Innermost
  <1>2. Whole(r) /\ \A s \in Slot : Owner(r, s) => Owner(q, s)
    BY <1>1, PlainTweaked DEF SameMarks
  <1>. QED
    BY <1>1, <1>2, TipKeeps

\* The members that are set without the queue are no matter of resources.
LEMMA MembersRes ==
    ASSUME NEW q \in Instance
    PROVE  /\ \A err \in {"", "Timeout", "Error", "break", "continue"} :
                 LET r == [q EXCEPT !.err = err] IN
                 /\ SameQueue(q, r) /\ r.last = q.last /\ r.armed = q.armed
                 /\ Innermost(q) => Innermost(r)
           /\ \A last \in Slot \cup {None} :
                 LET r == [q EXCEPT !.last = last] IN
                 SameQueue(q, r) /\ r.last = last /\ r.armed = q.armed
           /\ SameQueue(q, Scheduled(q)) /\ Scheduled(q).last = q.last
           /\ Scheduled(q).armed = q.armed
  <1>1. ASSUME NEW err \in {"", "Timeout", "Error", "break", "continue"}
        PROVE  LET r == [q EXCEPT !.err = err] IN
               /\ SameQueue(q, r) /\ r.last = q.last /\ r.armed = q.armed
               /\ Innermost(q) => Innermost(r)
    <2> DEFINE r == [q EXCEPT !.err = err]
    <2>1. SameQueue(q, r)
      BY MembersSet
    <2>2. r.last = q.last /\ r.armed = q.armed
      BY DEF Instance
    <2>. HIDE DEF r
    <2>3. Innermost(q) => Innermost(r)
      BY <2>1, <2>2, SameInnermost
    <2>. QED
      BY <2>1, <2>2, <2>3 DEF r
  <1>2. ASSUME NEW last \in Slot \cup {None}
        PROVE  LET r == [q EXCEPT !.last = last] IN
               SameQueue(q, r) /\ r.last = last /\ r.armed = q.armed
    <2>1. SameQueue(q, [q EXCEPT !.last = last])
      BY MembersSet
    <2>2. [q EXCEPT !.last = last].last = last /\ [q EXCEPT !.last = last].armed = q.armed
      BY DEF Instance
    <2>. QED
      BY <2>1, <2>2
  <1>. QED
    BY <1>1, <1>2, MembersSet

\* The innermost step fails.
LEMMA RaiseRes ==
    ASSUME NEW q \in Instance, Innermost(q),
           NEW code \in {"", "Timeout", "Error", "break", "continue"}, Raise(q, code)
    PROVE  Res(ns', pc', cur')
  <1>1. Innermost([q EXCEPT !.err = code])
    BY MembersRes
  <1>2. ns' = [q EXCEPT !.err = code] /\ pc' = "unwind"
    BY DEF Raise
  <1>. QED
    BY <1>1, <1>2 DEF Res

\* The innermost step ends.
LEMMA SucceedRes ==
    ASSUME NEW q \in Instance, q.last \in Slot, TreeOf(q, q.last),
           SubEmpty(q, q.last), Innermost(q), Succeed(q)
    PROVE  Res(ns', pc', cur')
  <1>1. Leaving(q, q.queue[q.last].parent)
    BY LeafLeaves
  <1>2. ns' = q /\ pc' = "climb" /\ cur' = q.queue[q.last].parent
    BY DEF Succeed
  <1>. QED
    BY <1>1, <1>2 DEF Res

\* The handler of the innermost step returns.
LEMMA ReturnedRes ==
    ASSUME NEW q \in Instance, NEW m \in Mixes, Running(q, m), Innermost(q), Returned(q)
    PROVE  Res(ns', pc', cur')
  <1>1. q.last \in Slot /\ TreeOf(q, q.last) /\ q.queue[q.last] \in StepData
        /\ q.err \in {"", "Timeout", "Error", "break", "continue"}
    BY InstanceTypes DEF Running
  <1>2. CASE q.err # ""
    <2>1. Raise(q, q.err)
      BY <1>2 DEF Returned
    <2>. QED
      BY <1>1, <2>1, RaiseRes
  <1>3. CASE q.err = "" /\ SubEmpty(q, q.last)
             /\ ~(q.queue[q.last].cancel \/ q.queue[q.last].timeout \/ q.queue[q.last].wait)
    <2>1. Succeed(q)
      BY <1>3 DEF Returned
    <2>. QED
      BY <1>1, <1>3, <2>1, SucceedRes
  <1>4. CASE q.err = "" /\ ~(SubEmpty(q, q.last)
             /\ ~(q.queue[q.last].cancel \/ q.queue[q.last].timeout \/ q.queue[q.last].wait))
    <2> DEFINE b == SubEmpty(q, q.last)
               r == [q EXCEPT !.queue[q.last].asked = b]
               step == [q.queue[q.last] EXCEPT !.asked = b]
    <2>1. ns' = r /\ pc' = "exec"
      BY <1>4 DEF Returned
    <2>2. b \in BOOLEAN
      BY DEF SubEmpty
    <2> HIDE DEF b
    <2>3. TweakedOnly(q, r, q.last, step, q.timeouts, q.armed, q.cancels, q.allocs)
      BY <2>2, AskedSet
    <2>4. /\ SameMarks(q.queue[q.last], step)
          /\ step.extended = q.queue[q.last].extended /\ step.ext = q.queue[q.last].ext
          /\ step.timeout = q.queue[q.last].timeout /\ step.cancel = q.queue[q.last].cancel
          /\ step.allocs = q.queue[q.last].allocs
      BY <1>1 DEF SameMarks, StepData
    <2> HIDE DEF r, step
    <2>5. Innermost(r)
      BY <1>1, <2>3, <2>4, PlainSet
    <2>6. Between(r)
      BY <2>5, InnermostBetween
    <2>. QED
      BY <2>1, <2>6 DEF Res
  <1>. QED
    BY <1>2, <1>3, <1>4

\* A step is added: it owns nothing yet.
LEMMA AddedRes ==
    ASSUME NEW q \in Instance, q.last \in Slot \cup {None}, TreeOf(q, q.last),
           Innermost(q), NEW r, NEW s, NEW func, Allocated(q, r, s, q.last, func),
           Plain(q, r, s) \/ Extended(q, r, s)
    PROVE  Innermost(r)
  <1>1. /\ r \in Instance /\ r.begin = q.begin /\ r.size = q.size + 1 /\ r.last = q.last
        /\ r.timeouts = q.timeouts /\ r.armed = q.armed /\ r.cancels = q.cancels
        /\ r.allocs = q.allocs /\ s \in Slot /\ s = QueueEnd(q)
        /\ \A x \in Slot \ {s} : r.queue[x] = q.queue[x]
        /\ ~r.queue[s].cancel /\ ~r.queue[s].timeout
        /\ r.queue[s].allocs = q.queue[s].allocs /\ ~r.queue[s].ran /\ r.lost = q.lost
    BY RingEnd DEF Allocated
  <1>2. Tree(Part(q, q.size), Marks(q), q.last) /\ q.size \in 0 .. q.size
    BY WholePart
  <1>3. \A x \in Runs(q, q.size, q.last) : x \in Slot /\ InQueue(q, x)
    BY <1>2, RunsBelowTip
  <1>4. ~Owner(q, s)
    BY <1>1, <1>3, RingEnd DEF Innermost, OwnersIn
  <1>5. SameOwners(q, r)
    <2>1. \A x \in Slot : /\ q.queue[x].timeout \in BOOLEAN /\ r.queue[x].timeout \in BOOLEAN
                          /\ q.queue[x].cancel \in BOOLEAN /\ r.queue[x].cancel \in BOOLEAN
      BY <1>1, CountsTyped
    <2>2. r.queue[s].timeout = q.queue[s].timeout /\ r.queue[s].cancel = q.queue[s].cancel
      BY <1>1, <1>4, <2>1 DEF Owner
    <2>. QED
      BY <1>1, <2>2 DEF SameOwners
  <1>6. Stacks(r) /\ \A x \in Slot : Owner(r, x) <=> Owner(q, x)
    <2>1. SameClaims(q, r)
      BY <1>1, <1>4 DEF SameClaims, Claims, Owner
    <2>. QED
      BY <1>1, <1>5, <2>1, StacksStay DEF Innermost, Whole
  <1>7. ExtendedApart(r)
    <2>1. ExtendedApart(q) /\ ~q.queue[s].extended
      BY <1>1, RingEnd DEF Innermost, Whole, ExtendedApart
    <2>2. InQueue(r, s) /\ \A x \in Slot : InQueue(q, x) => InQueue(r, x)
      <3>1. \A x \in Slot : Offset(r, x) = Offset(q, x) /\ Offset(q, x) \in Nat
                            /\ (InQueue(q, x) <=> Offset(q, x) < q.size)
                            /\ (InQueue(r, x) <=> Offset(r, x) < q.size + 1)
        BY <1>1, SlotInRing DEF Offset
      <3>2. Offset(q, s) = q.size /\ q.size \in Nat
        BY <1>1, RingEnd, InstanceTypes
      <3>. QED
        BY <1>1, <3>1, <3>2
    <2>3. CASE Plain(q, r, s)
      <3>1. /\ r.used = q.used /\ r.lost = q.lost
            /\ \A x \in Slot : /\ r.queue[x].extended <=> q.queue[x].extended
                               /\ q.queue[x].extended => r.queue[x].ext = q.queue[x].ext
        BY <1>1, <2>1, <2>3 DEF Plain
      <3>. QED
        BY <2>1, <2>2, <3>1, ApartStays
    <2>4. CASE Extended(q, r, s)
      <3> DEFINE e == r.queue[s].ext
      <3>1. /\ r.used = q.used \cup {e} /\ e \notin q.used /\ r.lost = q.lost
            /\ r.queue[s].extended /\ \A x \in Slot \ {s} : r.queue[x] = q.queue[x]
        BY <1>1, <2>4 DEF Extended
      <3>2. \A x \in Slot \ {s} : r.queue[x].extended =>
               /\ InQueue(r, x) /\ r.queue[x].ext \in q.used \ q.lost /\ r.queue[x].ext # e
               /\ \A y \in Slot \ {s} : r.queue[y].extended
                                        /\ r.queue[y].ext = r.queue[x].ext => y = x
        BY <2>1, <2>2, <3>1 DEF ExtendedApart
      <3>3. \A d \in q.used \ q.lost : \E x \in Slot : r.queue[x].extended /\ r.queue[x].ext = d
        BY <2>1, <3>1 DEF ExtendedApart
      <3>4. q.lost \subseteq q.used /\ s \in Slot
        BY <1>1, <2>1 DEF ExtendedApart
      <3>5. r.lost \subseteq r.used
        BY <3>1, <3>4
      <3>6. \A d \in r.used \ r.lost : \E x \in Slot : r.queue[x].extended /\ r.queue[x].ext = d
        BY <3>1, <3>3, <3>4
      <3>7. \A x \in Slot : r.queue[x].extended =>
               /\ InQueue(r, x) /\ r.queue[x].ext \in r.used \ r.lost
               /\ \A y \in Slot : r.queue[y].extended /\ r.queue[y].ext = r.queue[x].ext => y = x
        BY <2>2, <3>1, <3>2, <3>4
      <3>. QED
        BY <3>5, <3>6, <3>7 DEF ExtendedApart
    <2>. QED
      BY <2>3, <2>4
  <1>8. \A x \in Slot : Offset(q, x) < q.size =>
           Offset(r, x) < r.size /\ r.queue[x].parent = q.queue[x].parent
    <2>1. \A x \in Slot : Offset(r, x) = Offset(q, x) /\ Offset(q, x) \in Nat
      BY <1>1, SlotInRing DEF Offset
    <2>2. q.size \in Nat
      BY InstanceTypes
    <2>3. ~(Offset(q, s) < q.size)
      BY <1>1, RingEnd, SlotInRing
    <2>. QED
      BY <1>1, <2>1, <2>2, <2>3
  <1>9. q.last \in Runs(r, r.size, r.last) \cup {None}
    BY <1>1 DEF Runs
  <1>10. OwnersIn(r, r.size, r.last)
    BY <1>1, <1>6, <1>8, <1>9, OwnersMore DEF Innermost
  <1>. QED
    BY <1>6, <1>7, <1>10 DEF Innermost, Whole

----------------------------------------------------------------------------
(* Each action keeps who owns what                                          *)

\* The next step is called: it and the running ones own all entries.
LEMMA CalledRes ==
    ASSUME TreeInv, Res(ns, pc, cur), pc = "exec", NextStep \in Alive
    PROVE  /\ Innermost(Started)
           /\ ~ns.queue[NextStep].ran => ~Started.queue[NextStep].cancel
  <1> DEFINE s == NextStep
             b == Started
             o == ns.last
  <1>1. /\ ns \in Instance /\ TreeOf(ns, o) /\ o \in Slot \cup {None} /\ Between(ns)
    BY Here DEF Res
  <1>2. /\ b \in Instance /\ b.last = s /\ s \in Slot /\ b.begin = ns.begin
        /\ b.timeouts = ns.timeouts /\ b.armed = ns.armed /\ b.cancels = ns.cancels
        /\ b.allocs = ns.allocs /\ b.used = ns.used /\ b.lost = ns.lost
        /\ b.size = ns.size /\ \A x \in Slot \ {s} : b.queue[x] = ns.queue[x]
        /\ b.queue[s] = [ns.queue[s] EXCEPT !.start = QueueEnd(ns), !.front = QueueEnd(ns),
                                            !.ran = TRUE, !.asked = FALSE]
    <2>1. Begun(ns, b, s, allow) /\ b.last = s
      BY Called
    <2>. QED
      BY <1>1, <2>1 DEF Begun
  <1>3. InQueue(ns, s) /\ s = NextOf(ns, o)
    BY DEF Alive, NextStep, NextOf
  <1> HIDE DEF s, b, o
  <1>4. \A x \in Slot : /\ b.queue[x].timeout = ns.queue[x].timeout
                        /\ b.queue[x].cancel = ns.queue[x].cancel
                        /\ b.queue[x].allocs = ns.queue[x].allocs
                        /\ b.queue[x].extended = ns.queue[x].extended
                        /\ b.queue[x].ext = ns.queue[x].ext
                        /\ b.queue[x].parent = ns.queue[x].parent
    <2>1. ns.queue[s] \in StepData
      BY <1>1, <1>2, InstanceTypes
    <2>2. /\ b.queue[s].timeout = ns.queue[s].timeout
          /\ b.queue[s].cancel = ns.queue[s].cancel
          /\ b.queue[s].allocs = ns.queue[s].allocs
          /\ b.queue[s].extended = ns.queue[s].extended
          /\ b.queue[s].ext = ns.queue[s].ext
          /\ b.queue[s].parent = ns.queue[s].parent
      BY <1>2, <2>1 DEF StepData
    <2>. QED
      BY <1>2, <2>2
  <1>5. \A x \in Slot : Owner(b, x) => Owner(ns, x) \/ x = s
    BY <1>2 DEF Owner
  <1>6. SameOwners(ns, b)
    BY <1>2, <1>4 DEF SameOwners
  <1>7. Stacks(b)
    BY <1>1, <1>2, <1>6, StacksStay DEF Between, Whole
  <1>8. ExtendedApart(b)
    BY <1>1, <1>2, <1>4, SamePlaces, ApartStays DEF Between, Whole
  <1>9. \A x \in Slot : Offset(b, x) = Offset(ns, x)
    BY <1>2 DEF Offset
  <1>10. s \in Runs(b, b.size, s)
    BY <1>2, NoneIsNoSlot DEF Runs
  <1>11. Runs(ns, ns.size, o) \subseteq Runs(b, b.size, s)
    <2>1. o \in Runs(b, b.size, s) \cup {None}
      <3>1. Front(ns, o) < ns.size
        BY <1>1, <1>3, FrontSlot DEF NextOf
      <3>2. ns.queue[s].parent = o
        BY <1>1, <1>3, <3>1, SiblingsInOrder DEF NextOf
      <3>3. Offset(ns, s) < ns.size
        BY <1>1, <1>2, <1>3, SlotInRing
      <3>. QED
        BY <1>2, <1>4, <1>9, <3>2, <3>3 DEF Runs
    <2>2. \A x \in Slot : Offset(ns, x) < ns.size =>
             Offset(b, x) < b.size /\ b.queue[x].parent = ns.queue[x].parent
      BY <1>2, <1>4, <1>9
    <2>3. ns \in Instance /\ b \in Instance
      BY <1>1, <1>2
    <2>. QED
      BY <2>1, <2>2, <2>3, RunsMore
  <1>12. OwnersIn(b, b.size, b.last)
    BY <1>1, <1>2, <1>3, <1>5, <1>10, <1>11 DEF Between, OwnersOrNext, OwnersIn, o
  <1>13. ~ns.queue[s].ran => ~b.queue[s].cancel
    <2>1. Tree(Part(ns, ns.size), Marks(ns), o) /\ ns.size \in 0 .. ns.size
      BY <1>1, WholePart
    <2>2. s \in Runs(ns, ns.size, o) => ns.queue[s].ran
      BY <1>1, <2>1, RunsBelowTip
    <2>3. ~ns.queue[s].ran => ~Owner(ns, s)
      BY <1>1, <1>2, <2>2 DEF Between, OwnersOrNext, o
    <2>. QED
      BY <1>2, <1>4, <2>3 DEF Owner
  <1>. QED
    BY <1>7, <1>8, <1>12, <1>13 DEF Innermost, Whole, s, b

\* HandleLoop frees the objects of the last iteration.
LEMMA LoopRes ==
    ASSUME TreeInv, Res(ns, pc, cur), pc = "exec", NextStep \in Alive,
           ns.queue[NextStep].func = "loop", LoopHandler
    PROVE  Res(ns', pc', cur')
  <1> DEFINE s == NextStep
             b == Started
             kept == Drop(b.allocs, ns.queue[s].allocs)
             step == [b.queue[s] EXCEPT !.allocs = 0]
             q == [b EXCEPT !.allocs = kept, !.queue[s].allocs = 0]
             again == [q EXCEPT !.queue[s].repeat = TRUE, !.queue[s].on_error = "loop"]
             done == [q EXCEPT !.queue[s].repeat = FALSE]
  <1>1. \/ ns' = again /\ pc' = "handler"
        \/ Returned(done)
    BY DEF LoopHandler
  <1>2. /\ b \in Instance /\ Running(b, allow) /\ b.last = s /\ s \in Slot
        /\ b.queue[s].func = "loop" /\ allow \in Mixes /\ ns \in Instance
        /\ b.queue[s].allocs = ns.queue[s].allocs
    BY Called
  <1>3. Innermost(b)
    BY CalledRes
  <1>4. /\ b.queue[s] \in StepData /\ ns.queue[s].allocs \in Nat
        /\ b.timeouts \in Seq([step : Slot, timer : Timer]) /\ b.armed \in SUBSET Timer
        /\ b.cancels \in Seq([step : Slot, unlock : BOOLEAN]) /\ b.allocs \in Seq(Slot)
        /\ Len(b.timeouts) \in Nat /\ Len(b.cancels) \in Nat /\ Len(b.allocs) \in Nat
    <2>1. ns.queue[s] \in StepData
      BY <1>2, InstanceTypes
    <2>. QED
      BY <1>2, <2>1, InstanceTypes DEF StepData
  <1>5. kept \in Seq(Slot) /\ Len(kept) <= Len(b.allocs)
        /\ Len(b.timeouts) <= Len(b.timeouts) /\ Len(b.cancels) <= Len(b.cancels)
    BY <1>4, Dropped
  <1>6. step \in StepData /\ SameMarks(b.queue[s], step)
        /\ (step.repeat => step.func \in {"loop", "await"})
        /\ step.func = "loop" /\ step.allocs = 0
        /\ step.extended = b.queue[s].extended /\ step.ext = b.queue[s].ext
        /\ step.timeout = b.queue[s].timeout /\ step.cancel = b.queue[s].cancel
    BY <1>2, <1>4 DEF StepData, SameMarks
  <1>7. kept = Drop(b.allocs, b.queue[s].allocs)
    BY <1>2
  <1> HIDE DEF kept
  <1>8. Tweaked(b, q, s, step, b.timeouts, b.armed, b.cancels, kept)
    BY <1>2, <1>4 DEF Tweaked, Instance
  <1> HIDE DEF s, b, step, q
  <1>9. /\ q \in Instance /\ Running(q, allow) /\ SameMembers(b, q)
        /\ TweakedOnly(b, q, s, step, b.timeouts, b.armed, b.cancels, kept)
    BY <1>2, <1>4, <1>5, <1>6, <1>8, TipTweaked
  <1>10. q.last = s /\ q.queue[s] \in StepData
    BY <1>2, <1>6, <1>9 DEF SameMembers, TweakedOnly
  <1>11. LastOwner(b, s) /\ Whole(b) /\ OwnersIn(b, b.size, b.last)
    <2>1. Tree(Part(b, b.size), Marks(b), s) /\ b.size \in 0 .. b.size
      BY <1>2, WholePart DEF Running
    <2>. QED
      BY <1>2, <1>3, <2>1, TipLastOwner DEF Innermost
  <1>12. Whole(q) /\ \A x \in Slot : Owner(q, x) => Owner(b, x) \/ x = s
    <2>1. b \in Instance /\ s \in Slot /\ step.allocs = 0
          /\ step.extended = b.queue[s].extended /\ step.ext = b.queue[s].ext
          /\ step.timeout = b.queue[s].timeout /\ step.cancel = b.queue[s].cancel
      BY <1>2, <1>6
    <2>2. TweakedOnly(b, q, s, step, b.timeouts, b.armed, b.cancels, kept)
      BY <1>9
    <2>. QED
      BY <1>7, <1>11, <2>1, <2>2, AllocsTweaked, ZenonT(60)
  <1>14. Innermost(q)
    BY <1>2, <1>6, <1>9, <1>11, <1>12, TipKeeps
  <1> DEFINE more == [q.queue[s] EXCEPT !.repeat = TRUE, !.on_error = "loop"]
             over == [q.queue[s] EXCEPT !.repeat = FALSE]
  <1>15. /\ more \in StepData /\ SameMarks(q.queue[s], more) /\ more.func = "loop"
         /\ over \in StepData /\ SameMarks(q.queue[s], over) /\ over.func = "loop"
         /\ more.extended = q.queue[s].extended /\ more.ext = q.queue[s].ext
         /\ more.timeout = q.queue[s].timeout /\ more.cancel = q.queue[s].cancel
         /\ more.allocs = q.queue[s].allocs
         /\ over.extended = q.queue[s].extended /\ over.ext = q.queue[s].ext
         /\ over.timeout = q.queue[s].timeout /\ over.cancel = q.queue[s].cancel
         /\ over.allocs = q.queue[s].allocs
    <2>1. q.queue[s].func = "loop"
      BY <1>6, <1>9 DEF TweakedOnly
    <2>. QED
      BY <1>10, <2>1 DEF StepData, SameMarks
  <1>16. again = [q EXCEPT !.queue[s] = more]
    OBVIOUS
  <1>17. done = [q EXCEPT !.queue[s] = over]
    OBVIOUS
  <1> HIDE DEF more, over, again, done
  <1>19. TweakedOnly(q, again, s, more, q.timeouts, q.armed, q.cancels, q.allocs)
    BY <1>2, <1>9, <1>10, <1>15, <1>16, TipSet
  <1>20. TweakedOnly(q, done, s, over, q.timeouts, q.armed, q.cancels, q.allocs)
         /\ Running(done, allow) /\ done \in Instance
    BY <1>2, <1>9, <1>10, <1>15, <1>17, TipSet
  <1>21. Innermost(again)
    BY <1>2, <1>9, <1>10, <1>14, <1>15, <1>19, PlainSet
  <1>22. Innermost(done)
    BY <1>2, <1>9, <1>10, <1>14, <1>15, <1>20, PlainSet
  <1>23. CASE Returned(done)
    BY <1>2, <1>20, <1>22, <1>23, ReturnedRes
  <1>. QED
    BY <1>1, <1>21, <1>23 DEF Res

\* HandleAwait polls.
LEMMA AwaitRes ==
    ASSUME TreeInv, Res(ns, pc, cur), pc = "exec", NextStep \in Alive,
           ns.queue[NextStep].func = "await", AwaitHandler
    PROVE  Res(ns', pc', cur')
  <1> DEFINE s == NextStep
             b == Started
             q == [b EXCEPT !.queue[s].repeat = FALSE]
             r == [q EXCEPT !.queue[s].repeat = TRUE]
  <1>1. Returned(q) \/ Returned(r) \/ Raise(q, "Error")
    BY DEF AwaitHandler
  <1>2. /\ b \in Instance /\ Running(b, allow) /\ b.last = s /\ s \in Slot
        /\ b.queue[s].func = "await" /\ allow \in Mixes
    BY Called
  <1>3. Innermost(b)
    BY CalledRes
  <1> DEFINE over == [b.queue[s] EXCEPT !.repeat = FALSE]
  <1>4. b.queue[s] \in StepData
    BY <1>2, InstanceTypes
  <1>5. /\ over \in StepData /\ SameMarks(b.queue[s], over) /\ over.func = "await"
        /\ over.extended = b.queue[s].extended /\ over.ext = b.queue[s].ext
        /\ over.timeout = b.queue[s].timeout /\ over.cancel = b.queue[s].cancel
        /\ over.allocs = b.queue[s].allocs
    BY <1>2, <1>4 DEF StepData, SameMarks
  <1>6. q = [b EXCEPT !.queue[s] = over]
    OBVIOUS
  <1> HIDE DEF over, s, b, q
  <1>8. /\ q \in Instance /\ Running(q, allow) /\ SameMembers(b, q)
        /\ TweakedOnly(b, q, s, over, b.timeouts, b.armed, b.cancels, b.allocs)
    BY <1>2, <1>5, <1>6, TipSet
  <1>9. q.last = s /\ q.queue[s] \in StepData /\ q.queue[s].func = "await"
    BY <1>2, <1>5, <1>8 DEF SameMembers, TweakedOnly
  <1>10. Innermost(q)
    BY <1>2, <1>3, <1>5, <1>8, PlainSet
  <1> DEFINE more == [q.queue[s] EXCEPT !.repeat = TRUE]
  <1>12. /\ more \in StepData /\ SameMarks(q.queue[s], more) /\ more.func = "await"
         /\ more.extended = q.queue[s].extended /\ more.ext = q.queue[s].ext
         /\ more.timeout = q.queue[s].timeout /\ more.cancel = q.queue[s].cancel
         /\ more.allocs = q.queue[s].allocs
    BY <1>9 DEF StepData, SameMarks
  <1>13. r = [q EXCEPT !.queue[s] = more]
    OBVIOUS
  <1> HIDE DEF more, r
  <1>14. /\ r \in Instance /\ Running(r, allow)
         /\ TweakedOnly(q, r, s, more, q.timeouts, q.armed, q.cancels, q.allocs)
    BY <1>2, <1>8, <1>9, <1>12, <1>13, TipSet
  <1>15. Innermost(r)
    BY <1>2, <1>8, <1>9, <1>10, <1>12, <1>14, PlainSet
  <1>16. CASE Returned(q)
    BY <1>2, <1>8, <1>10, <1>16, ReturnedRes
  <1>17. CASE Returned(r)
    BY <1>2, <1>14, <1>15, <1>17, ReturnedRes
  <1>18. CASE Raise(q, "Error")
    BY <1>8, <1>10, <1>18, RaiseRes
  <1>. QED
    BY <1>1, <1>16, <1>17, <1>18

\* HandleSync has an on_cancel of its own, and three steps that own nothing.
LEMMA SyncRes ==
    ASSUME TreeInv, Res(ns, pc, cur), Roomy, pc = "exec", NextStep \in Alive,
           ns.queue[NextStep].func = "sync", SyncHandler
    PROVE  Res(ns', pc', cur')
  <1> DEFINE s == NextStep
             b == Started
             c == SetCancel(b, TRUE)
             step == [b.queue[s] EXCEPT !.cancel = TRUE]
             cancels == Append(b.cancels, [step |-> s, unlock |-> TRUE])
             n == Cardinality(Syncs(b))
  <1>1. /\ b \in Instance /\ Running(b, allow) /\ b.last = s /\ s \in Slot
        /\ allow \in Mixes /\ ns \in Instance
        /\ Begun(ns, b, s, allow) /\ Sound(ns, allow)
        /\ (ns.queue[s].ran => ns.queue[s].repeat)
    BY Called, Here
  <1>2. PICK on_error \in {"none", "user"} :
           LET q == AllocStep(c, s, "lock")
               t == AllocStep(q, s, "body")
               r == [t EXCEPT !.queue[QueueEnd(q)].on_error = on_error]
           IN  Returned(AllocStep(r, s, "unlock"))
    <2>1. OnErrors \subseteq {"none", "user"}
      BY DEF OnErrors
    <2>2. PICK on_error \in OnErrors :
             LET q == AllocStep(c, s, "lock")
                 t == AllocStep(q, s, "body")
                 r == [t EXCEPT !.queue[QueueEnd(q)].on_error = on_error]
             IN  Returned(AllocStep(r, s, "unlock"))
      BY DEF SyncHandler
    <2>. QED
      BY <2>1, <2>2
  <1>3. s \in Syncs(ns) /\ ~ns.queue[s].ran
    <2>1. ~ns.queue[s].repeat
      BY <1>1 DEF Sound, Repeaters
    <2>. QED
      BY <1>1, <2>1 DEF Syncs, Alive
  <1>4. Innermost(b) /\ ~b.queue[s].cancel
    BY <1>3, CalledRes
  <1>5. /\ n \in Nat /\ Cardinality(Syncs(ns)) = n + 1 /\ b.size = ns.size
        /\ b.cancels = ns.cancels
    <2>1. IsFiniteSet(Syncs(ns)) /\ Cardinality(Syncs(ns)) \in Nat
      BY <1>1, SyncsCounted
    <2>2. Syncs(b) = Syncs(ns) \ {s} /\ b.size = ns.size /\ b.cancels = ns.cancels
      BY <1>1 DEF Begun
    <2>3. Cardinality(Syncs(b)) = Cardinality(Syncs(ns)) - 1
      BY <1>3, <2>1, <2>2, FS_RemoveElement
    <2>4. n \in Nat
      BY <1>1, SyncsCounted
    <2>. QED
      BY <2>1, <2>2, <2>3, <2>4
  <1>6. /\ allow.steps \in Nat /\ allow.steps < MaxSteps /\ MaxSteps \in Nat
        /\ MaxCancels \in Nat /\ b.size \in Nat /\ Len(b.cancels) \in Nat
    BY <1>1, Bounds, InstanceTypes DEF Roomy
  <1>7. b.size + 3 * (n + 1) <= allow.steps /\ Len(b.cancels) + (n + 1) <= MaxCancels
    BY <1>1, <1>5 DEF Sound
  <1>8. Len(b.cancels) + 1 + n <= MaxCancels
    BY <1>5, <1>6, <1>7
  <1>9. b.queue[s] \in StepData
    BY <1>1, InstanceTypes
  <1>10. /\ SameMarks(b.queue[s], step) /\ step.cancel
         /\ step.extended = b.queue[s].extended /\ step.ext = b.queue[s].ext
         /\ step.timeout = b.queue[s].timeout /\ step.allocs = b.queue[s].allocs
    BY <1>9 DEF StepData, SameMarks
  <1> HIDE DEF s, b
  <1>12. /\ c \in Instance /\ Running(c, allow) /\ SameRun(b, c) /\ SameMembers(b, c)
         /\ TweakedOnly(b, c, s, step, b.timeouts, b.armed, cancels, b.allocs)
    BY <1>1, <1>8, CancelSet
  <1> HIDE DEF c, step
  <1>13. LastOwner(b, s) /\ Whole(b) /\ OwnersIn(b, b.size, b.last)
    <2>1. Tree(Part(b, b.size), Marks(b), s) /\ b.size \in 0 .. b.size
      BY <1>1, WholePart DEF Running
    <2>. QED
      BY <1>1, <1>4, <2>1, TipLastOwner DEF Innermost
  <1>14. Whole(c) /\ \A x \in Slot : Owner(c, x) => Owner(b, x) \/ x = s
    <2>1. b \in Instance /\ s \in Slot
      BY <1>1
    <2>. QED
      BY <1>4, <1>10, <1>12, <1>13, <2>1, CancelPushed
  <1> HIDE DEF cancels
  <1>15. Innermost(c)
    BY <1>1, <1>10, <1>12, <1>13, <1>14, TipKeeps
  <1>16. /\ c.last = s /\ c.size = b.size /\ Syncs(c) = Syncs(b)
    BY <1>1, <1>12, RunStays DEF SameMembers
  <1> DEFINE q == AllocStep(c, s, "lock")
  <1>17. /\ c.size + 1 + 3 * Cardinality(Syncs(c)) <= allow.steps /\ c.size + 1 < MaxSteps
    BY <1>5, <1>6, <1>7, <1>16
  <1>18. Allocated(c, q, QueueEnd(c), s, "lock") /\ Plain(c, q, QueueEnd(c))
    BY <1>1, <1>12, <1>17, StepAllocated
  <1> HIDE DEF q
  <1>19. /\ q \in Instance /\ Running(q, allow) /\ q.size = c.size + 1
         /\ Cardinality(Syncs(q)) = n /\ q.last = s
    BY <1>1, <1>12, <1>16, <1>17, <1>18, SubStepAdded
  <1>20. Innermost(q)
    BY <1>12, <1>15, <1>16, <1>18, AddedRes DEF Running
  <1>21. /\ q.size + 1 + 3 * Cardinality(Syncs(q)) <= allow.steps /\ q.size + 1 < MaxSteps
    BY <1>5, <1>6, <1>7, <1>16, <1>19, SMTT(40)
  <1> DEFINE t == AllocStep(q, s, "body")
             r == [t EXCEPT !.queue[QueueEnd(q)].on_error = on_error]
  <1>22. Allocated(q, t, QueueEnd(q), s, "body") /\ Plain(q, t, QueueEnd(q))
    BY <1>1, <1>19, <1>21, StepAllocated
  <1> HIDE DEF t
  <1>23. QueueEnd(q) \in Slot
    BY <1>19, RingEnd
  <1>24. Allocated(q, r, QueueEnd(q), s, "body") /\ Plain(q, r, QueueEnd(q))
    BY <1>19, <1>22, <1>23, OnErrorSet
  <1> HIDE DEF r
  <1>25. /\ r \in Instance /\ Running(r, allow) /\ r.size = q.size + 1
         /\ Cardinality(Syncs(r)) = n /\ r.last = s
    BY <1>1, <1>19, <1>21, <1>24, SubStepAdded, ZenonT(60)
  <1>26. Innermost(r)
    BY <1>19, <1>20, <1>24, AddedRes DEF Running
  <1>27. /\ r.size + 1 + 3 * Cardinality(Syncs(r)) <= allow.steps /\ r.size + 1 < MaxSteps
    BY <1>5, <1>6, <1>7, <1>16, <1>19, <1>25, SMTT(40)
  <1> DEFINE u == AllocStep(r, s, "unlock")
  <1>28. Allocated(r, u, QueueEnd(r), s, "unlock") /\ Plain(r, u, QueueEnd(r))
    BY <1>1, <1>25, <1>27, StepAllocated
  <1>29. Returned(u)
    BY <1>2 DEF q, t, r
  <1> HIDE DEF u
  <1>30. u \in Instance /\ Running(u, allow)
    <2>1. Allocated(r, u, QueueEnd(r), r.last, "unlock")
      BY <1>25, <1>28
    <2>. QED
      BY <1>1, <1>25, <1>27, <2>1, SubStepAdded
  <1>31. Innermost(u)
    BY <1>25, <1>26, <1>28, AddedRes DEF Running
  <1>. QED
    BY <1>1, <1>29, <1>30, <1>31, ReturnedRes

\* sync_lock_handler()
LEMMA LockRes ==
    ASSUME TreeInv, Res(ns, pc, cur), pc = "exec", NextStep \in Alive, LockHandler
    PROVE  Res(ns', pc', cur')
  <1> DEFINE q == Started
             w == WaitExternal(q)
             step == [q.queue[q.last] EXCEPT !.wait = TRUE]
  <1>1. q \in Instance /\ Running(q, allow) /\ allow \in Mixes /\ q.last \in Slot
    BY Called DEF Running
  <1>2. Innermost(q)
    BY CalledRes
  <1>3. \/ UNCHANGED <<ns, cur, pc>>
        \/ Returned(q)
        \/ Returned(w)
        \/ Raise(q, "Error")
    BY DEF LockHandler, Stop
  <1> HIDE DEF q
  <1>4. q.queue[q.last] \in StepData
    BY <1>1, InstanceTypes
  <1>5. /\ SameMarks(q.queue[q.last], step)
        /\ step.extended = q.queue[q.last].extended /\ step.ext = q.queue[q.last].ext
        /\ step.timeout = q.queue[q.last].timeout /\ step.cancel = q.queue[q.last].cancel
        /\ step.allocs = q.queue[q.last].allocs
    BY <1>4 DEF StepData, SameMarks
  <1>6. /\ w \in Instance /\ Running(w, allow)
        /\ TweakedOnly(q, w, q.last, step, q.timeouts, q.armed, q.cancels, q.allocs)
    BY <1>1, WaitSet
  <1> HIDE DEF w, step
  <1>7. Innermost(w)
    BY <1>1, <1>2, <1>5, <1>6, PlainSet
  <1>8. CASE Returned(q)
    BY <1>1, <1>2, <1>8, ReturnedRes
  <1>9. CASE Returned(w)
    BY <1>1, <1>6, <1>7, <1>9, ReturnedRes
  <1>10. CASE Raise(q, "Error")
    BY <1>1, <1>2, <1>10, RaiseRes
  <1>. QED
    BY <1>3, <1>8, <1>9, <1>10

\* One step of a burst.
LEMMA RunRes ==
    ASSUME TreeInv, Res(ns, pc, cur), Roomy, RunStep
    PROVE  Res(ns', pc', cur')
  <1>1. CASE NextStep \notin Alive
    BY <1>1 DEF RunStep, Stop
  <1>2. CASE NextStep \in Alive
    <2>1. pc = "exec" /\ Handler(ns.queue[NextStep].func)
      BY <1>2 DEF RunStep
    <2>2. CASE ns' = Started /\ pc' = "handler" /\ cur' = cur
      BY <1>2, <2>1, <2>2, CalledRes DEF Res
    <2>3. CASE ns.queue[NextStep].func = "loop" /\ LoopHandler
      BY <1>2, <2>1, <2>3, LoopRes
    <2>4. CASE ns.queue[NextStep].func = "await" /\ AwaitHandler
      BY <1>2, <2>1, <2>4, AwaitRes
    <2>5. CASE ns.queue[NextStep].func = "sync" /\ SyncHandler
      BY <1>2, <2>1, <2>5, SyncRes
    <2>6. CASE LockHandler
      BY <1>2, <2>1, <2>6, LockRes
    <2>7. CASE UnlockHandler
      <3>1. Returned(Started)
        BY <2>7 DEF UnlockHandler
      <3>2. Started \in Instance /\ Running(Started, allow) /\ allow \in Mixes
        BY <1>2, <2>1, Called
      <3>3. Innermost(Started)
        BY <1>2, <2>1, CalledRes
      <3>. QED
        BY <3>1, <3>2, <3>3, ReturnedRes
    <2>. QED
      BY <2>1, <2>2, <2>3, <2>4, <2>5, <2>6, <2>7 DEF Handler
  <1>. QED
    BY <1>1, <1>2

\* A timeout fires only while the flow waits, and cancel() is not called between
\* two iterations of a loop.
Disciplined == \A m \in Mixes : m.may \cap {"early_timeout", "cancel_loop"} = {}

\* A step is added.
LEMMA AddRes ==
    ASSUME TreeInv, Res(ns, pc, cur), Roomy, Add
    PROVE  Res(ns', pc', cur')
  <1>1. /\ allow \in Mixes /\ ns \in Instance
        /\ ns.last \in Slot \cup {None} /\ TreeOf(ns, ns.last)
    BY Here DEF Add
  <1>2. PICK kind \in Kinds : Fits(kind) /\ ns' = AddStep(ns, ns.last, kind)
    BY DEF Add
  <1> DEFINE s == QueueEnd(ns)
             n == Cardinality(SyncsToRun)
             d == IF kind.func = "sync" THEN 1 ELSE 0
  <1>3. n \in Nat /\ d \in 0 .. 1
    <2>1. SyncsToRun = Syncs(ns)
      BY DEF SyncsToRun, Syncs, Alive
    <2>. QED
      BY <1>1, <2>1, SyncsCounted
  <1>4. /\ ns.size + 1 + 3 * (n + d) <= allow.steps
        /\ kind.func # "user" => ns.used # Ext
    <2>1. /\ ns.size + 1 + 3 * (n + d) <= allow.steps
          /\ kind.func # "user" => Cardinality(ns.used) < allow.extended
      BY <1>2 DEF Fits
    <2>. QED
      BY <1>1, <2>1, OneUnused
  <1>5. allow.steps \in Nat /\ allow.steps < MaxSteps /\ MaxSteps \in Nat /\ ns.size \in Nat
    BY <1>1, Bounds, InstanceTypes DEF Roomy
  <1>6. ns.size + 1 < MaxSteps
    BY <1>3, <1>4, <1>5
  <1>7. Allocated(ns, ns', s, ns.last, kind.func)
        /\ (Plain(ns, ns', s) \/ Extended(ns, ns', s))
    BY <1>1, <1>2, <1>4, <1>6, StepAdded
  <1>8. Innermost(ns)
    <2>1. CASE pc = "idle" /\ ns.size = 0
      <3>1. \A x \in Slot : ~InQueue(ns, x)
        <4>1. \A x \in Slot : Offset(ns, x) \in 0 .. MaxSteps - 1
                              /\ (InQueue(ns, x) <=> Offset(ns, x) < 0)
          BY <1>1, <2>1, SlotInRing
        <4>. QED
          BY <4>1
      <3>2. \A x \in Runs(ns, ns.size, ns.last) : x \in Slot /\ InQueue(ns, x)
        <4>1. Tree(Part(ns, ns.size), Marks(ns), ns.last) /\ ns.size \in 0 .. ns.size
          BY <1>1, WholePart
        <4>. QED
          BY <1>1, <4>1, RunsBelowTip
      <3>3. Between(ns)
        BY <2>1 DEF Res
      <3>. QED
        BY <3>1, <3>2, <3>3 DEF Between, OwnersOrNext, Innermost, OwnersIn
    <2>2. CASE pc \in {"handler", "on_error", "build"}
      BY <2>2 DEF Res
    <2>. QED
      BY <2>1, <2>2 DEF Add
  <1>9. Innermost(ns')
    BY <1>1, <1>7, <1>8, AddedRes
  <1>10. pc' \in {"build", "handler", "on_error"}
    BY DEF Add
  <1>. QED
    BY <1>9, <1>10 DEF Res

\* setCancel(), waitExternal()
LEMMA WaitRes ==
    ASSUME TreeInv, Res(ns, pc, cur), Wait
    PROVE  Res(ns', pc', cur')
  <1>1. pc = "handler" /\ pc' = pc /\ ~ns.queue[ns.last].cancel
    BY DEF Wait, Mine
  <1>2. /\ ns \in Instance /\ Running(ns, allow) /\ allow \in Mixes /\ ns.last \in Slot
        /\ ns.queue[ns.last] \in StepData
    BY <1>1, InHandler
  <1>3. Innermost(ns)
    BY <1>1 DEF Res
  <1>4. CASE ns' = WaitExternal(ns)
    <2> DEFINE step == [ns.queue[ns.last] EXCEPT !.wait = TRUE]
    <2>1. TweakedOnly(ns, ns', ns.last, step, ns.timeouts, ns.armed, ns.cancels, ns.allocs)
      BY <1>2, <1>4, WaitSet
    <2>2. /\ SameMarks(ns.queue[ns.last], step)
          /\ step.extended = ns.queue[ns.last].extended /\ step.ext = ns.queue[ns.last].ext
          /\ step.timeout = ns.queue[ns.last].timeout /\ step.cancel = ns.queue[ns.last].cancel
          /\ step.allocs = ns.queue[ns.last].allocs
      BY <1>2 DEF StepData, SameMarks
    <2> HIDE DEF step
    <2>3. Innermost(ns')
      BY <1>2, <1>3, <2>1, <2>2, PlainSet
    <2>. QED
      BY <1>1, <2>3 DEF Res
  <1>5. CASE /\ Len(ns.cancels) + Cardinality(SyncsToRun) < MaxCancels
             /\ ns' = SetCancel(ns, FALSE)
    <2> DEFINE step == [ns.queue[ns.last] EXCEPT !.cancel = TRUE]
               cancels == Append(ns.cancels, [step |-> ns.last, unlock |-> FALSE])
    <2>1. SyncsToRun = Syncs(ns)
      BY DEF SyncsToRun, Syncs, Alive
    <2>2. Cardinality(Syncs(ns)) \in Nat /\ Len(ns.cancels) \in Nat /\ MaxCancels \in Nat
      BY <1>2, SyncsCounted, InstanceTypes, Bounds
    <2>3. Len(ns.cancels) + 1 + Cardinality(Syncs(ns)) <= MaxCancels
      BY <1>5, <2>1, <2>2
    <2>4. TweakedOnly(ns, ns', ns.last, step, ns.timeouts, ns.armed, cancels, ns.allocs)
      BY <1>2, <1>5, <2>3, CancelSet
    <2>5. /\ SameMarks(ns.queue[ns.last], step) /\ step.cancel
          /\ step.extended = ns.queue[ns.last].extended /\ step.ext = ns.queue[ns.last].ext
          /\ step.timeout = ns.queue[ns.last].timeout
          /\ step.allocs = ns.queue[ns.last].allocs
      BY <1>2 DEF StepData, SameMarks
    <2> HIDE DEF step
    <2>6. LastOwner(ns, ns.last) /\ Whole(ns) /\ OwnersIn(ns, ns.size, ns.last)
      <3>1. Tree(Part(ns, ns.size), Marks(ns), ns.last) /\ ns.size \in 0 .. ns.size
        BY <1>2, WholePart DEF Running
      <3>. QED
        BY <1>2, <1>3, <3>1, TipLastOwner DEF Innermost
    <2>7. Whole(ns') /\ \A x \in Slot : Owner(ns', x) => Owner(ns, x) \/ x = ns.last
      BY <1>1, <1>2, <2>4, <2>5, <2>6, CancelPushed
    <2> HIDE DEF cancels
    <2>9. Innermost(ns')
      BY <1>2, <2>4, <2>5, <2>6, <2>7, TipKeeps
    <2>. QED
      BY <1>1, <2>9 DEF Res
  <1>. QED
    BY <1>4, <1>5 DEF Wait

\* setTimeout()
LEMMA SetTimeoutRes ==
    ASSUME TreeInv, Res(ns, pc, cur), SetTimeout
    PROVE  Res(ns', pc', cur')
  <1>1. pc = "handler" /\ pc' = pc /\ ~ns.queue[ns.last].timeout
    BY DEF SetTimeout, Mine
  <1>2. /\ ns \in Instance /\ Running(ns, allow) /\ ns.last \in Slot
        /\ allow \in Mixes /\ ns.queue[ns.last] \in StepData
        /\ ns.queue[ns.last].repeat => ns.queue[ns.last].func \in {"loop", "await"}
    BY <1>1, InHandler
  <1>3. Innermost(ns)
    BY <1>1 DEF Res
  <1>5. PICK t \in Timer :
          ns' = [ns EXCEPT !.timeouts = Append(@, [step |-> ns.last, timer |-> t]),
                           !.armed = @ \cup {t},
                           !.queue[ns.last].timeout = TRUE]
    BY DEF SetTimeout
  <1> DEFINE timeouts == Append(ns.timeouts, [step |-> ns.last, timer |-> t])
             armed == ns.armed \cup {t}
             step == [ns.queue[ns.last] EXCEPT !.timeout = TRUE]
  <1>6. /\ ns.timeouts \in Seq([step : Slot, timer : Timer]) /\ ns.armed \in SUBSET Timer
        /\ ns.cancels \in Seq([step : Slot, unlock : BOOLEAN]) /\ ns.allocs \in Seq(Slot)
        /\ Len(ns.timeouts) \in Nat /\ Len(ns.cancels) \in Nat /\ Len(ns.allocs) \in Nat
        /\ MaxTimeouts \in Nat
    BY <1>2, InstanceTypes, Bounds
  <1>7. /\ timeouts \in Seq([step : Slot, timer : Timer]) /\ armed \in SUBSET Timer
        /\ Len(timeouts) <= MaxTimeouts
    <2>1. [step |-> ns.last, timer |-> t] \in [step : Slot, timer : Timer]
      BY <1>2
    <2>2. Len(ns.timeouts) < MaxTimeouts
      BY DEF SetTimeout
    <2>3. /\ timeouts \in Seq([step : Slot, timer : Timer])
          /\ Len(timeouts) = Len(ns.timeouts) + 1
      BY <1>6, <2>1
    <2>. QED
      BY <1>6, <2>2, <2>3
  <1>8. /\ step \in StepData /\ SameMarks(ns.queue[ns.last], step) /\ step.timeout
        /\ (step.repeat => step.func \in {"loop", "await"})
        /\ step.extended = ns.queue[ns.last].extended /\ step.ext = ns.queue[ns.last].ext
        /\ step.cancel = ns.queue[ns.last].cancel
        /\ step.allocs = ns.queue[ns.last].allocs
    BY <1>2 DEF StepData, SameMarks
  <1>9. Tweaked(ns, ns', ns.last, step, timeouts, armed, ns.cancels, ns.allocs)
    BY <1>2, <1>5 DEF Tweaked, Instance
  <1> HIDE DEF step
  <1>10. Len(ns.cancels) <= Len(ns.cancels) /\ Len(ns.allocs) <= Len(ns.allocs)
    BY <1>6
  <1>11. TweakedOnly(ns, ns', ns.last, step, timeouts, armed, ns.cancels, ns.allocs)
    <2> HIDE DEF timeouts, armed
    <2>. QED
      BY <1>2, <1>6, <1>7, <1>8, <1>9, <1>10, TipTweaked
  <1>12. LastOwner(ns, ns.last) /\ Whole(ns) /\ OwnersIn(ns, ns.size, ns.last)
    <2>1. Tree(Part(ns, ns.size), Marks(ns), ns.last) /\ ns.size \in 0 .. ns.size
      BY <1>2, WholePart DEF Running
    <2>. QED
      BY <1>2, <1>3, <2>1, TipLastOwner DEF Innermost
  <1>13. Whole(ns') /\ \A x \in Slot : Owner(ns', x) => Owner(ns, x) \/ x = ns.last
    <2>1. ns \in Instance /\ ns.last \in Slot
      BY <1>2
    <2>. QED
      BY <1>1, <1>8, <1>11, <1>12, <2>1, TimerPushed
  <1> HIDE DEF timeouts, armed
  <1>14. Innermost(ns')
    BY <1>2, <1>8, <1>11, <1>12, <1>13, TipKeeps
  <1>. QED
    BY <1>1, <1>14 DEF Res

\* stack()
LEMMA StackRes ==
    ASSUME TreeInv, Res(ns, pc, cur), Stack
    PROVE  Res(ns', pc', cur')
  <1>1. pc = "handler" /\ pc' = pc
    BY DEF Stack
  <1>2. /\ ns \in Instance /\ Running(ns, allow) /\ ns.last \in Slot
        /\ allow \in Mixes /\ ns.queue[ns.last] \in StepData
        /\ ns.queue[ns.last].repeat => ns.queue[ns.last].func \in {"loop", "await"}
    BY <1>1, InHandler
  <1>3. Innermost(ns)
    BY <1>1 DEF Res
  <1> DEFINE n == ns.queue[ns.last].allocs + 1
             step == [ns.queue[ns.last] EXCEPT !.allocs = n]
             allocs == Append(ns.allocs, ns.last)
  <1>4. /\ ns.timeouts \in Seq([step : Slot, timer : Timer]) /\ ns.armed \in SUBSET Timer
        /\ ns.cancels \in Seq([step : Slot, unlock : BOOLEAN]) /\ ns.allocs \in Seq(Slot)
        /\ Len(ns.timeouts) \in Nat /\ Len(ns.cancels) \in Nat /\ Len(ns.allocs) \in Nat
        /\ MaxStackAllocs \in Nat
    BY <1>2, InstanceTypes, Bounds
  <1>5. allocs \in Seq(Slot) /\ Len(allocs) <= MaxStackAllocs
    <2>1. Len(ns.allocs) < MaxStackAllocs
      BY DEF Stack
    <2>2. allocs \in Seq(Slot) /\ Len(allocs) = Len(ns.allocs) + 1
      BY <1>2, <1>4
    <2>. QED
      BY <1>4, <2>1, <2>2
  <1>6. n \in Nat
    <2>1. ns.queue[ns.last].allocs \in Nat
      BY <1>2 DEF StepData
    <2>. QED
      BY <2>1
  <1>7. Tweaked(ns, ns', ns.last, step, ns.timeouts, ns.armed, ns.cancels, allocs)
    BY <1>2 DEF Tweaked, Instance, Stack
  <1>8. n = ns.queue[ns.last].allocs + 1
    OBVIOUS
  <1> HIDE DEF n
  <1>9. /\ step \in StepData /\ SameMarks(ns.queue[ns.last], step)
        /\ (step.repeat => step.func \in {"loop", "await"})
        /\ step.extended = ns.queue[ns.last].extended /\ step.ext = ns.queue[ns.last].ext
        /\ step.cancel = ns.queue[ns.last].cancel
        /\ step.timeout = ns.queue[ns.last].timeout /\ step.allocs = n
    BY <1>2, <1>6 DEF StepData, SameMarks
  <1> HIDE DEF step
  <1>10. Len(ns.cancels) <= Len(ns.cancels) /\ Len(ns.timeouts) <= Len(ns.timeouts)
    BY <1>4
  <1>11. TweakedOnly(ns, ns', ns.last, step, ns.timeouts, ns.armed, ns.cancels, allocs)
    <2> HIDE DEF allocs
    <2>. QED
      BY <1>2, <1>4, <1>5, <1>7, <1>9, <1>10, TipTweaked
  <1>12. LastOwner(ns, ns.last) /\ Whole(ns) /\ OwnersIn(ns, ns.size, ns.last)
    <2>1. Tree(Part(ns, ns.size), Marks(ns), ns.last) /\ ns.size \in 0 .. ns.size
      BY <1>2, WholePart DEF Running
    <2>. QED
      BY <1>2, <1>3, <2>1, TipLastOwner DEF Innermost
  <1>13. Whole(ns') /\ \A x \in Slot : Owner(ns', x) => Owner(ns, x) \/ x = ns.last
    <2>1. ns \in Instance /\ ns.last \in Slot
      BY <1>2
    <2>3. \/ allocs = Append(ns.allocs, ns.last) /\ step.allocs = ns.queue[ns.last].allocs + 1
          \/ allocs = Drop(ns.allocs, ns.queue[ns.last].allocs) /\ step.allocs = 0
      BY <1>8, <1>9
    <2> HIDE DEF allocs
    <2>2. /\ step.extended = ns.queue[ns.last].extended /\ step.ext = ns.queue[ns.last].ext
          /\ step.cancel = ns.queue[ns.last].cancel
          /\ step.timeout = ns.queue[ns.last].timeout
      BY <1>9
    <2>. QED
      BY <1>11, <1>12, <2>1, <2>2, <2>3, AllocsTweaked
  <1> HIDE DEF allocs
  <1>15. Innermost(ns')
    BY <1>2, <1>9, <1>11, <1>12, <1>13, TipKeeps
  <1>. QED
    BY <1>1, <1>15 DEF Res

\* The handler returns, or fails.
LEMMA EndHandlerRes ==
    ASSUME TreeInv, Res(ns, pc, cur), EndHandler
    PROVE  Res(ns', pc', cur')
  <1>1. /\ ns \in Instance /\ Running(ns, allow) /\ allow \in Mixes /\ ns.last \in Slot
        /\ Innermost(ns)
    BY InHandler DEF EndHandler, Res
  <1>2. \/ Returned(ns)
        \/ SubEmpty(ns, ns.last) /\ Succeed(ns)
        \/ \E code \in Codes : Raise(ns, code)
    BY DEF EndHandler, NoSubs
  <1>3. CASE Returned(ns)
    BY <1>1, <1>3, ReturnedRes
  <1>4. CASE SubEmpty(ns, ns.last) /\ Succeed(ns)
    BY <1>1, <1>4, SucceedRes DEF Running
  <1>5. ASSUME NEW code \in Codes, Raise(ns, code)
        PROVE  Res(ns', pc', cur')
    <2>1. code \in {"", "Timeout", "Error", "break", "continue"}
      BY DEF Codes
    <2>. QED
      BY <1>1, <1>5, <2>1, RaiseRes
  <1>. QED
    BY <1>2, <1>3, <1>4, <1>5

\* execute()
LEMMA ExecuteRes ==
    ASSUME TreeInv, Res(ns, pc, cur), Execute
    PROVE  Res(ns', pc', cur')
  <1>1. ns \in Instance /\ pc = "build"
    BY Here DEF Execute
  <1>2. ns' = Scheduled(ns) /\ pc' = "idle"
    BY DEF Execute
  <1>3. Between(ns)
    BY <1>1, InnermostBetween DEF Res
  <1>4. SameQueue(ns, ns') /\ ns'.last = ns.last /\ ns'.armed = ns.armed
    BY <1>1, <1>2, MembersRes
  <1>5. Between(ns')
    BY <1>1, <1>3, <1>4, SameInnermost
  <1>. QED
    BY <1>2, <1>5 DEF Res

\* A burst begins
LEMMA BeginRes ==
    ASSUME TreeInv, Res(ns, pc, cur), BeginBurst
    PROVE  Res(ns', pc', cur')
  <1>1. ns \in Instance /\ pc = "idle"
    BY Here DEF BeginBurst
  <1> DEFINE n == ns.runs - 1
             r == [ns EXCEPT !.in_exec = TRUE, !.handle = FALSE, !.runs = n]
  <1>2. ns' = r /\ pc' = "exec"
    BY DEF BeginBurst
  <1>3. n \in Nat
    <2>1. ns.runs \in Nat /\ ns.runs > 0
      BY <1>1, InstanceTypes DEF BeginBurst
    <2>. QED
      BY <2>1
  <1> HIDE DEF n
  <1>4. SameQueue(ns, r) /\ r.last = ns.last /\ r.armed = ns.armed
    BY <1>1, <1>3, MembersSet DEF Instance
  <1> HIDE DEF r
  <1>5. Between(ns)
    BY <1>1 DEF Res
  <1>6. Between(r)
    BY <1>1, <1>4, <1>5, SameInnermost
  <1>. QED
    BY <1>2, <1>6 DEF Res

\* and ends.
LEMMA EndRes ==
    ASSUME TreeInv, Res(ns, pc, cur), EndBurst
    PROVE  Res(ns', pc', cur')
  <1>1. ns \in Instance /\ pc = "exec"
    BY Here DEF EndBurst
  <1> DEFINE q == [ns EXCEPT !.in_exec = FALSE]
  <1>2. (ns' = q \/ ns' = Scheduled(q)) /\ pc' = "idle"
    BY DEF EndBurst
  <1>3. SameQueue(ns, q) /\ q.last = ns.last /\ q.armed = ns.armed
    BY <1>1, MembersSet DEF Instance
  <1> HIDE DEF q
  <1>4. Between(ns)
    BY <1>1 DEF Res
  <1>5. Between(q) /\ q \in Instance
    BY <1>1, <1>3, <1>4, SameInnermost DEF SameQueue
  <1>6. SameQueue(q, Scheduled(q)) /\ Scheduled(q).last = q.last
        /\ Scheduled(q).armed = q.armed
    BY <1>5, MembersRes
  <1>7. Between(Scheduled(q))
    BY <1>5, <1>6, SameInnermost
  <1>. QED
    BY <1>2, <1>5, <1>7 DEF Res

\* cancel() begins where no loop is the next step
LEMMA CancelRes ==
    ASSUME TreeInv, Res(ns, pc, cur), Disciplined, Cancel
    PROVE  Res(ns', pc', cur')
  <1>1. /\ allow \in Mixes /\ ns \in Instance /\ ns.last \in Slot \cup {None}
        /\ TreeOf(ns, ns.last) /\ pc = "idle"
    BY Here DEF Cancel
  <1> DEFINE n == IF ns.handle THEN ns.runs - 1 ELSE ns.runs
             r == [ns EXCEPT !.handle = FALSE, !.runs = n]
  <1>2. ns' = r /\ pc' = "cancel"
    BY DEF Cancel
  <1>3. n \in Nat
    <2>1. ns.runs \in Nat /\ (ns.handle => ns.runs > 0)
      BY <1>1, InstanceTypes DEF TreeInv, Others
    <2>. QED
      BY <2>1
  <1> HIDE DEF n
  <1>4. SameQueue(ns, r) /\ r.last = ns.last /\ r.armed = ns.armed
    BY <1>1, <1>3, MembersSet DEF Instance
  <1> HIDE DEF r
  <1>5. ~ns.queue[NextOf(ns, ns.last)].ran
    <2>1. "cancel_loop" \notin allow.may
      BY <1>1 DEF Disciplined
    <2>. QED
      BY <2>1 DEF Cancel, NextStep, NextOf
  <1>6. Innermost(ns)
    BY <1>1, <1>5 DEF Res, Between, Innermost, OwnersOrNext, OwnersIn
  <1>7. Innermost(r)
    BY <1>1, <1>4, <1>6, SameInnermost
  <1>8. Tree(Part(r, r.size), Marks(r), r.last) /\ r.size \in 0 .. r.size
    <2>1. r \in Instance /\ TreeOf(r, r.last)
      BY <1>1, <1>4, QueueStays
    <2>. QED
      BY <2>1, WholePart
  <1>9. Canceling(r)
    BY <1>7, <1>8 DEF Innermost, Canceling
  <1>. QED
    BY <1>2, <1>9 DEF Res

\* and goes on with the parent: what is released is the innermost step's.
LEMMA CancelLevelRes ==
    ASSUME TreeInv, Res(ns, pc, cur), CancelLevel
    PROVE  Res(ns', pc', cur')
  <1> DEFINE tip == ns.last
             up == ns.queue[tip].parent
             f == FreeStep(ns, tip)
             r == [f EXCEPT !.last = up]
  <1>1. /\ allow \in Mixes /\ ns \in Instance /\ Sound(ns, allow) /\ tip \in Slot
    BY Here DEF CancelLevel
  <1>2. ns' = r /\ pc' = "cancel" /\ pc = "cancel"
    BY DEF CancelLevel
  <1>3. Whole(ns)
        /\ \E n \in 0 .. ns.size : Tree(Part(ns, n), Marks(ns), tip) /\ OwnersIn(ns, n, tip)
    BY <1>2 DEF Res, Canceling
  <1>4. PICK n \in 0 .. ns.size : Tree(Part(ns, n), Marks(ns), tip) /\ OwnersIn(ns, n, tip)
    BY <1>3
  <1> DEFINE k == Marks(ns)[tip].start
  <1>5. /\ k \in 0 .. n /\ up \in Slot \cup {None}
        /\ Runs(ns, n, tip) \ {tip} \subseteq Runs(ns, k, up)
        /\ Tree(Part(ns, k), Marks(ns), up)
    BY <1>1, <1>4, RunsCut
  <1>6. ns.size \in Nat /\ k \in 0 .. ns.size
    <2>1. ns.size \in Nat
      BY <1>1, InstanceTypes
    <2>. QED
      BY <1>5, <2>1
  <1>7. Freed(ns, f, tip)
    BY <1>1, StepFreed
  <1>8. LastOwner(ns, tip)
    BY <1>1, <1>4, TipLastOwner
  <1> HIDE DEF f, up, k
  <1>9. Whole(f) /\ \A s \in Slot : Owner(f, s) <=> Owner(ns, s) /\ s # tip
    BY <1>1, <1>3, <1>7, <1>8, FreedWhole
  <1>10. SameTree(ns, f) /\ f \in Instance
    <2>1. Sound(f, allow) /\ SameTree(ns, f)
      BY <1>1, <1>7, FreedKeeps
    <2>. QED
      BY <1>7, <2>1 DEF Freed
  <1>11. SameQueue(f, r) /\ r.last = up /\ r.armed = f.armed
    BY <1>5, <1>10, MembersRes
  <1> HIDE DEF r
  <1>12. r \in Instance /\ r.size = f.size /\ Marks(r) = Marks(f) /\ Part(r, k) = Part(f, k)
    BY <1>6, <1>10, <1>11, QueueStays
  <1>13. Marks(f) = Marks(ns) /\ Ring(f) = Ring(ns) /\ f.size = ns.size
    BY <1>1, <1>10, TreeStays DEF SameTree
  <1>14. Tree(Part(r, k), Marks(r), r.last) /\ k \in 0 .. r.size
    BY <1>5, <1>6, <1>11, <1>12, <1>13 DEF Part
  <1>15. OwnersIn(f, k, up)
    <2>1. \A s \in Slot : Owner(f, s) => s \in Runs(ns, k, up)
      BY <1>4, <1>5, <1>9 DEF OwnersIn
    <2>2. Runs(f, k, up) = Runs(ns, k, up)
      BY <1>10 DEF SameTree, Runs, Offset
    <2>. QED
      BY <2>1, <2>2 DEF OwnersIn
  <1>16. OwnersIn(r, k, r.last) /\ Whole(r)
    BY <1>9, <1>10, <1>11, <1>15, SameRes
  <1>19. Canceling(r)
    BY <1>14, <1>16 DEF Canceling
  <1>. QED
    BY <1>2, <1>19 DEF Res

\* With no step running, nothing is left when the queue is reset.
LEMMA ResetRes ==
    ASSUME TreeInv, Res(ns, pc, cur), CancelEnd \/ UnwindRoot
    PROVE  Res(ns', pc', cur')
  <1>1. ns \in Instance
    BY Here
  <1>2. /\ ns.last = None /\ ns' = Reset(ns) /\ pc' \in {"exec", "idle"}
        /\ pc \in {"cancel", "unwind"}
    <2>1. CASE CancelEnd
      BY <2>1 DEF CancelEnd
    <2>2. CASE UnwindRoot
      BY <2>2 DEF UnwindRoot, Return, TreeInv, Walk, Control
    <2>. QED
      BY <2>1, <2>2
  <1>3. Whole(ns) /\ \E n \in 0 .. ns.size : Tree(Part(ns, n), Marks(ns), None)
                                             /\ OwnersIn(ns, n, None)
    <2>1. CASE pc = "cancel"
      BY <1>2, <2>1 DEF Res, Canceling
    <2>2. CASE pc = "unwind"
      <3>1. TreeOf(ns, None)
        BY <1>2, <2>2 DEF TreeInv, Walk, TreeThere
      <3>2. Tree(Part(ns, ns.size), Marks(ns), None) /\ ns.size \in 0 .. ns.size
        BY <1>1, <3>1, WholePart
      <3>. QED
        BY <1>2, <2>2, <3>2 DEF Res, Innermost
    <2>. QED
      BY <1>2, <2>1, <2>2
  <1>4. \A s \in Slot : ~Owner(ns, s)
    BY <1>1, <1>3, NoTipNoOwner
  <1>5. ns.cancels = <<>> /\ ns.allocs = <<>> /\ ns.armed = {}
    BY <1>1, <1>3, <1>4, NobodyStacks DEF Whole
  <1> DEFINE r == Reset(ns)
  <1>6. Emptied(ns, r)
    BY <1>1, QueueReset
  <1> HIDE DEF r
  <1>7. \A s \in Slot : ~Owner(r, s) /\ ~r.queue[s].extended
    <2>1. \A s \in Slot : ns.queue[s] \in StepData /\ r.queue[s] = Left(ns.queue[s])
      BY <1>1, <1>6, InstanceTypes DEF Emptied
    <2>2. \A s \in Slot : ~r.queue[s].timeout /\ ~r.queue[s].cancel
                          /\ ~r.queue[s].extended /\ r.queue[s].allocs = ns.queue[s].allocs
      BY <2>1, LeftData
    <2>. QED
      BY <1>4, <2>2 DEF Owner, Claims
  <1>8. ExtendedApart(r)
    <2>1. r.used = ns.used /\ r.lost = ns.lost \cup Unclaimed(ns, Slot)
      BY <1>6 DEF Emptied
    <2>2. /\ ns.lost \subseteq ns.used
          /\ \A s \in Slot : ns.queue[s].extended => ns.queue[s].ext \in ns.used
          /\ \A e \in ns.used \ ns.lost :
                \E s \in Slot : ns.queue[s].extended /\ ns.queue[s].ext = e
      BY <1>3 DEF Whole, ExtendedApart
    <2>3. \A s \in Slot : ns.queue[s].extended => ~ns.queue[s].ran
      BY <1>4 DEF Owner, Claims
    <2>4. Unclaimed(ns, Slot) = {ns.queue[s].ext : s \in {d \in Slot : ns.queue[d].extended}}
      BY <2>3 DEF Unclaimed
    <2>5. r.lost \subseteq r.used /\ r.used \ r.lost = {}
      BY <2>1, <2>2, <2>4
    <2>. QED
      BY <1>7, <2>5 DEF ExtendedApart
  <1>9. Whole(r) /\ OwnersOrNext(r, r.last)
    BY <1>5, <1>6, <1>7, <1>8, NobodyWhole DEF Emptied
  <1>10. Between(r)
    BY <1>9 DEF Between
  <1>. QED
    BY <1>2, <1>10 DEF Res, r

\* The running step no longer asks for an event.
LEMMA UnaskedRes ==
    ASSUME NEW q \in Instance, NEW m \in Mixes, Running(q, m), Innermost(q),
           SubEmpty(q, q.last)
    PROVE  LET r == [q EXCEPT !.queue[q.last].asked = FALSE]
           IN  r \in Instance /\ Running(r, m) /\ Innermost(r) /\ SubEmpty(r, r.last)
  <1> DEFINE r == [q EXCEPT !.queue[q.last].asked = FALSE]
             step == [q.queue[q.last] EXCEPT !.asked = FALSE]
  <1>1. q.last \in Slot /\ q.queue[q.last] \in StepData
    BY InstanceTypes DEF Running
  <1>2. /\ r \in Instance /\ Running(r, m) /\ SameRun(q, r) /\ SameMembers(q, r)
        /\ TweakedOnly(q, r, q.last, step, q.timeouts, q.armed, q.cancels, q.allocs)
    BY AskedSet
  <1>3. /\ SameMarks(q.queue[q.last], step)
        /\ step.extended = q.queue[q.last].extended /\ step.ext = q.queue[q.last].ext
        /\ step.timeout = q.queue[q.last].timeout /\ step.cancel = q.queue[q.last].cancel
        /\ step.allocs = q.queue[q.last].allocs
    BY <1>1 DEF StepData, SameMarks
  <1> HIDE DEF r, step
  <1>4. Innermost(r)
    BY <1>1, <1>2, <1>3, PlainSet
  <1>5. SubEmpty(r, r.last)
    BY <1>1, <1>2, RunStays, NoneIsNoSlot DEF SameMembers
  <1>. QED
    BY <1>2, <1>4, <1>5 DEF r

\* The event the innermost step waits for.
LEMMA EventRes ==
    ASSUME TreeInv, Res(ns, pc, cur), ExternalEvent
    PROVE  Res(ns', pc', cur')
  <1>1. /\ allow \in Mixes /\ ns \in Instance /\ ns.last # None /\ pc = "idle"
        /\ SubEmpty(ns, ns.last)
    BY Here DEF ExternalEvent, Waiting
  <1>2. Running(ns, allow) /\ ns.last \in Slot
    BY <1>1, Here DEF ExternalEvent
  <1>3. Innermost(ns)
    BY <1>1, <1>2, LeafInnermost DEF Res
  <1> DEFINE q == [ns EXCEPT !.queue[ns.last].asked = FALSE]
  <1>4. Succeed(q) \/ Raise(q, "Error")
    BY DEF ExternalEvent
  <1>5. q \in Instance /\ Running(q, allow) /\ Innermost(q) /\ SubEmpty(q, q.last)
    BY <1>1, <1>2, <1>3, UnaskedRes
  <1> HIDE DEF q
  <1>6. CASE Succeed(q)
    BY <1>5, <1>6, SucceedRes DEF Running
  <1>7. CASE Raise(q, "Error")
    BY <1>5, <1>7, RaiseRes
  <1>. QED
    BY <1>4, <1>6, <1>7

\* success() on another thread
LEMMA ForeignSuccessRes ==
    ASSUME TreeInv, Res(ns, pc, cur), ForeignSuccess
    PROVE  Res(ns', pc', cur')
  <1>1. /\ allow \in Mixes /\ ns \in Instance /\ ns.last # None
        /\ pc \in {"idle", "exec"} /\ pc' = pc /\ SubEmpty(ns, ns.last)
    BY Here DEF ForeignSuccess, Waiting
  <1>2. Running(ns, allow) /\ ns.last \in Slot
    BY <1>1, Here
  <1>3. Innermost(ns)
    BY <1>1, <1>2, LeafInnermost DEF Res
  <1> DEFINE q == [ns EXCEPT !.queue[ns.last].asked = FALSE]
  <1>4. ns' = q
    BY DEF ForeignSuccess
  <1>5. Innermost(q)
    BY <1>1, <1>2, <1>3, UnaskedRes
  <1> HIDE DEF q
  <1>6. Between(q)
    BY <1>5, InnermostBetween
  <1>. QED
    BY <1>1, <1>4, <1>6 DEF Res

\* and its task
LEMMA ForeignTaskRes ==
    ASSUME TreeInv, Res(ns, pc, cur), ForeignTask
    PROVE  Res(ns', pc', cur')
  <1>1. CASE ns.last # None /\ SubEmpty(ns, ns.last)
    <2>1. allow \in Mixes /\ ns \in Instance /\ Running(ns, allow) /\ ns.last \in Slot
          /\ pc = "idle"
      BY <1>1, Here DEF ForeignTask
    <2>2. Innermost(ns)
      BY <1>1, <2>1, LeafInnermost DEF Res
    <2>3. Succeed(ns)
      BY <1>1 DEF ForeignTask
    <2>. QED
      BY <1>1, <2>1, <2>2, <2>3, SucceedRes DEF Running
  <1>2. CASE ~(ns.last # None /\ SubEmpty(ns, ns.last))
    BY <1>2 DEF ForeignTask, Stop
  <1>. QED
    BY <1>1, <1>2

\* A timer fails the step that waits, whichever step has set it.
LEMMA TimerRes ==
    ASSUME TreeInv, Res(ns, pc, cur), Disciplined, NEW t \in Timer, TimerFire(t)
    PROVE  Res(ns', pc', cur')
  <1>1. /\ allow \in Mixes /\ ns \in Instance /\ pc = "idle" /\ t \in ns.armed
        /\ Waiting(ns.last)
    <2>1. allow \in Mixes /\ ns \in Instance
      BY Here
    <2>. QED
      BY <2>1 DEF TimerFire, Disciplined
  <1>2. ns.last \in Slot /\ ns.last # None /\ SubEmpty(ns, ns.last)
    BY <1>1, Here DEF Waiting
  <1>3. Innermost(ns)
    BY <1>1, <1>2, LeafInnermost DEF Res
  <1> DEFINE armed == ns.armed \ {t}
             q == [ns EXCEPT !.armed = armed]
  <1>4. Raise(q, "Timeout")
    BY <1>2 DEF TimerFire
  <1>5. armed \in SUBSET Timer /\ armed \subseteq ns.armed
    BY <1>1, InstanceTypes
  <1> HIDE DEF armed
  <1>6. SameQueue(ns, q) /\ q.last = ns.last /\ q.armed = armed
    BY <1>1, <1>5, MembersSet DEF Instance
  <1> HIDE DEF q
  <1>7. Innermost(q) /\ q \in Instance
    BY <1>1, <1>3, <1>5, <1>6, SameInnermost DEF SameQueue
  <1>. QED
    BY <1>4, <1>7, RaiseRes

\* Sub-steps that own nothing are dropped.
LEMMA CutWhole ==
    ASSUME NEW q \in Instance, Whole(q), NEW t, NEW k, Cut(q, t, k),
           \A s \in Slot : Owner(q, s) => Offset(q, s) < k
    PROVE  /\ t \in Instance /\ Whole(t)
           /\ \A s \in Slot : Owner(t, s) <=> Owner(q, s)
           /\ \A o \in Slot \cup {None} : Runs(q, k, o) \subseteq Runs(t, t.size, o)
  <1>1. /\ t \in Instance /\ t.size = k /\ t.begin = q.begin
        /\ t.timeouts = q.timeouts /\ t.armed = q.armed /\ t.cancels = q.cancels
        /\ t.allocs = q.allocs /\ t.used = q.used
        /\ t.lost = q.lost \cup Unclaimed(q, Behind(q, k))
        /\ \A x \in Slot :
              t.queue[x] = IF k <= Offset(q, x) /\ Offset(q, x) < q.size
                           THEN Left(q.queue[x]) ELSE q.queue[x]
    BY DEF Cut
  <1>2. k \in Nat /\ \A x \in Slot : Offset(q, x) \in Nat /\ Offset(t, x) = Offset(q, x)
    <2>1. MaxSteps \in Nat
      BY Bounds
    <2>. QED
      BY <2>1, CutRing, SlotInRing
  <1>3. ASSUME NEW x \in Slot
        PROVE  /\ t.queue[x].timeout = q.queue[x].timeout
               /\ t.queue[x].cancel = q.queue[x].cancel
               /\ t.queue[x].allocs = q.queue[x].allocs
               /\ Claims(t.queue[x]) <=> Claims(q.queue[x])
    <2>1. q.queue[x] \in StepData
      BY InstanceTypes
    <2>2. CASE k <= Offset(q, x) /\ Offset(q, x) < q.size
      <3>1. ~Owner(q, x)
        BY <1>2, <2>2
      <3>2. t.queue[x] = Left(q.queue[x])
        BY <1>1, <2>2
      <3>3. /\ ~t.queue[x].timeout /\ ~t.queue[x].cancel /\ ~t.queue[x].extended
            /\ t.queue[x].allocs = q.queue[x].allocs
        BY <2>1, <3>2, LeftData
      <3>4. t.queue[x] \in StepData
        BY <2>1, <3>2, LeftData
      <3>. QED
        BY <2>1, <3>1, <3>3, <3>4 DEF Owner, Claims, StepData
    <2>3. CASE ~(k <= Offset(q, x) /\ Offset(q, x) < q.size)
      BY <1>1, <2>3
    <2>. QED
      BY <2>2, <2>3
  <1>4. SameOwners(q, t) /\ SameClaims(q, t)
    BY <1>1, <1>3 DEF SameOwners, SameClaims
  <1>5. Stacks(t) /\ \A s \in Slot : Owner(t, s) <=> Owner(q, s)
    BY <1>1, <1>4, StacksStay DEF Whole
  <1>6. ExtendedApart(t)
    <2> DEFINE gone == Behind(q, k)
               more == Unclaimed(q, gone)
    <2>1. \A x \in Slot : IF x \in gone THEN ~t.queue[x].extended
                                        ELSE t.queue[x] = q.queue[x]
      <3>1. \A x \in Slot : x \in gone <=> k <= Offset(q, x) /\ Offset(q, x) < q.size
        BY DEF Behind
      <3>2. \A x \in Slot : q.queue[x] \in StepData
        BY InstanceTypes
      <3>. QED
        BY <1>1, <3>1, <3>2, LeftData
    <2>2. ExtendedApart(q)
      BY DEF Whole
    <2>3. \A x \in Slot \ gone : InQueue(q, x) => InQueue(t, x)
      <3>1. \A x \in Slot : /\ InQueue(q, x) <=> Offset(q, x) < q.size
                            /\ InQueue(t, x) <=> Offset(t, x) < t.size
        BY <1>1, SlotInRing
      <3>. QED
        BY <1>1, <1>2, <3>1 DEF Behind
    <2>4. \A x \in gone : x \in Slot /\ (q.queue[x].extended => ~q.queue[x].ran)
      <3>1. \A x \in gone : x \in Slot /\ ~(Offset(q, x) < k)
        BY <1>2 DEF Behind
      <3>. QED
        BY <3>1 DEF Owner, Claims
    <2>5. more = {q.queue[x].ext : x \in {d \in gone : q.queue[d].extended}}
      BY <2>4 DEF Unclaimed
    <2>6. t.used = q.used /\ t.lost = q.lost \cup more
      BY <1>1
    <2> HIDE DEF gone, more
    <2>7. t.lost \subseteq t.used
      BY <2>2, <2>4, <2>5, <2>6 DEF ExtendedApart
    <2>8. \A s \in Slot : t.queue[s].extended =>
             /\ InQueue(t, s) /\ t.queue[s].ext \in t.used \ t.lost
             /\ \A x \in Slot : t.queue[x].extended /\ t.queue[x].ext = t.queue[s].ext => x = s
      <3> SUFFICES ASSUME NEW s \in Slot, t.queue[s].extended
                   PROVE  /\ InQueue(t, s) /\ t.queue[s].ext \in t.used \ t.lost
                          /\ \A x \in Slot : t.queue[x].extended
                                              /\ t.queue[x].ext = t.queue[s].ext => x = s
        OBVIOUS
      <3>1. s \notin gone /\ t.queue[s] = q.queue[s]
        BY <2>1
      <3>2. InQueue(t, s) /\ q.queue[s].ext \in q.used \ q.lost
        BY <2>2, <2>3, <3>1 DEF ExtendedApart
      <3>3. q.queue[s].ext \notin more
        BY <2>2, <2>4, <2>5, <3>1 DEF ExtendedApart
      <3>4. \A x \in Slot : t.queue[x].extended /\ t.queue[x].ext = t.queue[s].ext => x = s
        BY <2>1, <2>2, <3>1 DEF ExtendedApart
      <3>. QED
        BY <2>6, <3>1, <3>2, <3>3, <3>4
    <2>9. \A e \in t.used \ t.lost : \E s \in Slot : t.queue[s].extended /\ t.queue[s].ext = e
      <3> SUFFICES ASSUME NEW e \in t.used \ t.lost
                   PROVE  \E s \in Slot : t.queue[s].extended /\ t.queue[s].ext = e
        OBVIOUS
      <3>1. PICK s \in Slot : q.queue[s].extended /\ q.queue[s].ext = e
        BY <2>2, <2>6 DEF ExtendedApart
      <3>2. s \notin gone
        BY <2>5, <2>6, <3>1
      <3>. QED
        BY <2>1, <3>1, <3>2
    <2>. QED
      BY <2>7, <2>8, <2>9 DEF ExtendedApart
  <1>7. ASSUME NEW o \in Slot \cup {None}
        PROVE  Runs(q, k, o) \subseteq Runs(t, t.size, o)
    <2>1. \A x \in Slot : Offset(q, x) < k =>
              Offset(t, x) < t.size /\ t.queue[x].parent = q.queue[x].parent
      <3> SUFFICES ASSUME NEW x \in Slot, Offset(q, x) < k
                   PROVE  Offset(t, x) < t.size /\ t.queue[x].parent = q.queue[x].parent
        OBVIOUS
      <3>1. ~(k <= Offset(q, x))
        BY <1>2
      <3>. QED
        BY <1>1, <1>2, <3>1
    <2>2. o \in Runs(t, t.size, o) \cup {None}
      BY DEF Runs
    <2>. QED
      BY <1>1, <2>1, <2>2, RunsMore
  <1>. QED
    BY <1>1, <1>5, <1>6, <1>7 DEF Whole

\* The step that is next goes away: what is its own is released.
LEMMA ShiftedWhole ==
    ASSUME NEW q \in Instance, Whole(q), NEW s \in Slot, LastOwner(q, s),
           NEW f, Freed(q, f, s), NEW c, NEW r, Shifted(f, r, c)
    PROVE  /\ r \in Instance /\ Whole(r)
           /\ \A x \in Slot : Owner(r, x) <=> Owner(q, x) /\ x # s
           /\ \A n, o : Runs(r, n, o) = Runs(q, n, o)
  <1>1. Whole(f) /\ \A x \in Slot : Owner(f, x) <=> Owner(q, x) /\ x # s
    BY FreedWhole
  <1>2. f \in Instance /\ SameMembers(q, f) /\ SameSteps(q, f)
    BY DEF Freed
  <1>3. r \in Instance /\ SameOwners(f, r) /\ SameClaims(f, r)
    BY DEF Shifted, SameOwners, SameMembers, SameClaims, Claims
  <1>4. Stacks(r) /\ \A x \in Slot : Owner(r, x) <=> Owner(f, x)
    BY <1>1, <1>2, <1>3, StacksStay DEF Whole
  <1>5. ExtendedApart(r)
    <2>1. \A x \in Slot : r.queue[x].extended = f.queue[x].extended
                          /\ r.queue[x].ext = f.queue[x].ext
      BY DEF Shifted
    <2>2. r.used = f.used /\ r.lost = f.lost /\ r.begin = f.begin /\ r.size = f.size
      BY DEF Shifted, SameMembers
    <2>. QED
      BY <1>1, <2>1, <2>2, SamePlaces, ApartStays DEF Whole
  <1>7. \A n, o : Runs(r, n, o) = Runs(q, n, o)
    <2>1. r.begin = q.begin
      BY <1>2 DEF Shifted, SameMembers
    <2>2. \A x \in Slot : r.queue[x].parent = q.queue[x].parent
      BY <1>2 DEF Shifted, SameSteps
    <2>. QED
      BY <2>1, <2>2 DEF Runs, Offset
  <1>. QED
    BY <1>1, <1>3, <1>4, <1>5, <1>7 DEF Whole

\* The flow goes on with what is next.
LEMMA OnwardsRes ==
    ASSUME NEW r \in Instance, NEW c, Whole(r), OwnersOrNext(r, c), NEW t,
           SameQueue(r, t), t.armed = r.armed, t.last = c
    PROVE  Between(t)
  <1>1. Whole(t) /\ OwnersOrNext(t, c)
    BY SameRes
  <1>. QED
    BY <1>1 DEF Between

\* The step that is next has what the running ones have not.
LEMMA NextIsLast ==
    ASSUME NEW q \in Instance, NEW c \in Slot, TreeOf(q, c), OwnersOrNext(q, c)
    PROVE  /\ LastOwner(q, q.queue[c].front)
           /\ \A s \in Runs(q, q.size, c) : Offset(q, s) < Marks(q)[c].start
  <1> DEFINE f == q.queue[c].front
             k == Marks(q)[c].start
  <1>1. Tree(Part(q, q.size), Marks(q), c) /\ q.size \in 0 .. q.size /\ c # None
    BY WholePart, NoneIsNoSlot
  <1>2. k \in 0 .. q.size /\ Offset(q, c) < k
    BY <1>1, RunsCut
  <1>3. k <= Offset(q, f) /\ f \in Slot /\ Offset(q, f) \in Nat
    <2>1. Typed(Ring(q), Marks(q), c) /\ Tree(Ring(q), Marks(q), c)
      BY MarksOf, RingList DEF TreeOf
    <2>2. c \in Path(Ring(q), Marks(q), c) \cup {None}
      BY <1>1 DEF Path
    <2>3. StartOf(Marks(q), c) <= FrontOf(Marks(q), c)
      BY <2>1, <2>2, StartThenFront
    <2>4. f \in Slot /\ Front(q, c) = Offset(q, f) /\ Front(q, c) \in Nat
      BY <1>1, FrontSlot
    <2>. QED
      BY <1>1, <2>3, <2>4 DEF StartOf, Front
  <1>4. \A s \in Slot : Offset(q, s) \in Nat
    <2>1. MaxSteps \in Nat
      BY Bounds
    <2>. QED
      BY <2>1, SlotInRing
  <1>5. \A s \in Runs(q, q.size, c) : s \in Slot /\ Offset(q, s) <= Offset(q, c)
    BY <1>1, RunsBelowTip
  <1> HIDE DEF f, k
  <1>6. \A s \in Runs(q, q.size, c) : Offset(q, s) < k
    BY <1>2, <1>4, <1>5
  <1>7. ASSUME NEW s \in Slot \ {f}, Owner(q, s)
        PROVE  Offset(q, s) < Offset(q, f)
    <2>1. s \in Runs(q, q.size, c)
      BY <1>1, <1>7 DEF OwnersOrNext, NextOf, f
    <2>2. Offset(q, s) < k
      BY <1>6, <2>1
    <2>. QED
      BY <1>2, <1>3, <1>4, <2>2
  <1>. QED
    BY <1>6, <1>7 DEF LastOwner, f, k

\* The sub-steps of c are over: it is what its parent's walk goes on with.
LEMMA LevelLeaves ==
    ASSUME NEW q \in Instance, NEW c \in Slot, TreeOf(q, c),
           NEW r \in Instance, Whole(r), OwnersIn(r, q.size, c),
           r.begin = q.begin, r.size = q.size,
           \A x \in Slot : /\ r.queue[x].parent = q.queue[x].parent
                           /\ r.queue[x].ran = q.queue[x].ran,
           \A x \in Slot \ {c} : r.queue[x].front = q.queue[x].front,
           NEW t, Cut(r, t, Marks(q)[c].start)
    PROVE  Leaving(t, q.queue[c].parent)
  <1> DEFINE k == Marks(q)[c].start
             up == q.queue[c].parent
  <1>1. Tree(Part(q, q.size), Marks(q), c) /\ q.size \in 0 .. q.size /\ c # None
    BY WholePart, NoneIsNoSlot
  <1>2. /\ k \in 0 .. q.size /\ Offset(q, c) < k /\ up \in Slot \cup {None} /\ up # c
        /\ Runs(q, q.size, c) \ {c} \subseteq Runs(q, k, up)
        /\ Tree(Part(q, k), Marks(q), up)
    BY <1>1, RunsCut
  <1>3. \A n, o : Runs(r, n, o) = Runs(q, n, o)
    BY DEF Runs, Offset
  <1>4. \A x \in Slot : Offset(r, x) = Offset(q, x) /\ Offset(q, x) \in Nat
    <2>1. MaxSteps \in Nat
      BY Bounds
    <2>. QED
      BY <2>1, SlotInRing DEF Offset
  <1> HIDE DEF k, up
  <1>5. Cut(r, t, k)
    BY DEF k
  <1>6. ASSUME NEW s \in Slot, Owner(r, s)
        PROVE  Offset(r, s) < k
    <2>1. s \in Runs(q, q.size, c)
      BY <1>3, <1>6 DEF OwnersIn
    <2>2. Offset(q, s) <= Offset(q, c)
      BY <1>1, <2>1, RunsBelowTip
    <2>3. k \in Nat
      BY <1>2
    <2>. QED
      BY <1>2, <1>4, <2>2, <2>3
  <1>7. /\ t \in Instance /\ Whole(t)
        /\ \A s \in Slot : Owner(t, s) <=> Owner(r, s)
        /\ \A o \in Slot \cup {None} : Runs(r, k, o) \subseteq Runs(t, t.size, o)
    BY <1>5, <1>6, CutWhole
  <1>8. t.begin = q.begin /\ \A x \in Slot : /\ InQueue(t, x) <=> Offset(q, x) < k
                                             /\ InQueue(t, x) => t.queue[x] = r.queue[x]
    BY <1>4, <1>5, CutRing DEF Cut
  <1>9. NextOf(t, up) = c /\ InQueue(t, c) /\ t.queue[c].ran
    <2>1. InQueue(t, c) /\ t.queue[c].ran
      <3>1. q.queue[c].ran
        BY TipInUse
      <3>. QED
        BY <1>2, <1>8, <3>1
    <2>2. NextOf(q, up) = c
      <3>1. Front(q, up) < q.size /\ Ring(q)[Front(q, up) + 1] = c
        BY TipIsFront DEF up
      <3>. QED
        BY <1>2, <3>1, FrontSlot DEF NextOf
    <2>3. CASE up = None
      BY <1>8, <2>1, <2>2, <2>3 DEF NextOf
    <2>4. CASE up # None
      <3>1. up \in Slot /\ up \in Runs(q, k, up)
        BY <1>2, <2>4 DEF Runs
      <3>2. Offset(q, up) < k
        BY <1>2, <3>1, RunsBelowTip
      <3>3. t.queue[up] = r.queue[up]
        BY <1>8, <3>1, <3>2
      <3>4. t.queue[up].front = q.queue[up].front
        BY <1>2, <3>1, <3>3
      <3>. QED
        BY <2>1, <2>2, <2>4, <3>4 DEF NextOf
    <2>. QED
      BY <2>3, <2>4
  <1>10. OwnersOrNext(t, up)
    <2> SUFFICES ASSUME NEW s \in Slot, Owner(t, s), s # c
                 PROVE  s \in Runs(t, t.size, up)
      BY <1>9 DEF OwnersOrNext
    <2>1. s \in Runs(q, q.size, c)
      BY <1>3, <1>7 DEF OwnersIn
    <2>2. s \in Runs(r, k, up)
      BY <1>2, <1>3, <2>1
    <2>. QED
      BY <1>2, <1>7, <2>2
  <1>. QED
    BY <1>7, <1>10 DEF Leaving, up

\* The walk up leaves a level, or goes on with its next step.
LEMMA ClimbRes ==
    ASSUME TreeInv, Res(ns, pc, cur), Climb
    PROVE  Res(ns', pc', cur')
  <1> DEFINE c == cur
             f == ns.queue[c].front
             q == ShiftSub(ns, c)
             up == ns.queue[c].parent
             on == [q EXCEPT !.last = c]
  <1>1. /\ allow \in Mixes /\ ns \in Instance /\ Sound(ns, allow) /\ c \in Slot
        /\ c # None
    BY Here DEF Climb
  <1>2. TreeOf(ns, c) /\ Front(ns, c) < ns.size /\ FrontStep(ns, c).ran
    BY DEF TreeInv, Walk, TreeThere, Climbing, Climb
  <1>3. f \in Slot /\ ns.size \in Nat /\ ~SubEmpty(ns, c)
    <2>1. ns.size \in Nat
      BY <1>1, InstanceTypes
    <2>2. f \in Slot /\ (SubEmpty(ns, c) <=> Front(ns, c) = ns.size)
          /\ Front(ns, c) \in Nat
      BY <1>1, <1>2, FrontSlot
    <2>. QED
      BY <1>2, <2>1, <2>2
  <1>4. Whole(ns) /\ OwnersOrNext(ns, c)
    BY DEF Res, Leaving, Climb
  <1>5. LastOwner(ns, f)
    BY <1>1, <1>2, <1>4, NextIsLast
  <1>6. IF SubEmpty(q, c)
        THEN ns' = SubQueueFree(q, c) /\ cur' = up /\ pc' = "climb"
        ELSE /\ ns' = Scheduled(on) /\ cur' = cur
             /\ pc' = IF ns.in_exec THEN "exec" ELSE "idle"
    BY DEF Climb, Return
  <1>7. ASSUME q \in Instance, Whole(q), OwnersOrNext(q, c), ~SubEmpty(q, c)
        PROVE  Res(ns', pc', cur')
    <2>1. ns' = Scheduled(on) /\ pc' \in {"exec", "idle"}
      BY <1>6, <1>7
    <2> HIDE DEF q
    <2>2. SameQueue(q, on) /\ on.last = c /\ on.armed = q.armed /\ on \in Instance
      <3>1. SameQueue(q, on) /\ on.last = c /\ on.armed = q.armed
        BY <1>1, <1>7, MembersRes
      <3>. QED
        BY <3>1 DEF SameQueue
    <2> HIDE DEF on
    <2>3. SameQueue(on, Scheduled(on)) /\ Scheduled(on).last = on.last
          /\ Scheduled(on).armed = on.armed
      BY <2>2, MembersRes
    <2>4. SameQueue(q, ns') /\ ns'.last = c /\ ns'.armed = q.armed
      BY <2>1, <2>2, <2>3 DEF SameQueue
    <2>5. Between(ns')
      BY <1>7, <2>4, OnwardsRes
    <2>. QED
      BY <2>1, <2>5 DEF Res
  <1>8. CASE ns.queue[f].repeat
    <2>1. q = ns
      BY <1>8 DEF ShiftSub
    <2>. QED
      BY <1>1, <1>3, <1>4, <1>7, <2>1
  <1>9. CASE ~ns.queue[f].repeat
    <2> DEFINE g == FreeStep(ns, f)
    <2>1. Freed(ns, g, f)
      BY <1>1, <1>3, StepFreed
    <2>2. Shifted(g, q, c)
      BY <1>1, <1>9, FrontShifted
    <2> HIDE DEF g, f
    <2>3. /\ q \in Instance /\ Whole(q)
          /\ \A x \in Slot : Owner(q, x) <=> Owner(ns, x) /\ x # f
          /\ \A n, o : Runs(q, n, o) = Runs(ns, n, o)
      BY <1>1, <1>3, <1>4, <1>5, <2>1, <2>2, ShiftedWhole
    <2>4. /\ SameMembers(ns, q)
          /\ \A x \in Slot : /\ q.queue[x].parent = ns.queue[x].parent
                             /\ q.queue[x].start = ns.queue[x].start
                             /\ q.queue[x].ran = ns.queue[x].ran
          /\ \A x \in Slot \ {c} : q.queue[x].front = ns.queue[x].front
      BY <1>1, <1>2, <1>9, ShiftedFront DEF f
    <2>5. q.begin = ns.begin /\ q.size = ns.size
      BY <2>4 DEF SameMembers
    <2>6. NextOf(ns, c) = f
      BY <1>1 DEF NextOf, f
    <2>8. OwnersIn(q, ns.size, c)
      BY <1>4, <2>3, <2>6 DEF OwnersOrNext, OwnersIn
    <2>9. CASE ~SubEmpty(q, c)
      <3>1. OwnersOrNext(q, c)
        BY <2>5, <2>8 DEF OwnersIn, OwnersOrNext
      <3>. QED
        BY <1>7, <2>3, <2>9, <3>1
    <2>10. CASE SubEmpty(q, c)
      <3> DEFINE k == Marks(ns)[c].start
                 t == SubQueueFree(q, c)
      <3>1. ns' = t /\ cur' = up /\ pc' = "climb"
        BY <1>6, <2>10
      <3> HIDE DEF q
      <3>2. k \in 0 .. q.size
        <4>1. Tree(Part(ns, ns.size), Marks(ns), c) /\ ns.size \in 0 .. ns.size
          BY <1>1, <1>2, WholePart
        <4>. QED
          BY <1>1, <2>5, <4>1, RunsCut
      <3>3. Offset(q, q.queue[c].start) = k
        BY <1>1, <2>4, <2>5, MarksOf DEF Offset
      <3> HIDE DEF k
      <3>4. Cut(q, t, k)
        BY <1>1, <2>3, <3>2, <3>3, SubFreed
      <3> HIDE DEF t
      <3>5. Cut(q, t, Marks(ns)[c].start)
        BY <3>4 DEF k
      <3>6. Leaving(t, ns.queue[c].parent)
        BY <1>1, <1>2, <2>3, <2>4, <2>5, <2>8, <3>5, LevelLeaves
      <3>. QED
        BY <3>1, <3>6 DEF Res
    <2>. QED
      BY <2>9, <2>10
  <1>. QED
    BY <1>8, <1>9

\* The ring without its first step.
LEMMA PlacesShifted ==
    ASSUME NEW f \in Instance, NEW r \in Instance, r.begin = (f.begin + 1) % MaxSteps,
           r.size = f.size - 1
    PROVE  \A s \in Slot \ {f.begin} : InQueue(f, s) => InQueue(r, s)
  <1> SUFFICES ASSUME NEW s \in Slot \ {f.begin}, InQueue(f, s) PROVE InQueue(r, s)
    OBVIOUS
  <1>1. /\ MaxSteps \in Nat \ {0} /\ s \in 0 .. MaxSteps - 1 /\ f.begin \in 0 .. MaxSteps - 1
        /\ f.size \in Nat /\ s # f.begin
    BY Bounds, InstanceTypes DEF Slot
  <1>2. (s - f.begin) % MaxSteps = IF s < f.begin THEN s - f.begin + MaxSteps ELSE s - f.begin
    BY <1>1
  <1>3. r.begin = IF f.begin = MaxSteps - 1 THEN 0 ELSE f.begin + 1
    BY <1>1
  <1>4. (s - r.begin) % MaxSteps = ((s - f.begin) % MaxSteps) - 1
    <2>1. CASE f.begin = MaxSteps - 1
      BY <1>1, <1>2, <1>3, <2>1
    <2>2. CASE f.begin # MaxSteps - 1 /\ s < f.begin
      <3> DEFINE d == s - f.begin - 1
      <3>1. /\ s - r.begin = d /\ d \in Int /\ d + MaxSteps \in 0 .. MaxSteps - 1
            /\ ((s - f.begin) % MaxSteps) - 1 = d + MaxSteps
        BY <1>1, <1>2, <1>3, <2>2
      <3> HIDE DEF d
      <3>2. d % MaxSteps = d + MaxSteps
        BY <1>1, <3>1, SMTT(40)
      <3>. QED
        BY <3>1, <3>2
    <2>3. CASE f.begin # MaxSteps - 1 /\ s > f.begin
      <3> DEFINE d == s - f.begin - 1
      <3>1. s - r.begin = d /\ d \in 0 .. MaxSteps - 1 /\ ((s - f.begin) % MaxSteps) - 1 = d
        BY <1>1, <1>2, <1>3, <2>3
      <3> HIDE DEF d
      <3>2. d % MaxSteps = d
        BY <1>1, <3>1
      <3>. QED
        BY <3>1, <3>2
    <2>. QED
      BY <1>1, <2>1, <2>2, <2>3
  <1>5. (s - f.begin) % MaxSteps \in Int /\ (s - f.begin) % MaxSteps < f.size
    BY <1>1, <1>2 DEF InQueue
  <1>6. (s - r.begin) % MaxSteps < r.size
    BY <1>1, <1>4, <1>5
  <1>. QED
    BY <1>6 DEF InQueue

\* The root step is over, or runs again.
LEMMA ClimbRootRes ==
    ASSUME TreeInv, Res(ns, pc, cur), ClimbRoot
    PROVE  Res(ns', pc', cur')
  <1> DEFINE b == [ns EXCEPT !.last = None]
             r == ShiftRoot(b)
  <1>1. /\ allow \in Mixes /\ ns \in Instance /\ Sound(ns, allow) /\ cur = None
    BY Here DEF ClimbRoot
  <1>2. TreeOf(ns, None) /\ Front(ns, None) < ns.size /\ FrontStep(ns, None).ran
    BY DEF TreeInv, Walk, TreeThere, Climbing, ClimbRoot
  <1>3. /\ ns' = (IF r.size # 0 THEN Scheduled(r) ELSE r)
        /\ pc' \in {"exec", "idle"}
    BY DEF ClimbRoot, Return
  <1>4. Whole(ns) /\ OwnersOrNext(ns, None)
    BY <1>1 DEF Res, Leaving, ClimbRoot
  <1>5. SameQueue(ns, b) /\ b.last = None /\ b.armed = ns.armed
    BY <1>1, MembersRes
  <1> HIDE DEF b
  <1>6. /\ b \in Instance /\ Sound(b, allow) /\ TreeOf(b, None) /\ Front(b, None) < b.size
        /\ FrontStep(b, None).ran
    BY <1>1, <1>2, <1>5, QueueStays
  <1>7. Whole(b) /\ OwnersOrNext(b, None)
    BY <1>1, <1>4, <1>5, SameRes
  <1>8. Front(b, None) = 0 /\ FrontStep(b, None) = b.queue[b.begin] /\ 0 < b.size
        /\ b.begin \in Slot
    <2>1. Front(b, None) = 0
      BY DEF Front, FrontOf
    <2>. QED
      BY <1>6, <2>1, FrontSlot, InstanceTypes
  <1>9. \A s \in Slot : Owner(b, s) => s = b.begin
    <2>1. Tree(Part(b, b.size), Marks(b), None) /\ b.size \in 0 .. b.size
      BY <1>6, WholePart
    <2>2. \A s \in Slot : s \notin Runs(b, b.size, None)
      BY <1>6, <2>1, RunsBelowTip, NoneIsNoSlot
    <2>. QED
      BY <1>7, <2>2 DEF OwnersOrNext, NextOf
  <1>10. r \in Instance /\ Whole(r) /\ OwnersOrNext(r, None) /\ r.last = None
    <2>1. CASE b.queue[b.begin].repeat
      <3>1. r = b
        BY <2>1 DEF ShiftRoot
      <3>. QED
        BY <1>5, <1>6, <1>7, <3>1
    <2>2. CASE ~b.queue[b.begin].repeat
      <3> DEFINE f == FreeStep(b, b.begin)
      <3>1. Freed(b, f, b.begin) /\ RootGone(f, r)
        BY <1>6, <1>8, <2>2, StepFreed, RootShifted
      <3> HIDE DEF f, r
      <3>2. LastOwner(b, b.begin)
        BY <1>9 DEF LastOwner
      <3>3. Whole(f) /\ \A s \in Slot : ~Owner(f, s)
        BY <1>6, <1>7, <1>8, <1>9, <3>1, <3>2, FreedWhole
      <3>4. f \in Instance
        BY <3>1 DEF Freed
      <3>5. f.timeouts = <<>> /\ f.cancels = <<>> /\ f.allocs = <<>> /\ f.armed = {}
        BY <3>3, <3>4, NobodyStacks DEF Whole
      <3>6. /\ r \in Instance /\ r.timeouts = <<>> /\ r.cancels = <<>> /\ r.allocs = <<>>
            /\ r.armed = {} /\ r.used = f.used /\ r.lost = f.lost /\ r.last = f.last
            /\ r.begin = (f.begin + 1) % MaxSteps /\ r.size = f.size - 1
            /\ r.queue[f.begin] = Left(f.queue[f.begin])
            /\ \A x \in Slot \ {f.begin} : r.queue[x] = f.queue[x]
        BY <3>1, <3>5 DEF RootGone
      <3>7. \A s \in Slot : f.queue[s] \in StepData
        BY <3>4, InstanceTypes
      <3>8. ASSUME NEW s \in Slot
            PROVE  ~Owner(r, s)
        <4>1. CASE s = f.begin
          <5>1. /\ ~r.queue[s].timeout /\ ~r.queue[s].cancel /\ ~r.queue[s].extended
                /\ r.queue[s].allocs = f.queue[s].allocs
            BY <3>6, <3>7, <4>1, LeftData
          <5>. QED
            BY <3>3, <5>1 DEF Owner, Claims
        <4>2. CASE s # f.begin
          BY <3>3, <3>6, <4>2 DEF Owner
        <4>. QED
          BY <4>1, <4>2
      <3>9. ExtendedApart(r)
        <4>1. ~f.queue[f.begin].extended /\ ~r.queue[f.begin].extended /\ f.begin \in Slot
          <5>1. f.begin = b.begin /\ ~f.queue[b.begin].extended
            BY <1>8, <3>1 DEF Freed, SameMembers
          <5>. QED
            BY <1>8, <3>6, <3>7, <5>1, LeftData
        <4>2. \A s \in Slot \ {f.begin} : InQueue(f, s) => InQueue(r, s)
          BY <3>4, <3>6, PlacesShifted
        <4>3. \A s \in Slot : /\ r.queue[s].extended <=> f.queue[s].extended
                              /\ f.queue[s].extended => /\ r.queue[s].ext = f.queue[s].ext
                                                        /\ InQueue(f, s) => InQueue(r, s)
          BY <3>6, <4>1, <4>2
        <4>. QED
          BY <3>3, <3>6, <4>3, ApartStays DEF Whole
      <3>10. Whole(r) /\ OwnersOrNext(r, None)
        BY <3>6, <3>8, <3>9, NobodyWhole
      <3>11. f.last = b.last
        BY <3>1 DEF Freed, SameMembers
      <3>. QED
        BY <1>5, <3>6, <3>10, <3>11
    <2>. QED
      BY <2>1, <2>2
  <1> HIDE DEF r
  <1>11. SameQueue(r, ns') /\ ns'.last = None /\ ns'.armed = r.armed
    <2>1. SameQueue(r, Scheduled(r)) /\ Scheduled(r).last = r.last
          /\ Scheduled(r).armed = r.armed
      BY <1>10, MembersRes
    <2>2. SameQueue(r, r)
      BY <1>10 DEF SameQueue
    <2>. QED
      BY <1>3, <1>10, <2>1, <2>2
  <1>12. Between(ns')
    BY <1>10, <1>11, OnwardsRes
  <1>. QED
    BY <1>3, <1>12 DEF Res

\* What handle_error_unwind() leaves of the innermost level: its own objects and
\* extended state.
LEMMA UnwoundRes ==
    ASSUME ns \in Instance, allow \in Mixes, Sound(ns, allow), cur \in Slot,
           ns.last = cur, TreeOf(ns, cur), Innermost(ns)
    PROVE  Innermost(Unwound)
  <1> DEFINE k == Marks(ns)[cur].start
             start == ns.queue[cur].start
             t == SubQueueFree(ns, cur)
             v == Unwound
  <1>1. Tree(Part(ns, ns.size), Marks(ns), cur) /\ ns.size \in 0 .. ns.size
    BY WholePart
  <1>2. /\ k \in 0 .. ns.size /\ Offset(ns, cur) < k
        /\ Runs(ns, ns.size, cur) \subseteq Runs(ns, k, cur)
    BY <1>1, RunsCut
  <1>3. k = Offset(ns, start) /\ start \in Slot
    <2>1. ns.queue[cur] \in StepData
      BY InstanceTypes
    <2>. QED
      BY <2>1, MarksOf DEF StepData
  <1>4. Cut(ns, t, k)
    BY <1>2, <1>3, SubFreed
  <1>5. t \in Instance /\ t.last = ns.last /\ t.begin = ns.begin
    BY <1>4 DEF Cut
  <1>6. UsedUp(t, v, cur, start)
    <2>1. v = PopCancel(PopTimeout([t EXCEPT !.queue[cur].front = start,
                                             !.queue[cur].on_error = "none"], cur), cur)
      BY DEF Unwound
    <2> HIDE DEF t, start, v
    <2>2. UsedUp(t, PopCancel(PopTimeout([t EXCEPT !.queue[cur].front = start,
                                                   !.queue[cur].on_error = "none"], cur), cur),
                 cur, start)
      BY <1>3, <1>5, LevelUsedUp
    <2>. QED
      BY <2>1, <2>2
  <1> HIDE DEF t, v, k, start
  <1>7. Whole(ns) /\ OwnersIn(ns, ns.size, cur)
    BY DEF Innermost
  <1>8. LastOwner(ns, cur)
    BY <1>1, <1>7, TipLastOwner
  <1>9. \A s \in Slot : Offset(ns, s) \in Nat /\ Offset(t, s) = Offset(ns, s)
    <2>1. MaxSteps \in Nat
      BY Bounds
    <2>. QED
      BY <1>5, <2>1, SlotInRing DEF Offset
  <1>10. ASSUME NEW s \in Slot, Owner(ns, s)
         PROVE  Offset(ns, s) < k
    <2>1. Offset(ns, s) <= Offset(ns, cur)
      BY <1>1, <1>7, <1>10, RunsBelowTip DEF OwnersIn
    <2>2. k \in Nat
      BY <1>2
    <2>. QED
      BY <1>2, <1>9, <2>1, <2>2
  <1>11. /\ Whole(t)
         /\ \A s \in Slot : Owner(t, s) <=> Owner(ns, s)
         /\ \A o \in Slot \cup {None} : Runs(ns, k, o) \subseteq Runs(t, t.size, o)
    BY <1>4, <1>7, <1>10, CutWhole
  <1>12. LastOwner(t, cur)
    BY <1>8, <1>9, <1>11 DEF LastOwner
  <1>13. Whole(v) /\ \A s \in Slot : Owner(v, s) => Owner(t, s)
    BY <1>5, <1>6, <1>11, <1>12, UsedUpWhole
  <1>14. Runs(v, v.size, cur) = Runs(t, t.size, cur) /\ v.last = cur
    <2>1. v.begin = t.begin /\ v.size = t.size /\ v.last = t.last
      BY <1>6 DEF UsedUp, SameMembers
    <2>2. \A x \in Slot : v.queue[x].parent = t.queue[x].parent
      BY <1>6 DEF UsedUp
    <2>. QED
      BY <1>5, <2>1, <2>2 DEF Runs, Offset
  <1>15. OwnersIn(v, v.size, v.last)
    <2> SUFFICES ASSUME NEW s \in Slot, Owner(v, s) PROVE s \in Runs(v, v.size, cur)
      BY <1>14 DEF OwnersIn
    <2>1. s \in Runs(ns, ns.size, cur)
      BY <1>7, <1>11, <1>13 DEF OwnersIn
    <2>. QED
      BY <1>2, <1>11, <1>14, <2>1
  <1>. QED
    BY <1>13, <1>15 DEF Innermost, v

\* The next level up gets what is left.
LEMMA UpwardsRes ==
    ASSUME allow \in Mixes, cur \in Slot, NEW q \in Instance, Sound(q, allow),
           TreeOf(q, cur), Marks(q)[cur].start = q.size, q.last = cur,
           q.queue[cur].parent = ns.queue[cur].parent, Innermost(q),
           NEW code \in {"", "Timeout", "Error", "break", "continue"}, Upwards(q, code)
    PROVE  Res(ns', pc', cur')
  <1> DEFINE up == q.queue[cur].parent
             f == FreeStep(q, cur)
             r == [f EXCEPT !.last = up, !.err = code]
  <1>1. ns' = r /\ pc' = "unwind"
    BY DEF Upwards
  <1>2. Tree(Part(q, q.size), Marks(q), cur) /\ q.size \in 0 .. q.size
    BY WholePart
  <1>3. up \in Slot \cup {None} /\ Runs(q, q.size, cur) \ {cur} \subseteq Runs(q, q.size, up)
    BY <1>2, RunsCut
  <1>4. Freed(q, f, cur)
    BY StepFreed
  <1> HIDE DEF f, up
  <1>5. f \in Instance /\ SameMembers(q, f) /\ SameSteps(q, f)
    BY <1>4 DEF Freed
  <1>6. Whole(q) /\ OwnersIn(q, q.size, cur)
    BY DEF Innermost
  <1>7. LastOwner(q, cur)
    BY <1>2, <1>6, TipLastOwner
  <1>8. Whole(f) /\ \A s \in Slot : Owner(f, s) <=> Owner(q, s) /\ s # cur
    BY <1>4, <1>6, <1>7, FreedWhole
  <1>10. OwnersIn(f, f.size, up)
    <2>1. f.begin = q.begin /\ f.size = q.size
      BY <1>5 DEF SameMembers
    <2>2. \A x \in Slot : f.queue[x].parent = q.queue[x].parent
      BY <1>5 DEF SameSteps
    <2>3. Runs(f, f.size, up) = Runs(q, q.size, up)
      BY <2>1, <2>2, ZenonT(60) DEF Runs, Offset
    <2>4. \A s \in Slot : Owner(f, s) => s \in Runs(q, q.size, up)
      BY <1>3, <1>6, <1>8 DEF OwnersIn
    <2>. QED
      BY <2>3, <2>4 DEF OwnersIn
  <1>11. SameQueue(f, r) /\ r.last = up /\ r.armed = f.armed /\ r.size = f.size
    BY <1>3, <1>5, MembersSet DEF Instance
  <1> HIDE DEF r
  <1>12. Whole(r) /\ OwnersIn(r, f.size, up)
    BY <1>5, <1>8, <1>10, <1>11, SameRes
  <1>13. Innermost(r)
    BY <1>11, <1>12 DEF Innermost
  <1>. QED
    BY <1>1, <1>13 DEF Res

\* A level handles the error, or does not.
LEMMA UnwindRes ==
    ASSUME TreeInv, Res(ns, pc, cur), Unwind
    PROVE  Res(ns', pc', cur')
  <1>1. /\ allow \in Mixes /\ ns \in Instance /\ Sound(ns, allow) /\ cur \in Slot
        /\ ns.last = cur /\ TreeOf(ns, cur) /\ Innermost(ns)
        /\ ns.err \in {"", "Timeout", "Error", "break", "continue"}
    <2>1. allow \in Mixes /\ ns \in Instance /\ Sound(ns, allow) /\ cur \in Slot
      BY Here DEF Unwind
    <2>2. ns.last = cur /\ TreeOf(ns, ns.last)
      BY DEF TreeInv, Walk, TreeThere, Control, Unwind
    <2>3. Innermost(ns)
      BY DEF Res, Unwind
    <2>. QED
      BY <2>1, <2>2, <2>3, InstanceTypes
  <1> DEFINE v == Unwound
             again == ns.err # "break"
             q == [v EXCEPT !.err = "", !.queue[cur].repeat = @ /\ again]
  <1>2. /\ v \in Instance /\ Running(v, allow) /\ SubEmpty(v, cur) /\ TreeOf(v, cur)
        /\ Marks(v)[cur].start = v.size /\ v.queue[cur].parent = ns.queue[cur].parent
        /\ v.last = cur /\ v.in_exec = ns.in_exec
    BY <1>1, UnwoundLevel
  <1>3. Innermost(v)
    BY <1>1, UnwoundRes
  <1>4. \/ ns' = v /\ pc' = "on_error" /\ cur' = cur
        \/ Upwards(v, ns.err)
        \/ Succeed(q)
    BY DEF Unwind
  <1>5. again \in BOOLEAN
    OBVIOUS
  <1> HIDE DEF v, again
  <1>6. CASE ns' = v /\ pc' = "on_error" /\ cur' = cur
    BY <1>3, <1>6 DEF Res
  <1>7. CASE Upwards(v, ns.err)
    BY <1>1, <1>2, <1>3, <1>7, UpwardsRes DEF Running
  <1>8. CASE Succeed(q)
    <2> DEFINE e == [v EXCEPT !.err = ""]
               step == [e.queue[cur] EXCEPT !.repeat = @ /\ again]
    <2>1. SameQueue(v, e) /\ e.last = cur /\ e.armed = v.armed /\ Innermost(e)
      BY <1>2, <1>3, MembersRes
    <2>2. q = [e EXCEPT !.queue[cur] = step]
      BY <1>2 DEF Instance
    <2> HIDE DEF e
    <2>3. /\ e \in Instance /\ Sound(e, allow) /\ TreeOf(e, cur) /\ NextReady(e, cur)
          /\ SubEmpty(e, cur)
      BY <1>1, <1>2, <2>1, QueueStays DEF Running
    <2>4. Running(e, allow)
      BY <1>1, <2>1, <2>3 DEF Running
    <2>5. e.queue[cur] \in StepData
          /\ (e.queue[cur].repeat => e.queue[cur].func \in {"loop", "await"})
      BY <1>1, <2>1, <2>3, <2>4, TipData
    <2>6. /\ step \in StepData /\ SameMarks(e.queue[cur], step)
          /\ step.repeat => step.func \in {"loop", "await"}
      BY <1>5, <2>5 DEF StepData, SameMarks
    <2>7. /\ step.extended = e.queue[cur].extended /\ step.ext = e.queue[cur].ext
          /\ step.timeout = e.queue[cur].timeout /\ step.cancel = e.queue[cur].cancel
          /\ step.allocs = e.queue[cur].allocs
      BY <2>5 DEF StepData
    <2> HIDE DEF step, q
    <2>9. /\ q \in Instance /\ Running(q, allow) /\ SameRun(e, q) /\ SameMembers(e, q)
          /\ TweakedOnly(e, q, e.last, step, e.timeouts, e.armed, e.cancels, e.allocs)
      BY <1>1, <2>1, <2>2, <2>3, <2>4, <2>6, TipSet
    <2>10. Innermost(q)
      BY <1>1, <2>1, <2>3, <2>6, <2>7, <2>9, PlainSet
    <2>11. q.last = cur /\ SubEmpty(q, cur) /\ TreeOf(q, cur)
      <3>1. SubEmpty(q, cur) <=> SubEmpty(e, cur)
        BY <1>1, <2>3, <2>9, RunStays, NoneIsNoSlot
      <3>2. q.last = e.last
        BY <2>9 DEF SameMembers
      <3>. QED
        BY <2>1, <2>3, <2>9, <3>1, <3>2 DEF Running
    <2>. QED
      BY <1>1, <1>8, <2>9, <2>10, <2>11, SucceedRes
  <1>. QED
    BY <1>4, <1>6, <1>7, <1>8

\* The on_error handler ends.
LEMMA EndOnErrorRes ==
    ASSUME TreeInv, Res(ns, pc, cur), EndOnError
    PROVE  Res(ns', pc', cur')
  <1>1. /\ allow \in Mixes /\ ns \in Instance /\ Running(ns, allow) /\ cur \in Slot
        /\ ns.last = cur /\ TreeOf(ns, cur) /\ Sound(ns, allow) /\ NextReady(ns, cur)
        /\ ns.err \in {"", "Timeout", "Error", "break", "continue"}
    <2>1. ns.last = cur /\ cur # None
      BY DEF TreeInv, Walk, Control, EndOnError
    <2>. QED
      BY <2>1, Here, InstanceTypes DEF EndOnError
  <1>2. SubEmpty(ns, cur) => Marks(ns)[cur].start = ns.size
    BY <1>1, TipInUse
  <1>3. Innermost(ns)
    BY DEF Res, EndOnError
  <1> DEFINE q == [ns EXCEPT !.err = ""]
  <1>4. SameQueue(ns, q) /\ q.last = cur /\ Innermost(q)
    BY <1>1, <1>3, MembersRes
  <1>5. \/ SubEmpty(ns, cur) /\ Succeed(q)
        \/ ns' = q /\ pc' \in {"exec", "idle"}
        \/ SubEmpty(ns, cur) /\ Upwards(ns, ns.err)
        \/ SubEmpty(ns, cur) /\ \E code \in Codes : Upwards(ns, code)
        \/ UNCHANGED <<ns, cur, pc>>
    BY <1>1 DEF EndOnError, NoSubs, Recover, Substitute, Override, Stop, Return
  <1> HIDE DEF q
  <1>6. CASE SubEmpty(ns, cur) /\ Succeed(q)
    <2>1. /\ q \in Instance /\ TreeOf(q, cur) /\ SubEmpty(q, cur)
      BY <1>1, <1>4, <1>6, QueueStays
    <2>. QED
      BY <1>1, <1>4, <1>6, <2>1, SucceedRes
  <1>7. CASE ns' = q /\ pc' \in {"exec", "idle"}
    <2>1. Between(q)
      BY <1>4, InnermostBetween
    <2>. QED
      BY <1>7, <2>1 DEF Res
  <1>8. CASE SubEmpty(ns, cur) /\ Upwards(ns, ns.err)
    BY <1>1, <1>2, <1>3, <1>8, UpwardsRes
  <1>9. CASE SubEmpty(ns, cur) /\ \E code \in Codes : Upwards(ns, code)
    <2>1. PICK code \in Codes : Upwards(ns, code)
      BY <1>9
    <2>2. code \in {"", "Timeout", "Error", "break", "continue"}
      BY DEF Codes
    <2>. QED
      BY <1>1, <1>2, <1>3, <1>9, <2>1, <2>2, UpwardsRes
  <1>10. CASE UNCHANGED <<ns, cur, pc>>
    BY <1>10
  <1>. QED
    BY <1>5, <1>6, <1>7, <1>8, <1>9, <1>10

\* With no steps there are no resources.
LEMMA InitRes ==
    ASSUME Init
    PROVE  Res(ns, pc, cur)
  <1>1. ns \in Instance
    BY InitWalks, Here
  <1>2. \A s \in Slot : ~Owner(ns, s) /\ ~ns.queue[s].extended
    BY DEF Init, Fresh, Owner, Claims
  <1>3. /\ ns.timeouts = <<>> /\ ns.cancels = <<>> /\ ns.allocs = <<>> /\ ns.armed = {}
        /\ ns.used = {} /\ ns.lost = {}
    BY DEF Init
  <1>4. ExtendedApart(ns)
    BY <1>2, <1>3 DEF ExtendedApart
  <1>5. Whole(ns) /\ OwnersOrNext(ns, ns.last)
    BY <1>1, <1>2, <1>3, <1>4, NobodyWhole
  <1>6. Between(ns)
    BY <1>5 DEF Between
  <1>. QED
    BY <1>6 DEF Init, Res

\* Every step keeps the stacks in order.
LEMMA NextRes ==
    ASSUME Roomy, Disciplined, TreeInv, Res(ns, pc, cur), [Next]_vars
    PROVE  Res(ns', pc', cur')
  <1>1. CASE Next
    <2>1. CASE Engine
      BY <2>1, BeginRes, RunRes, EndRes, ClimbRes, ClimbRootRes, UnwindRes, ResetRes,
         CancelLevelRes DEF Engine
    <2>2. CASE Handlers
      BY <2>2, WaitRes, SetTimeoutRes, StackRes, EndHandlerRes, EndOnErrorRes DEF Handlers
    <2>. QED
      BY <1>1, <2>1, <2>2, AddRes, ExecuteRes, TimerRes, EventRes, ForeignSuccessRes,
         ForeignTaskRes, CancelRes DEF Next
  <1>2. CASE UNCHANGED vars
    BY <1>2 DEF vars
  <1>. QED
    BY <1>1, <1>2

\* Whoever is named in a stack has as many entries there as its slot says, so at
\* least one.
LEMMA EntryOwned ==
    ASSUME NEW own, NEW c, NEW d, Kept(own, c, d), NEW i \in DOMAIN own
    PROVE  own[i] \in Slot /\ c[own[i]] # 0
  <1>1. /\ own \in Seq(Slot) /\ Len(own) \in Nat /\ DOMAIN own = 1 .. Len(own)
        /\ own[i] \in Slot
    BY DEF Kept
  <1>2. {j \in DOMAIN own : own[j] = own[i]} # {}
    OBVIOUS
  <1>3. IsFiniteSet({j \in DOMAIN own : own[j] = own[i]})
    <2>1. IsFiniteSet(1 .. Len(own))
      BY <1>1, FS_Interval
    <2>. QED
      BY <1>1, <2>1, FS_Subset
  <1>4. Cardinality({j \in DOMAIN own : own[j] = own[i]}) # 0
    BY <1>2, <1>3, FS_EmptySet
  <1>. QED
    BY <1>1, <1>4 DEF Kept

\* Owners of entries run, wherever the engine is.
LEMMA OwnersRun ==
    ASSUME TreeInv, Res(ns, pc, cur)
    PROVE  Whole(ns) /\ \A s \in Slot : Owner(ns, s) => InQueue(ns, s) /\ ns.queue[s].ran
  <1>1. ns \in Instance /\ cur \in Slot \cup {None} /\ ns.last \in Slot \cup {None}
    BY Here
  <1>2. ASSUME NEW n \in 0 .. ns.size, NEW o \in Slot \cup {None},
               Tree(Part(ns, n), Marks(ns), o)
        PROVE  \A s \in Runs(ns, n, o) : InQueue(ns, s) /\ ns.queue[s].ran
    BY <1>1, <1>2, RunsBelowTip
  <1>3. ASSUME NEW o \in Slot \cup {None}, TreeOf(ns, o)
        PROVE  \A s \in Runs(ns, ns.size, o) : InQueue(ns, s) /\ ns.queue[s].ran
    <2>1. Tree(Part(ns, ns.size), Marks(ns), o) /\ ns.size \in 0 .. ns.size
      BY <1>1, <1>3, WholePart
    <2>. QED
      BY <1>2, <2>1
  <1>4. CASE pc \in {"idle", "exec"}
    <2>1. TreeOf(ns, ns.last)
      BY <1>4, Here
    <2>2. Whole(ns) /\ OwnersOrNext(ns, ns.last)
      BY <1>4 DEF Res, Between
    <2>. QED
      BY <1>1, <1>3, <2>1, <2>2 DEF OwnersOrNext
  <1>5. CASE pc \in {"build", "handler", "unwind", "on_error"}
    <2>1. TreeOf(ns, ns.last)
      BY <1>5 DEF TreeInv, Walk, TreeThere
    <2>2. Whole(ns) /\ OwnersIn(ns, ns.size, ns.last)
      BY <1>5 DEF Res, Innermost
    <2>. QED
      BY <1>1, <1>3, <2>1, <2>2 DEF OwnersIn
  <1>6. CASE pc = "climb"
    <2>1. TreeOf(ns, cur)
      BY <1>6 DEF TreeInv, Walk, TreeThere
    <2>2. Whole(ns) /\ OwnersOrNext(ns, cur)
      BY <1>6 DEF Res, Leaving
    <2>. QED
      BY <1>1, <1>3, <2>1, <2>2 DEF OwnersOrNext
  <1>7. CASE pc = "cancel"
    <2>1. Whole(ns) /\ \E n \in 0 .. ns.size : Tree(Part(ns, n), Marks(ns), ns.last)
                                               /\ OwnersIn(ns, n, ns.last)
      BY <1>7 DEF Res, Canceling
    <2>. QED
      BY <1>1, <1>2, <2>1 DEF OwnersIn
  <1>. QED
    BY <1>4, <1>5, <1>6, <1>7 DEF TreeInv, Walk, Control

\* In every state the stacks of timeouts, on_cancel handlers and objects belong
\* to running steps, outermost first, each with as many entries as its slot
\* says; each step that has an extended state has one of its own, and nothing
\* else is in use but what was dropped with steps that had not run.  A step that
\* ends, fails or is canceled gives back its own and nobody else's.
THEOREM NitroResources ==
    ASSUME Roomy, Disciplined PROVE Spec => []ResourcesFollowPath
  <1> DEFINE Inv == TreeInv /\ Res(ns, pc, cur)
  <1>1. Init => Inv
    BY InitWalks, InitRes
  <1>2. Inv /\ [Next]_vars => Inv'
    BY NextWalks, NextRes
  <1>3. Inv => ResourcesFollowPath
    <2> SUFFICES ASSUME TreeInv, Res(ns, pc, cur) PROVE ResourcesFollowPath
      OBVIOUS
    <2>1. ns \in Instance
      BY Here
    <2>2. Whole(ns) /\ \A s \in Slot : Owner(ns, s) => s \in Alive /\ ns.queue[s].ran
      BY OwnersRun DEF Alive
    <2>3. ASSUME NEW own, NEW c, Kept(own, c, OffsetsOf(ns)),
                 \A s \in Slot : c[s] # 0 => Owner(ns, s)
          PROVE  /\ \A i, j \in DOMAIN own :
                       i <= j => /\ own[i] \in Alive /\ ns.queue[own[i]].ran
                                 /\ Position(own[i]) <= Position(own[j])
                 /\ \A s \in Alive : Cardinality({i \in DOMAIN own : own[i] = s}) = c[s]
      <3>1. \A i \in DOMAIN own : /\ own[i] \in Slot /\ own[i] \in Alive
                                  /\ ns.queue[own[i]].ran
        BY <2>2, <2>3, EntryOwned
      <3>2. \A s \in Slot : Position(s) = OffsetsOf(ns)[s]
        BY DEF Position, OffsetsOf, Offset, Distance
      <3>. QED
        BY <2>3, <3>1, <3>2 DEF Kept, Alive
    <2>4. /\ Kept(Owners(ns.timeouts), TimeoutsOf(ns), OffsetsOf(ns))
          /\ Kept(Owners(ns.cancels), CancelsOf(ns), OffsetsOf(ns))
          /\ Kept(ns.allocs, AllocsOf(ns), OffsetsOf(ns))
      BY <2>2 DEF Whole, Stacks
    <2>5. \A s \in Slot : /\ TimeoutsOf(ns)[s] # 0 => Owner(ns, s)
                          /\ CancelsOf(ns)[s] # 0 => Owner(ns, s)
                          /\ AllocsOf(ns)[s] # 0 => Owner(ns, s)
      BY DEF TimeoutsOf, CancelsOf, AllocsOf, Owner
    <2>6. FollowsPath(Owners(ns.timeouts),
                      LAMBDA s : IF ns.queue[s].timeout THEN 1 ELSE 0)
      BY <2>3, <2>4, <2>5 DEF FollowsPath, TimeoutsOf, Alive
    <2>7. FollowsPath(Owners(ns.cancels),
                      LAMBDA s : IF ns.queue[s].cancel THEN 1 ELSE 0)
      BY <2>3, <2>4, <2>5 DEF FollowsPath, CancelsOf, Alive
    <2>8. FollowsPath(ns.allocs, LAMBDA s : ns.queue[s].allocs)
      BY <2>3, <2>4, <2>5 DEF FollowsPath, AllocsOf, Alive
    <2>9. ns.armed \subseteq {ns.timeouts[i].timer : i \in DOMAIN ns.timeouts}
      BY <2>2 DEF Whole, Stacks
    <2>10. LET extended == {s \in Alive : ns.queue[s].extended} IN
           /\ ns.used = {ns.queue[s].ext : s \in extended} \cup ns.lost
           /\ \A r, s \in extended : ns.queue[r].ext = ns.queue[s].ext => r = s
      <3> DEFINE extended == {s \in Alive : ns.queue[s].extended}
      <3>1. ExtendedApart(ns) /\ extended = {s \in Slot : ns.queue[s].extended}
        BY <2>2 DEF Whole, ExtendedApart, Alive
      <3>2. \A r, s \in extended : ns.queue[r].ext = ns.queue[s].ext => r = s
        BY <3>1 DEF ExtendedApart
      <3>3. {ns.queue[s].ext : s \in extended} \cup ns.lost \subseteq ns.used
        BY <3>1 DEF ExtendedApart
      <3>4. ns.used \subseteq {ns.queue[s].ext : s \in extended} \cup ns.lost
        BY <3>1 DEF ExtendedApart
      <3>. QED
        BY <3>2, <3>3, <3>4
    <2>. QED
      BY <2>6, <2>7, <2>8, <2>9, <2>10 DEF ResourcesFollowPath
  <1>. QED
    BY <1>1, <1>2, <1>3, PTL DEF Spec

----------------------------------------------------------------------------
(* The flow goes on.  A flow is ahead when its next step is there to be      *)
(* executed, and halted when its innermost step has asked for an event.  In  *)
(* a burst sched says which of the two it is; without one there is a call of *)
(* handle_execute() under way in the first case and none in the second.      *)

Ahead(q, r) == r = None /\ (q.last # None => ~SubEmpty(q, q.last))

\* The event may be on its way from another thread.
Halted(q, r) ==
    /\ q.last # None /\ SubEmpty(q, q.last)
    /\ r = IF q.queue[q.last].asked THEN None ELSE q.last

\* No call of handle_execute() is on its way.
Uncalled(q) == q.runs = 0 /\ ~q.handle

Reasons(q, r, p, s) ==
    /\ q.runs <= 1 /\ (q.handle <=> q.runs = 1)
    /\ p # "idle" => Uncalled(q)
    /\ p \notin {"idle", "exec"} => r = None /\ (q.in_exec => s)
    /\ p = "on_error" /\ ~q.in_exec => SubEmpty(q, q.last)
    /\ p = "exec" => IF s THEN Ahead(q, r) ELSE Halted(q, r)
    /\ p = "idle" => IF Uncalled(q) THEN (q.size = 0 /\ r = None) \/ Halted(q, r)
                                    ELSE Ahead(q, r)

GoesOn == fatal = "" /\ Reasons(ns, request, pc, sched)

\* What user code and the reactor do meanwhile asks for no call.
LEMMA WalkReasons ==
    ASSUME NEW q \in Instance, Uncalled(q), NEW s \in BOOLEAN, q.in_exec => s,
           NEW p \in {"build", "handler", "climb", "unwind", "on_error", "cancel"},
           p = "on_error" /\ ~q.in_exec => SubEmpty(q, q.last)
    PROVE  Reasons(q, None, p, s)
  BY DEF Reasons, Uncalled

\* The calls that are under way are a matter of the members named here.
LEMMA UncalledStays ==
    ASSUME NEW q, NEW r, Untouched(q, r)
    PROVE  /\ Uncalled(q) => Uncalled(r)
           /\ r.runs = q.runs /\ r.handle = q.handle /\ r.in_exec = q.in_exec
  BY DEF Untouched, Uncalled

\* The innermost step succeeds or fails.
LEMMA LeftReasons ==
    ASSUME NEW q \in Instance, Uncalled(q), q.in_exec => sched', sched' \in BOOLEAN,
           request' = None, Succeed(q) \/ \E code : Raise(q, code), ns' \in Instance
    PROVE  Reasons(ns', request', pc', sched')
  <1>1. {"handle", "runs", "in_exec"} \subseteq DOMAIN q
    BY DEF Instance
  <1>2. Untouched(q, ns')
    BY <1>1, ReturnsTouch
  <1>3. pc' \in {"climb", "unwind"}
    BY DEF Succeed, Raise
  <1>. QED
    BY <1>2, <1>3, UncalledStays, WalkReasons

\* What the end of a handler leaves when it is not over with the step.
LEMMA AskedShape ==
    ASSUME NEW q, q.last \in Slot, NEW b \in BOOLEAN, NEW r \in Instance,
           r = [q EXCEPT !.queue[q.last].asked = b]
    PROVE  /\ r.last = q.last /\ r.queue[q.last].asked = b
           /\ SubEmpty(r, q.last) <=> SubEmpty(q, q.last)
  <1> DEFINE l == q.last
             step == [q.queue[l] EXCEPT !.asked = b]
             queue == [q.queue EXCEPT ![l] = step]
  <1>1. r = [q EXCEPT !.queue = queue]
    OBVIOUS
  <1>2. {"queue", "last", "begin", "size"} \subseteq DOMAIN r /\ DOMAIN r = DOMAIN q
    <2>1. {"queue", "last", "begin", "size"} \subseteq DOMAIN r
      BY DEF Instance
    <2> HIDE DEF queue
    <2>2. DOMAIN r = DOMAIN q
      BY <1>1
    <2>. QED
      BY <2>1, <2>2
  <1> HIDE DEF queue
  <1>3. r.queue = queue /\ r.last = q.last /\ r.begin = q.begin /\ r.size = q.size
    BY <1>1, <1>2
  <1>4. queue \in [Slot -> StepData]
    BY <1>3, InstanceTypes
  <1> HIDE DEF step
  <1>5. DOMAIN q.queue = Slot /\ queue[l] = step
    <2>1. DOMAIN queue = DOMAIN q.queue
      BY DEF queue
    <2>2. DOMAIN q.queue = Slot
      BY <1>4, <2>1
    <2>. QED
      BY <2>2 DEF queue
  <1>6. step \in StepData
    BY <1>4, <1>5
  <1>7. {"asked", "front"} \subseteq DOMAIN q.queue[l]
    <2>1. {"asked", "front"} \subseteq DOMAIN step
      BY <1>6 DEF StepData
    <2>2. DOMAIN step = DOMAIN q.queue[l]
      BY DEF step
    <2>. QED
      BY <2>1, <2>2
  <1>8. step.asked = b /\ step.front = q.queue[l].front
    BY <1>7 DEF step
  <1>. QED
    BY <1>3, <1>5, <1>8 DEF SubEmpty, QueueEnd

\* The handler of the innermost step returns: the flow is ahead when the handler
\* has added steps, and else it waits.
LEMMA ReturnedReasons ==
    ASSUME NEW q, q.last \in Slot, Uncalled(ns'), sched = TRUE,
           request' = None, Returned(q), ns' \in Instance
    PROVE  Reasons(ns', request', pc', sched')
  <1>1. CASE pc' # "exec"
    <2>1. pc' \in {"climb", "unwind"} /\ sched' = sched
      BY <1>1 DEF Returned, Succeed, Raise
    <2>. QED
      BY <2>1, WalkReasons
  <1>2. CASE pc' = "exec"
    <2> DEFINE b == SubEmpty(q, q.last)
    <2>1. ns' = [q EXCEPT !.queue[q.last].asked = b] /\ sched' = ~b
      BY <1>2 DEF Returned, Succeed, Raise
    <2>2. b \in BOOLEAN
      BY DEF SubEmpty
    <2> HIDE DEF b
    <2>3. /\ ns'.last = q.last /\ ns'.queue[q.last].asked = b
          /\ SubEmpty(ns', q.last) <=> SubEmpty(q, q.last)
      BY <2>1, <2>2, AskedShape
    <2>4. IF sched' THEN Ahead(ns', None) ELSE Halted(ns', None)
      BY <2>1, <2>2, <2>3, NoneIsNoSlot DEF Ahead, Halted, b
    <2>. QED
      BY <1>2, <2>4 DEF Reasons, Uncalled
  <1>. QED
    BY <1>1, <1>2

\* With no steps left none is running.
LEMMA EmptyNoTip ==
    ASSUME TreeInv, pc \notin {"climb", "unwind", "cancel"}, ns.size = 0
    PROVE  ns.last = None
  BY Here, TipInUse

\* Where the reactor is not executing the flow, GoesOn says one of three things.
LEMMA AtRest ==
    ASSUME TreeInv, GoesOn, pc = "idle"
    PROVE  /\ ns \in Instance /\ ns.runs \in {0, 1} /\ (ns.handle <=> ns.runs = 1)
           /\ ~ns.in_exec
           /\ \/ Uncalled(ns) /\ ns.size = 0 /\ ns.last = None /\ request = None
              \/ Uncalled(ns) /\ Halted(ns, request)
              \/ ns.runs = 1 /\ Ahead(ns, request)
  <1>1. ns \in Instance /\ ns.runs \in Nat /\ ns.handle \in BOOLEAN /\ ns.size \in Nat
    BY Here, InstanceTypes
  <1>2. ~ns.in_exec
    BY DEF TreeInv, Walk, Control
  <1>3. ns.runs <= 1 /\ (ns.handle <=> ns.runs = 1)
    BY DEF GoesOn, Reasons
  <1>4. ns.runs \in {0, 1}
    BY <1>1, <1>3
  <1>5. Uncalled(ns) <=> ns.runs = 0
    BY <1>1, <1>3, <1>4 DEF Uncalled
  <1>6. IF Uncalled(ns) THEN (ns.size = 0 /\ request = None) \/ Halted(ns, request)
                        ELSE Ahead(ns, request)
    BY DEF GoesOn, Reasons
  <1>7. ns.size = 0 => ns.last = None
    BY EmptyNoTip
  <1>. QED
    BY <1>1, <1>2, <1>3, <1>4, <1>5, <1>6, <1>7

\* While it executes the flow, or is called, no other call is under way.
LEMMA AtWork ==
    ASSUME TreeInv, GoesOn, pc # "idle"
    PROVE  /\ ns \in Instance /\ Uncalled(ns) /\ sched \in BOOLEAN
           /\ pc # "exec" => request = None /\ (ns.in_exec => sched)
           /\ pc = "exec" => /\ IF sched THEN Ahead(ns, request) ELSE Halted(ns, request)
                             /\ ns.in_exec
  <1>1. ns \in Instance /\ sched \in BOOLEAN
    BY Here DEF TreeInv, Others
  <1>2. pc \in {"build", "exec", "handler", "climb", "unwind", "on_error", "cancel"}
        /\ (pc = "exec" => ns.in_exec)
    BY DEF TreeInv, Walk, Control
  <1>. QED
    BY <1>1, <1>2 DEF GoesOn, Reasons

\* A client whose on_error handlers leave it to a burst to execute what they add.
Prompt == \A m \in Mixes : m.may \cap {"late_steps", "late_override"} = {}

\* A step is added.
LEMMA AddGoes ==
    ASSUME TreeInv, GoesOn, Prompt, Add, ns' \in Instance
    PROVE  GoesOn'
  <1>1. Untouched(ns, ns') /\ ns \in Instance /\ sched \in BOOLEAN /\ allow \in Mixes
    BY Here, ActionTouches DEF TreeInv, Others
  <1>2. request' = request /\ sched' = sched /\ fatal' = fatal
    BY DEF Add, loop
  <1>3. Uncalled(ns) /\ request = None /\ (ns.in_exec => sched)
    <2>1. CASE pc = "idle"
      <3>1. ns.runs = 0 /\ ns.size = 0
        BY <2>1 DEF Add
      <3>2. ns.last = None
        BY <2>1, <3>1, EmptyNoTip
      <3>. QED
        BY <2>1, <3>1, <3>2, AtRest DEF Halted
    <2>2. CASE pc # "idle"
      BY <2>2, AtWork DEF Add
    <2>. QED
      BY <2>1, <2>2
  <1>4. pc' \in {"build", "handler", "on_error"}
        /\ (pc' = "on_error" => ns.in_exec)
    BY <1>1 DEF Add, Prompt
  <1>5. Uncalled(ns') /\ ns'.in_exec = ns.in_exec
    BY <1>1, <1>3, UncalledStays
  <1>6. Reasons(ns', None, pc', sched')
    BY <1>1, <1>2, <1>3, <1>4, <1>5, WalkReasons
  <1>. QED
    BY <1>2, <1>3, <1>6 DEF GoesOn

\* execute() schedules the flow.
LEMMA ExecuteGoes ==
    ASSUME TreeInv, GoesOn, Execute
    PROVE  GoesOn'
  <1>1. /\ ns' = Scheduled(ns) /\ pc' = "idle" /\ request' = request /\ fatal' = fatal
        /\ pc = "build"
    BY DEF Execute
  <1>2. /\ ns \in Instance /\ Uncalled(ns) /\ request = None /\ ~ns.in_exec
        /\ ns.last = None
    BY <1>1, AtWork DEF TreeInv, Walk, Control
  <1>3. ns'.last = None
    BY <1>1, <1>2, MembersSet
  <1>4. ns'.handle /\ ns'.runs = 1
    <2>1. {"handle", "runs", "in_exec"} \subseteq DOMAIN ns
      BY <1>2 DEF Instance
    <2>2. Untouched(ns, ns)
      BY <2>1, MethodsTouch
    <2>3. Rescheduled(ns, ns')
      BY <1>1, <2>2, SchedulesOnce
    <2>. QED
      BY <1>2, <2>3 DEF Rescheduled, Uncalled
  <1>5. ns'.runs <= 1 /\ (ns'.handle <=> ns'.runs = 1) /\ ~Uncalled(ns')
    BY <1>4 DEF Uncalled
  <1>6. Ahead(ns', None)
    BY <1>3 DEF Ahead
  <1>7. Reasons(ns', None, "idle", sched')
    BY <1>5, <1>6 DEF Reasons
  <1>. QED
    BY <1>1, <1>2, <1>7 DEF GoesOn

\* cancel() takes the call back, if there is one, and nothing else goes on.
LEMMA CancelGoes ==
    ASSUME TreeInv, GoesOn, Cancel
    PROVE  GoesOn'
  <1>1. /\ pc = "idle" /\ pc' = "cancel" /\ request = None /\ request' = request
        /\ sched' = sched /\ fatal' = fatal
        /\ ns' = [ns EXCEPT !.handle = FALSE, !.runs = IF ns.handle THEN @ - 1 ELSE @]
    BY DEF Cancel, loop
  <1>2. ns \in Instance /\ ns.runs \in {0, 1} /\ (ns.handle <=> ns.runs = 1) /\ ~ns.in_exec
    BY <1>1, AtRest
  <1>3. ~ns'.handle /\ ns'.runs = (IF ns.handle THEN ns.runs - 1 ELSE ns.runs)
        /\ ns'.in_exec = ns.in_exec
    BY <1>1, <1>2 DEF Instance
  <1>4. ns'.runs = 0
    BY <1>2, <1>3
  <1>5. Reasons(ns', None, "cancel", sched')
    BY <1>2, <1>3, <1>4 DEF Reasons, Uncalled
  <1>. QED
    BY <1>1, <1>5 DEF GoesOn

\* The levels that cancel() goes through, and its end.
LEMMA CancelLevelGoes ==
    ASSUME TreeInv, GoesOn, CancelLevel, ns' \in Instance, fatal' = fatal
    PROVE  GoesOn'
  <1>1. pc = "cancel" /\ pc' = "cancel" /\ request' = request /\ sched' = sched
    BY DEF CancelLevel, loop
  <1>2. ns \in Instance /\ Uncalled(ns) /\ request = None /\ (ns.in_exec => sched)
        /\ sched \in BOOLEAN
    BY <1>1, AtWork
  <1>3. Uncalled(ns') /\ ns'.in_exec = ns.in_exec
    BY <1>2, ActionTouches, UncalledStays
  <1>4. Reasons(ns', None, "cancel", sched')
    BY <1>1, <1>2, <1>3, WalkReasons
  <1>. QED
    BY <1>1, <1>2, <1>4 DEF GoesOn

\* reset_queue()
LEMMA ResetGoes ==
    ASSUME TreeInv, GoesOn, CancelEnd \/ UnwindRoot
    PROVE  GoesOn'
  <1>1. /\ ns' = Reset(ns) /\ request' = request /\ sched' = sched /\ fatal' = fatal
        /\ pc # "idle" /\ pc # "exec" /\ ns.last = None
        /\ pc' = IF ns.in_exec THEN "exec" ELSE "idle"
    BY DEF CancelEnd, UnwindRoot, loop, Return, TreeInv, Walk, Control
  <1>2. ns \in Instance /\ Uncalled(ns) /\ request = None /\ (ns.in_exec => sched)
    BY <1>1, AtWork
  <1>3. ns'.size = 0 /\ ns'.last = None /\ Uncalled(ns')
    BY <1>1, <1>2, QueueReset DEF Emptied, Uncalled
  <1>. QED
    BY <1>1, <1>2, <1>3 DEF GoesOn, Reasons, Ahead, Uncalled

\* The event that the innermost step has asked for, or success() or error() of it.
LEMMA EventGoes ==
    ASSUME TreeInv, GoesOn, ExternalEvent, ns' \in Instance
    PROVE  GoesOn'
  <1>1. /\ pc = "idle" /\ Waiting(ns.last) /\ request' = request /\ sched' = sched
        /\ fatal' = fatal
    BY DEF ExternalEvent, loop
  <1>2. Uncalled(ns) /\ request = None /\ ns \in Instance /\ ~ns.in_exec
    BY <1>1, AtRest DEF Ahead, Halted, Waiting
  <1>3. pc' \in {"climb", "unwind"}
    BY DEF ExternalEvent, Succeed, Raise
  <1>4. Uncalled(ns') /\ ns'.in_exec = ns.in_exec /\ sched \in BOOLEAN
    BY <1>2, ActionTouches, UncalledStays DEF TreeInv, Others
  <1>5. Reasons(ns', None, pc', sched')
    BY <1>1, <1>2, <1>3, <1>4, WalkReasons
  <1>. QED
    BY <1>1, <1>2, <1>5 DEF GoesOn

\* success() on another thread finds the step waiting, so no call is under way.
LEMMA ForeignSuccessGoes ==
    ASSUME TreeInv, GoesOn, ForeignSuccess
    PROVE  GoesOn'
  <1>1. /\ pc \in {"idle", "exec"} /\ pc' = pc /\ sched' = sched /\ fatal' = fatal
        /\ request = None /\ request' = ns.last /\ ns.last # None
        /\ SubEmpty(ns, ns.last)
    BY DEF ForeignSuccess, Waiting, loop
  <1>2. Uncalled(ns) /\ (pc = "exec" => ~sched)
    BY <1>1, AtRest, AtWork DEF Ahead
  <1>3. /\ ns \in Instance /\ allow \in Mixes /\ Running(ns, allow) /\ ns.last \in Slot
    BY <1>1, Here
  <1> DEFINE r == [ns EXCEPT !.queue[ns.last].asked = FALSE]
             step == [ns.queue[ns.last] EXCEPT !.asked = FALSE]
  <1>4. ns' = r
    BY DEF ForeignSuccess
  <1>5. /\ r \in Instance /\ SameRun(ns, r) /\ SameMembers(ns, r)
        /\ TweakedOnly(ns, r, ns.last, step, ns.timeouts, ns.armed, ns.cancels, ns.allocs)
    BY <1>3, AskedSet
  <1>6. r.last = ns.last /\ ~r.queue[ns.last].asked
    <2>1. ns.queue[ns.last] \in StepData
      BY <1>3, InstanceTypes
    <2>2. step.asked = FALSE
      BY <2>1 DEF StepData
    <2> HIDE DEF r, step
    <2>. QED
      BY <1>1, <1>5, <2>2 DEF SameMembers, TweakedOnly
  <1> HIDE DEF r
  <1>7. SubEmpty(r, r.last)
    BY <1>1, <1>3, <1>5, <1>6, RunStays
  <1>8. Uncalled(r)
    BY <1>2, <1>5 DEF SameMembers, Uncalled
  <1>9. Halted(r, request')
    BY <1>1, <1>6, <1>7 DEF Halted
  <1>10. Reasons(r, request', pc', sched')
    BY <1>1, <1>2, <1>8, <1>9 DEF Reasons, Uncalled
  <1>. QED
    BY <1>1, <1>4, <1>10 DEF GoesOn

\* Its task finds the step as it was.
LEMMA ForeignTaskGoes ==
    ASSUME TreeInv, GoesOn, ForeignTask, ns' \in Instance
    PROVE  GoesOn'
  <1>1. pc = "idle" /\ request # None /\ request' = None /\ sched' = sched
    BY DEF ForeignTask, loop
  <1>2. Uncalled(ns) /\ ns.last # None /\ SubEmpty(ns, ns.last) /\ ns \in Instance
        /\ ~ns.in_exec
    BY <1>1, AtRest DEF Ahead, Halted
  <1>3. Succeed(ns) /\ fatal' = fatal
    BY <1>2 DEF ForeignTask
  <1>4. Reasons(ns', request', pc', sched')
    BY <1>1, <1>2, <1>3, LeftReasons DEF TreeInv, Others
  <1>. QED
    BY <1>3, <1>4 DEF GoesOn

\* A timer fails the innermost step, which waits.
LEMMA TimerGoes ==
    ASSUME TreeInv, Disciplined, GoesOn, NEW t \in Timer, TimerFire(t), ns' \in Instance
    PROVE  GoesOn'
  <1>1. pc = "idle" /\ t \in ns.armed /\ request' = request /\ sched' = sched
    BY DEF TimerFire, loop
  <1>2. ns \in Instance /\ Waiting(ns.last)
    <2>1. allow \in Mixes /\ ns \in Instance
      BY Here
    <2>. QED
      BY <2>1 DEF TimerFire, Disciplined
  <1>3. Uncalled(ns) /\ request = None /\ ~ns.in_exec
    BY <1>1, <1>2, AtRest DEF Waiting, Ahead, Halted
  <1>4. pc' = "unwind" /\ fatal' = fatal
    BY <1>2 DEF TimerFire, Raise, Waiting
  <1>5. Uncalled(ns') /\ ns'.in_exec = ns.in_exec /\ sched \in BOOLEAN
    BY <1>2, <1>3, ActionTouches, UncalledStays DEF TreeInv, Others
  <1>6. Reasons(ns', None, pc', sched')
    BY <1>1, <1>3, <1>4, <1>5, WalkReasons
  <1>. QED
    BY <1>1, <1>3, <1>4, <1>6 DEF GoesOn

\* A burst begins with the call that was under way
LEMMA BeginGoes ==
    ASSUME TreeInv, GoesOn, BeginBurst
    PROVE  GoesOn'
  <1> DEFINE n == ns.runs - 1
             r == [ns EXCEPT !.in_exec = TRUE, !.handle = FALSE, !.runs = n]
  <1>1. /\ pc = "idle" /\ ns.runs > 0 /\ pc' = "exec" /\ sched' = TRUE
        /\ request' = request /\ fatal' = fatal /\ ns' = r
    BY DEF BeginBurst
  <1>2. ns \in Instance /\ ns.runs = 1 /\ Ahead(ns, request)
    BY <1>1, AtRest DEF Uncalled
  <1>3. n = 0
    BY <1>2
  <1> HIDE DEF n
  <1>4. r.runs = n /\ ~r.handle
    BY <1>2 DEF Instance
  <1>5. SameQueue(ns, r) /\ r.last = ns.last
    BY <1>2, <1>3, MembersSet DEF Instance
  <1> HIDE DEF r
  <1>6. Ahead(r, request)
    BY <1>2, <1>5, QueueStays, InstanceTypes DEF Ahead
  <1>7. Reasons(r, request, "exec", TRUE)
    BY <1>3, <1>4, <1>6 DEF Reasons, Uncalled
  <1>. QED
    BY <1>1, <1>7 DEF GoesOn

\* and ends with a new one, unless the flow waits or is over.
LEMMA EndGoes ==
    ASSUME TreeInv, GoesOn, EndBurst
    PROVE  GoesOn'
  <1> DEFINE q == [ns EXCEPT !.in_exec = FALSE]
             r == Scheduled(q)
  <1>1. /\ pc = "exec" /\ pc' = "idle" /\ request' = request /\ fatal' = fatal
        /\ ns' = IF sched /\ ns.size # 0 THEN r ELSE q
    BY DEF EndBurst
  <1>2. ns \in Instance /\ Uncalled(ns) /\ sched \in BOOLEAN
        /\ (IF sched THEN Ahead(ns, request) ELSE Halted(ns, request))
    BY <1>1, AtWork
  <1>3. SameQueue(ns, q) /\ q.last = ns.last
    BY <1>2, MembersSet DEF Instance
  <1>4. Uncalled(q) /\ ~q.in_exec /\ {"handle", "runs", "in_exec"} \subseteq DOMAIN q
    BY <1>2 DEF Instance, Uncalled
  <1> HIDE DEF q
  <1>5. /\ \A x \in Slot : q.queue[x] = ns.queue[x] /\ (SubEmpty(q, x) <=> SubEmpty(ns, x))
        /\ q.size = ns.size
    BY <1>2, <1>3, QueueStays DEF SameQueue
  <1>6. /\ Ahead(ns, request) => Ahead(q, request)
        /\ Halted(ns, request) => Halted(q, request)
    BY <1>2, <1>3, <1>5, InstanceTypes DEF Ahead, Halted
  <1>7. CASE sched /\ ns.size # 0
    <2>1. q \in Instance
      BY <1>3 DEF SameQueue
    <2>2. SameQueue(q, r) /\ r.last = q.last
      BY <2>1, MembersSet
    <2>3. r.handle /\ r.runs = q.runs + 1
      <3>1. Untouched(q, q)
        BY <1>4, MethodsTouch
      <3>2. Rescheduled(q, r)
        BY <3>1, SchedulesOnce
      <3>. QED
        BY <1>4, <3>2 DEF Rescheduled
    <2> HIDE DEF r
    <2>4. Ahead(r, request)
      <3>1. \A x \in Slot : SubEmpty(r, x) <=> SubEmpty(q, x)
        BY <2>1, <2>2, QueueStays
      <3>2. Ahead(q, request) /\ q.last \in Slot \cup {None}
        BY <1>2, <1>6, <1>7, <2>1, InstanceTypes
      <3>. QED
        BY <2>2, <3>1, <3>2 DEF Ahead
    <2>5. r.runs = 1
      BY <1>4, <2>3 DEF Uncalled
    <2>6. r.runs <= 1 /\ (r.handle <=> r.runs = 1) /\ ~Uncalled(r)
      BY <2>3, <2>5 DEF Uncalled
    <2>7. Reasons(r, request, "idle", sched')
      BY <2>4, <2>6 DEF Reasons
    <2>. QED
      BY <1>1, <1>7, <2>7 DEF GoesOn
  <1>8. CASE ~(sched /\ ns.size # 0)
    <2>1. (q.size = 0 /\ request = None) \/ Halted(q, request)
      BY <1>2, <1>5, <1>6, <1>8 DEF Ahead
    <2>2. q.runs <= 1 /\ (q.handle <=> q.runs = 1)
      BY <1>4 DEF Uncalled
    <2>3. Reasons(q, request, "idle", sched')
      BY <1>4, <2>1, <2>2 DEF Reasons
    <2>. QED
      BY <1>1, <1>8, <2>3 DEF GoesOn
  <1>. QED
    BY <1>7, <1>8

\* The same step is the innermost one, and sync() has the same objects.
SameFocus(q, r) ==
    /\ {"last", "object"} \subseteq DOMAIN q /\ {"last", "object"} \subseteq DOMAIN r
    /\ r.last = q.last /\ r.object = q.object

\* Two changes in a row that leave it there.
LEMMA FocusTwice ==
    ASSUME NEW q, NEW r, NEW t, SameFocus(q, r), SameFocus(r, t)
    PROVE  SameFocus(q, t)
  BY DEF SameFocus

\* What the handlers of the steps that the engine adds leave it.
LEMMA HandlersFocus ==
    ASSUME NEW q, {"last", "object"} \subseteq DOMAIN q
    PROVE  /\ SameFocus(q, q)
           /\ \A x : SameFocus(q, [q EXCEPT !.queue = x])
           /\ \A x, y : SameFocus(q, [q EXCEPT !.allocs = x, !.queue = y])
           /\ \A s, f : SameFocus(q, AllocStep(q, s, f))
           /\ \A b : SameFocus(q, SetCancel(q, b))
           /\ SameFocus(q, WaitExternal(q))
  BY DEF SameFocus, AllocStep, SetCancel, WaitExternal

\* One more of them.
LEMMA FocusKept ==
    ASSUME NEW b, NEW q, SameFocus(b, q)
    PROVE  /\ \A x : SameFocus(b, [q EXCEPT !.queue = x])
           /\ \A s, f : SameFocus(b, AllocStep(q, s, f))
  <1>1. {"last", "object"} \subseteq DOMAIN q
    BY DEF SameFocus
  <1>2. /\ \A x : SameFocus(q, [q EXCEPT !.queue = x])
        /\ \A s, f : SameFocus(q, AllocStep(q, s, f))
    BY <1>1, HandlersFocus
  <1>. QED
    BY <1>2, FocusTwice

\* What the handler of the sync step s makes of b.
SyncSubs(b, s, on_error) ==
    LET q == AllocStep(SetCancel(b, TRUE), s, "lock")
        r == [AllocStep(q, s, "body") EXCEPT !.queue[QueueEnd(q)].on_error = on_error]
    IN  AllocStep(r, s, "unlock")

\* It leaves the sync step the innermost one.
LEMMA SyncFocus ==
    ASSUME NEW b, {"last", "object"} \subseteq DOMAIN b, NEW s, NEW on_error
    PROVE  SameFocus(b, SyncSubs(b, s, on_error))
  <1> DEFINE c == SetCancel(b, TRUE)
             q == AllocStep(c, s, "lock")
             t == AllocStep(q, s, "body")
             queue == [t.queue EXCEPT ![QueueEnd(q)].on_error = on_error]
             r == [t EXCEPT !.queue = queue]
             u == SyncSubs(b, s, on_error)
  <1>1. u = AllocStep(r, s, "unlock")
    BY DEF SyncSubs
  <1> HIDE DEF u
  <1>2. SameFocus(b, c)
    BY HandlersFocus
  <1> HIDE DEF c
  <1>3. SameFocus(b, q)
    BY <1>2, FocusKept
  <1> HIDE DEF q
  <1>4. SameFocus(b, t)
    BY <1>3, FocusKept
  <1> HIDE DEF t, queue
  <1>5. SameFocus(b, r)
    BY <1>4, FocusKept
  <1> HIDE DEF r
  <1>. QED
    BY <1>1, <1>5, FocusKept DEF u

\* In a burst the next step is in the queue.
LEMMA NextInUse ==
    ASSUME TreeInv, GoesOn, pc = "exec", MoreToRun
    PROVE  NextStep \in Alive
  <1>1. /\ ns \in Instance /\ ns.last \in Slot \cup {None} /\ TreeOf(ns, ns.last)
        /\ sched /\ (ns.last # None \/ ns.size # 0) /\ ns.size \in Nat
    BY Here, InstanceTypes DEF MoreToRun
  <1>2. ns.last # None => ~SubEmpty(ns, ns.last)
    BY <1>1, AtWork DEF Ahead
  <1>3. Front(ns, ns.last) < ns.size
    <2>1. CASE ns.last = None
      <3>1. Front(ns, ns.last) = 0
        BY <2>1 DEF Front, FrontOf
      <3>. QED
        BY <1>1, <2>1, <3>1
    <2>2. CASE ns.last # None
      <3>1. Front(ns, ns.last) <= ns.size /\ Front(ns, ns.last) # ns.size
            /\ Front(ns, ns.last) \in Nat
        BY <1>1, <1>2, <2>2, TipInUse, FrontSlot
      <3>. QED
        BY <1>1, <3>1
    <2>. QED
      BY <2>1, <2>2
  <1>. QED
    BY <1>1, <1>3, FrontSlot DEF Alive, NextStep

\* One step of a burst that finds the objects it asks for.
LEMMA RunGoes ==
    ASSUME TreeInv, GoesOn, RunStep, ns' \in Instance, fatal' = fatal
    PROVE  GoesOn'
  <1> SUFFICES Reasons(ns', request', pc', sched')
    BY DEF GoesOn
  <1>1. /\ pc = "exec" /\ MoreToRun /\ request' = request /\ sched = TRUE
        /\ request = None /\ ns \in Instance /\ Uncalled(ns)
    BY AtWork DEF RunStep, MoreToRun, Ahead
  <1>2. NextStep \in Alive
    BY <1>1, NextInUse
  <1>3. Handler(ns.queue[NextStep].func)
    BY <1>2 DEF RunStep
  <1>4. /\ Started \in Instance /\ Started.last = NextStep /\ NextStep \in Slot
        /\ {"last", "object"} \subseteq DOMAIN Started
    BY <1>1, <1>2, Called DEF Instance
  <1>5. Uncalled(ns')
    BY <1>1, ActionTouches, UncalledStays
  <1>6. ASSUME NEW q, q.last = NextStep, Returned(q)
        PROVE  Reasons(ns', request', pc', sched')
    BY <1>1, <1>4, <1>5, <1>6, ReturnedReasons
  <1>7. ASSUME pc' \in {"handler", "unwind"}, sched' = sched
        PROVE  Reasons(ns', request', pc', sched')
    BY <1>1, <1>5, <1>7, WalkReasons
  <1>8. CASE pc' = "handler" /\ UNCHANGED sched
    BY <1>7, <1>8
  <1>9. CASE LoopHandler
    <2> DEFINE kept == Drop(Started.allocs, ns.queue[NextStep].allocs)
               queue == [Started.queue EXCEPT ![NextStep].allocs = 0]
               q == [Started EXCEPT !.allocs = kept, !.queue = queue]
               queue2 == [q.queue EXCEPT ![NextStep].repeat = FALSE]
               over == [q EXCEPT !.queue = queue2]
    <2>1. (pc' = "handler" /\ sched' = sched) \/ Returned(over)
      BY <1>9 DEF LoopHandler
    <2> HIDE DEF kept, queue
    <2>2. SameFocus(Started, q)
      BY <1>4, HandlersFocus
    <2> HIDE DEF q, queue2
    <2>3. SameFocus(q, over)
      BY <2>2, HandlersFocus DEF SameFocus
    <2>4. over.last = NextStep
      BY <1>4, <2>2, <2>3 DEF SameFocus
    <2> HIDE DEF over
    <2>. QED
      BY <1>6, <1>7, <2>1, <2>4
  <1>10. CASE AwaitHandler
    <2> DEFINE queue == [Started.queue EXCEPT ![NextStep].repeat = FALSE]
               q == [Started EXCEPT !.queue = queue]
               queue2 == [q.queue EXCEPT ![NextStep].repeat = TRUE]
               again == [q EXCEPT !.queue = queue2]
    <2>1. (pc' = "unwind" /\ sched' = sched) \/ Returned(q) \/ Returned(again)
      BY <1>10 DEF AwaitHandler, Raise
    <2> HIDE DEF queue
    <2>2. SameFocus(Started, q)
      BY <1>4, HandlersFocus
    <2> HIDE DEF q, queue2
    <2>3. SameFocus(q, again)
      BY <2>2, HandlersFocus DEF SameFocus
    <2>4. q.last = NextStep /\ again.last = NextStep
      BY <1>4, <2>2, <2>3 DEF SameFocus
    <2> HIDE DEF again
    <2>. QED
      BY <1>6, <1>7, <2>1, <2>4
  <1>11. CASE SyncHandler
    <2>1. \A on_error : SyncSubs(Started, NextStep, on_error).last = NextStep
      BY <1>4, SyncFocus DEF SameFocus
    <2>2. \E on_error : Returned(SyncSubs(Started, NextStep, on_error))
      BY <1>11 DEF SyncHandler, SyncSubs
    <2>. QED
      BY <1>6, <2>1, <2>2
  <1>12. CASE LockHandler
    <2>1. SameFocus(Started, WaitExternal(Started))
      BY <1>4, HandlersFocus
    <2>2. \/ Returned(Started) \/ Returned(WaitExternal(Started))
          \/ pc' = "unwind" /\ sched' = sched
      <3>1. fatal' # "null sync object"
        BY DEF GoesOn
      <3>. QED
        BY <1>12, <3>1 DEF LockHandler, Stop, Raise
    <2>3. WaitExternal(Started).last = NextStep
      BY <1>4, <2>1 DEF SameFocus
    <2>. QED
      BY <1>4, <1>6, <1>7, <2>2, <2>3
  <1>13. CASE UnlockHandler
    <2>1. Returned(Started)
      BY <1>13 DEF UnlockHandler
    <2>. QED
      BY <1>4, <1>6, <2>1
  <1>. QED
    BY <1>3, <1>8, <1>9, <1>10, <1>11, <1>12, <1>13 DEF Handler

\* What user code does in a handler.
LEMMA HandlerGoes ==
    ASSUME TreeInv, GoesOn, Wait \/ SetTimeout \/ Stack, ns' \in Instance
    PROVE  GoesOn'
  <1>1. /\ pc = "handler" /\ pc' = "handler" /\ request' = request /\ sched' = sched
        /\ fatal' = fatal
    BY DEF Wait, SetTimeout, Stack, loop
  <1>2. ns \in Instance /\ Uncalled(ns) /\ sched \in BOOLEAN /\ request = None
        /\ (ns.in_exec => sched)
    BY <1>1, AtWork
  <1>3. Uncalled(ns') /\ ns'.in_exec = ns.in_exec
    BY <1>2, ActionTouches, UncalledStays DEF Handlers
  <1>4. Reasons(ns', None, "handler", sched')
    BY <1>1, <1>2, <1>3, WalkReasons
  <1>. QED
    BY <1>1, <1>2, <1>4 DEF GoesOn

\* The handler returns, succeeds or fails.
LEMMA EndHandlerGoes ==
    ASSUME TreeInv, GoesOn, EndHandler, ns' \in Instance
    PROVE  GoesOn'
  <1> SUFFICES Reasons(ns', request', pc', sched')
    BY DEF GoesOn, EndHandler
  <1>1. /\ pc = "handler" /\ request' = request
        /\ \/ Returned(ns)
           \/ Succeed(ns) /\ sched' = sched
           \/ \E code \in Codes : Raise(ns, code) /\ sched' = sched
    BY DEF EndHandler
  <1>2. ns \in Instance /\ Uncalled(ns) /\ sched = TRUE /\ request = None
        /\ ns.last \in Slot
    BY <1>1, AtWork, InHandler
  <1>3. Uncalled(ns')
    BY <1>2, ActionTouches, UncalledStays DEF Handlers
  <1>4. CASE Returned(ns)
    BY <1>1, <1>2, <1>3, <1>4, ReturnedReasons
  <1>5. CASE pc' \in {"climb", "unwind"} /\ sched' = sched
    BY <1>1, <1>2, <1>3, <1>5, WalkReasons
  <1>. QED
    BY <1>1, <1>4, <1>5 DEF Succeed, Raise

\* A level with steps to go makes the flow go on, in the burst or by a new call.
LEMMA OnwardsGoes ==
    ASSUME ns \in Instance, Uncalled(ns), ns.in_exec => sched', request' = None,
           ns' \in Instance, Rescheduled(ns, ns'), sched' \in BOOLEAN,
           pc' = IF ns.in_exec THEN "exec" ELSE "idle",
           ns'.last # None => ~SubEmpty(ns', ns'.last)
    PROVE  Reasons(ns', request', pc', sched')
  <1>1. Ahead(ns', None)
    BY DEF Ahead
  <1>2. CASE ns.in_exec
    <2>1. Uncalled(ns')
      BY <1>2 DEF Rescheduled, Uncalled
    <2>. QED
      BY <1>1, <1>2, <2>1 DEF Reasons, Uncalled
  <1>3. CASE ~ns.in_exec
    <2>1. ns'.handle /\ ns'.runs = 1
      BY <1>3 DEF Rescheduled, Uncalled
    <2>2. ns'.runs <= 1 /\ (ns'.handle <=> ns'.runs = 1) /\ ~Uncalled(ns')
      BY <2>1 DEF Uncalled
    <2>. QED
      BY <1>1, <1>3, <2>2 DEF Reasons
  <1>. QED
    BY <1>2, <1>3

\* The walk up leaves a level, or goes on with its next step.
LEMMA ClimbGoes ==
    ASSUME TreeInv, GoesOn, Climb, ns' \in Instance
    PROVE  GoesOn'
  <1> SUFFICES Reasons(ns', request', pc', sched')
    BY DEF GoesOn, Climb
  <1>1. /\ pc = "climb" /\ cur # None /\ request' = request /\ sched' = sched
    BY DEF Climb, loop
  <1>2. ns \in Instance /\ Uncalled(ns) /\ sched \in BOOLEAN /\ request = None
        /\ (ns.in_exec => sched) /\ cur \in Slot
    BY <1>1, Here, AtWork
  <1> DEFINE q == ShiftSub(ns, cur)
             u == [q EXCEPT !.last = cur]
  <1>3. CASE SubEmpty(q, cur)
    <2>1. pc' = "climb"
      BY <1>1, <1>3 DEF Climb
    <2>2. Untouched(ns, ns')
      BY <1>2, <2>1, ClimbTouches
    <2>3. Uncalled(ns') /\ ns'.in_exec = ns.in_exec
      BY <1>2, <2>2, UncalledStays
    <2>. QED
      BY <1>1, <1>2, <2>1, <2>3, WalkReasons
  <1>4. CASE ~SubEmpty(q, cur)
    <2>1. ns' = Scheduled(u) /\ pc' = IF ns.in_exec THEN "exec" ELSE "idle"
      BY <1>4 DEF Climb, Return
    <2>2. pc' # "climb"
      BY <2>1
    <2>3. Rescheduled(ns, ns')
      BY <1>2, <2>2, ClimbTouches
    <2>4. q \in Instance
      <3>1. CASE ns.queue[ns.queue[cur].front].repeat
        BY <1>2, <3>1 DEF ShiftSub
      <3>2. CASE ~ns.queue[ns.queue[cur].front].repeat
        BY <1>2, <3>2, FrontShifted DEF Shifted
      <3>. QED
        BY <3>1, <3>2
    <2> HIDE DEF q
    <2>5. SameQueue(q, u) /\ u.last = cur
      BY <1>2, <2>4, MembersSet DEF Instance
    <2>6. u \in Instance
      BY <2>5 DEF SameQueue
    <2> HIDE DEF u
    <2>7. SameQueue(u, ns') /\ ns'.last = cur
      BY <2>1, <2>5, <2>6, MembersSet
    <2>8. ~SubEmpty(ns', cur)
      BY <1>2, <1>4, <2>4, <2>5, <2>6, <2>7, QueueStays
    <2>. QED
      BY <1>1, <1>2, <2>1, <2>3, <2>7, <2>8, OnwardsGoes
  <1>. QED
    BY <1>3, <1>4

\* The root step is over, or runs again; so is the flow, or it goes on.
LEMMA ClimbRootGoes ==
    ASSUME TreeInv, GoesOn, ClimbRoot, ns' \in Instance
    PROVE  GoesOn'
  <1> SUFFICES Reasons(ns', request', pc', sched')
    BY DEF GoesOn, ClimbRoot
  <1>1. /\ pc = "climb" /\ cur = None /\ request' = request /\ sched' = sched
        /\ pc' = IF ns.in_exec THEN "exec" ELSE "idle"
    BY DEF ClimbRoot, loop, Return
  <1>2. ns \in Instance /\ Uncalled(ns) /\ sched \in BOOLEAN /\ request = None
        /\ (ns.in_exec => sched)
    BY <1>1, AtWork
  <1>3. ns'.last = None
    <2> DEFINE b == [ns EXCEPT !.last = None]
               r == ShiftRoot(b)
    <2>1. SameQueue(ns, b) /\ b.last = None
      BY <1>2, MembersSet DEF Instance
    <2>2. TreeOf(ns, None) /\ Front(ns, None) < ns.size
      BY <1>1 DEF TreeInv, Walk, TreeThere, Climbing
    <2>3. 0 < b.size
      <3>1. Front(ns, None) = 0
        BY DEF Front, FrontOf
      <3>. QED
        BY <2>1, <2>2, <3>1 DEF SameQueue
    <2>4. b \in Instance
      BY <2>1 DEF SameQueue
    <2> HIDE DEF b
    <2>5. r \in Instance /\ r.last = None
      <3>1. CASE b.queue[b.begin].repeat
        BY <2>1, <2>4, <3>1 DEF ShiftRoot
      <3>2. CASE ~b.queue[b.begin].repeat
        <4>1. RootGone(FreeStep(b, b.begin), r)
          BY <2>3, <2>4, <3>2, RootShifted
        <4>2. FreeStep(b, b.begin).last = b.last
          BY <2>4, StepFreed, InstanceTypes DEF Freed, SameMembers
        <4>. QED
          BY <2>1, <4>1, <4>2 DEF RootGone
      <3>. QED
        BY <3>1, <3>2
    <2>6. ns' = IF r.size # 0 THEN Scheduled(r) ELSE r
      BY DEF ClimbRoot, b
    <2> HIDE DEF r
    <2>. QED
      BY <2>5, <2>6, MembersSet
  <1>4. CASE ns'.size # 0
    <2>1. Rescheduled(ns, ns')
      BY <1>2, <1>4, ClimbTouches
    <2>. QED
      BY <1>1, <1>2, <1>3, <2>1, OnwardsGoes
  <1>5. CASE ns'.size = 0
    <2>1. Untouched(ns, ns')
      BY <1>2, <1>5, ClimbTouches
    <2>2. Uncalled(ns')
      BY <1>2, <2>1, UncalledStays
    <2>. QED
      BY <1>1, <1>2, <1>3, <1>5, <2>2 DEF Reasons, Uncalled, Ahead
  <1>. QED
    BY <1>4, <1>5

\* A level handles the error, or does not; its sub-steps are dropped.
LEMMA UnwindGoes ==
    ASSUME TreeInv, GoesOn, Unwind, ns' \in Instance, fatal' = fatal
    PROVE  GoesOn'
  <1>1. /\ pc = "unwind" /\ cur # None /\ request' = request /\ sched' = sched
        /\ pc' \in {"on_error", "unwind", "climb"}
        /\ pc' = "on_error" => ns' = Unwound
    BY DEF Unwind, Upwards, Succeed, loop
  <1>2. /\ ns \in Instance /\ Uncalled(ns) /\ request = None /\ sched \in BOOLEAN
        /\ (ns.in_exec => sched)
    BY <1>1, AtWork
  <1>3. Uncalled(ns') /\ ns'.in_exec = ns.in_exec
    BY <1>2, ActionTouches, UncalledStays
  <1>4. pc' = "on_error" => SubEmpty(ns', ns'.last)
    <2>1. /\ allow \in Mixes /\ Sound(ns, allow) /\ cur \in Slot
          /\ ns.last = cur /\ TreeOf(ns, cur)
      BY <1>1, Here DEF TreeInv, Walk, TreeThere, Control
    <2>. QED
      BY <1>1, <1>2, <2>1, UnwoundLevel
  <1>5. Reasons(ns', None, pc', sched')
    BY <1>1, <1>2, <1>3, <1>4, WalkReasons
  <1>. QED
    BY <1>1, <1>2, <1>5 DEF GoesOn

\* The on_error handler ends: the steps it has added are executed by the burst.
LEMMA EndOnErrorGoes ==
    ASSUME TreeInv, GoesOn, Prompt, EndOnError, ns' \in Instance
    PROVE  GoesOn'
  <1>1. /\ pc = "on_error" /\ request' = request /\ sched' = sched /\ cur = ns.last
        /\ cur # None
    BY DEF EndOnError, loop, TreeInv, Walk, Control
  <1>2. /\ ns \in Instance /\ Uncalled(ns) /\ request = None /\ sched \in BOOLEAN
        /\ (ns.in_exec => sched) /\ allow \in Mixes /\ ns.last \in Slot
    BY <1>1, AtWork, Here
  <1>3. Uncalled(ns') /\ ns'.in_exec = ns.in_exec
    BY <1>2, ActionTouches, UncalledStays DEF Handlers
  <1>4. \/ pc' \in {"climb", "unwind"} /\ fatal' = fatal
        \/ Substitute
    BY <1>2 DEF EndOnError, Recover, Override, Upwards, Succeed, Prompt
  <1>5. CASE pc' \in {"climb", "unwind"} /\ fatal' = fatal
    <2>1. Reasons(ns', None, pc', sched')
      BY <1>1, <1>2, <1>3, <1>5, WalkReasons
    <2>. QED
      BY <1>1, <1>2, <1>5, <2>1 DEF GoesOn
  <1>6. CASE Substitute
    <2>1. /\ ~SubEmpty(ns, ns.last) /\ fatal' = fatal /\ ns' = [ns EXCEPT !.err = ""]
          /\ pc' = IF ns.in_exec THEN "exec" ELSE "idle"
      BY <1>6 DEF Substitute, NoSubs, Return
    <2>2. ns.in_exec
      BY <1>1, <2>1 DEF GoesOn, Reasons
    <2>3. SameQueue(ns, ns') /\ ns'.last = ns.last
      BY <1>2, <2>1, MembersRes
    <2>4. ~SubEmpty(ns', ns'.last)
      BY <1>2, <2>1, <2>3, QueueStays
    <2>5. Ahead(ns', None)
      BY <2>4 DEF Ahead
    <2>6. Reasons(ns', None, "exec", TRUE)
      BY <1>3, <2>5 DEF Reasons, Uncalled
    <2>. QED
      BY <1>1, <1>2, <2>1, <2>2, <2>6 DEF GoesOn
  <1>. QED
    BY <1>4, <1>5, <1>6

----------------------------------------------------------------------------
(* sync() finds its objects: where there are steps that lock and unlock, or  *)
(* handlers that unlock, the one extended state in use has an object.        *)

LockFuncs == {"sync", "lock", "unlock"}

Locks(q) ==
    \/ \E s \in Slot : q.queue[s].func \in LockFuncs
    \/ \E i \in DOMAIN q.cancels : q.cancels[i].unlock

Objects(q) ==
    /\ Locks(q) => "sync" \in allow.may /\ q.object[0] # None
    /\ "sync" \in allow.may => \A x \in Slot : q.queue[x].ext = 0

\* A client that calls sync() has one extended state in use at a time.
OneState == \A m \in Mixes : "sync" \in m.may => m.extended = 1

\* No lock comes, no object goes, and a step at most loses its extended state.
Quieter(q, r) ==
    /\ r.object = q.object /\ (Locks(r) => Locks(q))
    /\ \A x \in Slot : r.queue[x].ext \in {0, q.queue[x].ext}

\* The order is transitive.
LEMMA QuietTwice ==
    ASSUME NEW q, NEW r, NEW t, Quieter(q, r), Quieter(r, t)
    PROVE  Quieter(q, t)
  BY DEF Quieter

\* A step that is quieter finds its objects too.
LEMMA QuietObjects ==
    ASSUME NEW q, NEW r, Quieter(q, r), Objects(q)
    PROVE  Objects(r)
  BY DEF Quieter, Objects

\* The handlers of steps change neither what the steps do nor on_cancel.
Coded(q) ==
    /\ {"object", "cancels", "queue"} \subseteq DOMAIN q /\ DOMAIN q.queue = Slot
    /\ \A x \in Slot : "func" \in DOMAIN q.queue[x] /\ "ext" \in DOMAIN q.queue[x]

SameCode(q, r) ==
    /\ Coded(r) /\ r.object = q.object /\ r.cancels = q.cancels
    /\ \A x \in Slot : /\ r.queue[x].func = q.queue[x].func
                       /\ r.queue[x].ext = q.queue[x].ext

\* Keeping the code is transitive.
LEMMA CodeTwice ==
    ASSUME NEW q, NEW r, NEW t, SameCode(q, r), SameCode(r, t)
    PROVE  SameCode(q, t)
  BY DEF SameCode

\* Where the code of the steps is kept, no lock comes.
LEMMA CodeQuiet ==
    ASSUME NEW q, NEW r, SameCode(q, r)
    PROVE  Quieter(q, r)
  BY DEF SameCode, Quieter, Locks

\* An instance of the right type has what is read here.
LEMMA InstanceCoded ==
    ASSUME NEW q \in Instance
    PROVE  Coded(q)
  <1>1. {"object", "cancels", "queue"} \subseteq DOMAIN q
    BY DEF Instance
  <1>2. q.queue \in [Slot -> StepData]
    BY InstanceTypes
  <1>. QED
    BY <1>1, <1>2 DEF Coded, StepData

\* One slot changes, but for what its step does.
LEMMA SlotCode ==
    ASSUME NEW q, Coded(q), NEW s \in Slot, NEW step, {"func", "ext"} \subseteq DOMAIN step,
           step.func = q.queue[s].func, step.ext = q.queue[s].ext
    PROVE  SameCode(q, [q EXCEPT !.queue[s] = step])
  BY DEF SameCode, Coded

\* The members of an instance beside the ring are no code.
LEMMA MembersCode ==
    ASSUME NEW q, Coded(q)
    PROVE  /\ SameCode(q, q)
           /\ \A x : SameCode(q, [q EXCEPT !.err = x])
           /\ \A x : SameCode(q, [q EXCEPT !.last = x])
           /\ \A x : SameCode(q, [q EXCEPT !.armed = x])
           /\ \A x : SameCode(q, [q EXCEPT !.allocs = x])
           /\ \A x : SameCode(q, [q EXCEPT !.in_exec = x])
           /\ \A x, y : SameCode(q, [q EXCEPT !.handle = x, !.runs = y])
           /\ \A x, y, z : SameCode(q, [q EXCEPT !.in_exec = x, !.handle = y, !.runs = z])
           /\ SameCode(q, Scheduled(q))
  BY DEF SameCode, Coded, Scheduled

\* Nor are the fields that the handlers write.
LEMMA FieldsCode ==
    ASSUME NEW q, Coded(q), NEW s \in Slot
    PROVE  /\ \A b : SameCode(q, [q EXCEPT !.queue[s].asked = b])
           /\ \A b : SameCode(q, [q EXCEPT !.queue[s].repeat = b])
           /\ \A b : SameCode(q, [q EXCEPT !.queue[s].wait = b])
           /\ \A b, c : SameCode(q, [q EXCEPT !.queue[s].repeat = b,
                                              !.queue[s].on_error = c])
           /\ \A a, b : SameCode(q, [q EXCEPT !.allocs = a, !.queue[s].allocs = b])
           /\ \A t, a, b : SameCode(q, [q EXCEPT !.timeouts = t, !.armed = a,
                                                 !.queue[s].timeout = b])
  BY DEF SameCode, Coded

\* The handler of the innermost step returns, succeeds or fails.
LEMMA ReturnsCode ==
    ASSUME NEW q, Coded(q), q.last \in Slot,
           Returned(q) \/ Succeed(q) \/ \E code : Raise(q, code)
    PROVE  SameCode(q, ns')
  <1>1. ns' = q \/ \E code : ns' = [q EXCEPT !.err = code]
          \/ \E b : ns' = [q EXCEPT !.queue[q.last].asked = b]
    BY DEF Returned, Succeed, Raise
  <1>2. CASE ns' = q
    <2>1. SameCode(q, q)
      BY MembersCode
    <2>. QED
      BY <1>2, <2>1
  <1>3. CASE \E code : ns' = [q EXCEPT !.err = code]
    <2>1. PICK code : ns' = [q EXCEPT !.err = code]
      BY <1>3
    <2>2. SameCode(q, [q EXCEPT !.err = code])
      BY MembersCode
    <2>. QED
      BY <2>1, <2>2
  <1>4. CASE \E b : ns' = [q EXCEPT !.queue[q.last].asked = b]
    <2>1. PICK b : ns' = [q EXCEPT !.queue[q.last].asked = b]
      BY <1>4
    <2>2. SameCode(q, [q EXCEPT !.queue[q.last].asked = b])
      BY FieldsCode
    <2>. QED
      BY <2>1, <2>2
  <1>. QED
    BY <1>1, <1>2, <1>3, <1>4

\* What is dropped from the stack of on_cancel handlers brings no lock.
LEMMA DroppedQuiet ==
    ASSUME NEW q \in Instance, NEW r, NEW n \in Nat, r.object = q.object,
           r.cancels = Drop(q.cancels, n),
           \A x \in Slot : r.queue[x].func \in LockFuncs =>
                               q.queue[x].func \in LockFuncs,
           \A x \in Slot : r.queue[x].ext \in {0, q.queue[x].ext}
    PROVE  Quieter(q, r)
  <1>1. q.cancels \in Seq([step : Slot, unlock : BOOLEAN])
    BY InstanceTypes
  <1>2. /\ Len(r.cancels) <= Len(q.cancels) /\ DOMAIN r.cancels = 1 .. Len(r.cancels)
        /\ \A i \in 1 .. Len(r.cancels) : r.cancels[i] = q.cancels[i]
        /\ r.cancels \in Seq([step : Slot, unlock : BOOLEAN])
    BY <1>1, Dropped
  <1>3. \A i \in DOMAIN r.cancels : i \in DOMAIN q.cancels
    BY <1>1, <1>2
  <1>. QED
    BY <1>2, <1>3 DEF Quieter, Locks

\* The same of the whole stack.
LEMMA CancelsQuiet ==
    ASSUME NEW q, NEW r, r.object = q.object, r.cancels = q.cancels,
           \A x \in Slot : r.queue[x].func \in LockFuncs =>
                               q.queue[x].func \in LockFuncs,
           \A x \in Slot : r.queue[x].ext \in {0, q.queue[x].ext}
    PROVE  Quieter(q, r)
  BY DEF Quieter, Locks

\* The methods that free steps.
LEMMA FreedQuiet ==
    ASSUME NEW q \in Instance, NEW s \in Slot
    PROVE  /\ \A r : Freed(q, r, s) => Quieter(q, r)
           /\ \A r, n : UsedUp(q, r, s, n) => Quieter(q, r)
           /\ \A r : Shifted(q, r, s) => Quieter(q, r)
           /\ \A r, k : Cut(q, r, k) => Quieter(q, r)
           /\ \A r : RootGone(q, r) => Quieter(q, r)
           /\ \A r : Emptied(q, r) => Quieter(q, r)
           /\ \A r : SameQueue(q, r) => Quieter(q, r)
  <1>1. ASSUME NEW r, Freed(q, r, s)
        PROVE  Quieter(q, r)
    <2> DEFINE n == IF q.queue[s].cancel THEN 1 ELSE 0
    <2>1. /\ n \in Nat /\ r.cancels = Drop(q.cancels, n) /\ r.object = q.object
          /\ \A x \in Slot : r.queue[x].func = q.queue[x].func
                             /\ r.queue[x].ext = q.queue[x].ext
      BY <1>1 DEF Freed, SameMembers, SameSteps
    <2> HIDE DEF n
    <2>. QED
      BY <2>1, DroppedQuiet
  <1>2. ASSUME NEW r, NEW start, UsedUp(q, r, s, start)
        PROVE  Quieter(q, r)
    <2> DEFINE n == IF q.queue[s].cancel THEN 1 ELSE 0
    <2>1. /\ n \in Nat /\ r.cancels = Drop(q.cancels, n) /\ r.object = q.object
          /\ \A x \in Slot : r.queue[x].func = q.queue[x].func
                             /\ r.queue[x].ext = q.queue[x].ext
      BY <1>2 DEF UsedUp, SameMembers
    <2> HIDE DEF n
    <2>. QED
      BY <2>1, DroppedQuiet
  <1>3. ASSUME NEW r, Shifted(q, r, s)
        PROVE  Quieter(q, r)
    BY <1>3, CancelsQuiet DEF Shifted, SameMembers
  <1>4. \A x \in Slot : /\ Left(q.queue[x]).func \notin LockFuncs
                        /\ Left(q.queue[x]).ext \in {0, q.queue[x].ext}
    BY LeftData, InstanceTypes DEF LockFuncs
  <1>5. ASSUME NEW r, NEW k, Cut(q, r, k)
        PROVE  Quieter(q, r)
    BY <1>4, <1>5, CancelsQuiet DEF Cut
  <1>6. ASSUME NEW r, RootGone(q, r)
        PROVE  Quieter(q, r)
    <2>1. q.begin \in Slot
      BY InstanceTypes
    <2>. QED
      BY <1>4, <1>6, <2>1, CancelsQuiet DEF RootGone
  <1>7. ASSUME NEW r, Emptied(q, r)
        PROVE  Quieter(q, r)
    BY <1>4, <1>7, CancelsQuiet DEF Emptied
  <1>8. ASSUME NEW r, SameQueue(q, r)
        PROVE  Quieter(q, r)
    BY <1>8, CancelsQuiet DEF SameQueue
  <1>. QED
    BY <1>1, <1>2, <1>3, <1>5, <1>6, <1>7, <1>8

\* Only sync() adds a step that locks, and gives the state it takes its object.
LEMMA AddQuiet ==
    ASSUME TreeInv, Roomy, OneState, Objects(ns), Add
    PROVE  Objects(ns')
  <1>1. /\ allow \in Mixes /\ ns \in Instance /\ Sound(ns, allow)
        /\ ns.last \in Slot \cup {None}
    BY Here
  <1>2. PICK kind \in Kinds : Fits(kind) /\ ns' = AddStep(ns, ns.last, kind)
    BY DEF Add
  <1> DEFINE s == QueueEnd(ns)
  <1>3. ns.size + 1 < MaxSteps /\ (kind.func # "user" => ns.used # Ext)
    <2> DEFINE n == Cardinality(SyncsToRun)
               d == IF kind.func = "sync" THEN 1 ELSE 0
    <2>1. n \in Nat
      <3>1. SyncsToRun = Syncs(ns)
        BY DEF SyncsToRun, Syncs, Alive
      <3>. QED
        BY <1>1, <3>1, SyncsCounted
    <2>2. d \in 0 .. 1
      OBVIOUS
    <2>3. /\ ns.size + 1 + 3 * (n + d) <= allow.steps
          /\ kind.func # "user" => Cardinality(ns.used) < allow.extended
      BY <1>2 DEF Fits
    <2>4. kind.func # "user" => ns.used # Ext
      BY <1>1, <2>3, OneUnused
    <2>5. allow.steps \in Nat /\ allow.steps < MaxSteps /\ MaxSteps \in Nat /\ ns.size \in Nat
      BY <1>1, Bounds, InstanceTypes DEF Roomy
    <2> HIDE DEF n, d
    <2>. QED
      BY <2>1, <2>2, <2>3, <2>4, <2>5
  <1>4. /\ Allocated(ns, ns', s, ns.last, kind.func)
        /\ Plain(ns, ns', s) \/ Extended(ns, ns', s)
    BY <1>1, <1>2, <1>3, StepAdded
  <1>5. \/ kind.func \in {"user", "loop", "await"} /\ kind.object = None
        \/ kind.func = "sync" /\ kind.object \in Object /\ "sync" \in allow.may
    BY <1>2 DEF Kinds
  <1> DEFINE b == AllocStep(ns, ns.last, kind.func)
  <1>6. b \in Instance /\ b.object = ns.object /\ b.used = ns.used /\ Plain(ns, b, s)
    <2>1. Allocated(ns, b, s, ns.last, kind.func) /\ Plain(ns, b, s)
      BY <1>1, <1>3, <1>5, StepAllocated
    <2> HIDE DEF b, s
    <2>. QED
      BY <2>1 DEF Allocated, Plain
  <1> DEFINE e == CHOOSE e \in Ext \ b.used : \A d \in Ext \ b.used : e <= d
             o == IF kind.object = None THEN b.object[e] ELSE kind.object
  <1>7. \/ kind.func = "user" /\ ns'.object = b.object
        \/ kind.func # "user" /\ ns'.object = [b.object EXCEPT ![e] = o]
    <2>1. {"object"} \subseteq DOMAIN b
      BY <1>6 DEF Instance
    <2>2. ns' = IF kind.func = "user" THEN [b EXCEPT !.queue[s].on_error = kind.on_error]
                ELSE AllocExtended(b, s, kind.object)
      BY <1>2 DEF AddStep
    <2> HIDE DEF b
    <2>. QED
      BY <2>1, <2>2 DEF AllocExtended
  <1> HIDE DEF b, s
  <1>8. b.object \in [Ext -> Object \cup {None}] /\ 0 \in Ext
    <2>1. 0 \in Ext
      BY Bounds DEF Ext
    <2>. QED
      BY <1>6, <2>1, InstanceTypes
  <1>9. ASSUME "sync" \in allow.may, kind.func # "user"
        PROVE  b.used = {}
    <2>1. Cardinality(ns.used) < allow.extended /\ allow.extended = 1
      <3>1. Cardinality(ns.used) < allow.extended
        BY <1>2, <1>9 DEF Fits
      <3>2. allow.extended = 1
        BY <1>1, <1>9 DEF OneState
      <3>. QED
        BY <3>1, <3>2
    <2>2. ns.used \subseteq Ext
      BY <1>1, InstanceTypes
    <2>3. IsFiniteSet(Ext)
      <3>1. MaxExtended \in Nat \ {0}
        BY Bounds
      <3>2. IsFiniteSet(0 .. MaxExtended - 1)
        BY <3>1, FS_Interval
      <3>. QED
        BY <3>2 DEF Ext
    <2>4. IsFiniteSet(ns.used) /\ Cardinality(ns.used) \in Nat
      BY <2>2, <2>3, FS_Subset, FS_CardinalityType
    <2>5. Cardinality(ns.used) = 0
      BY <2>1, <2>4
    <2>. QED
      BY <1>6, <2>4, <2>5, FS_EmptySet
  <1>10. ASSUME "sync" \in allow.may, kind.func # "user"
         PROVE  e = 0
    <2>1. \A d \in Ext \ b.used : 0 <= d
      BY Bounds DEF Ext
    <2>2. 0 \in Ext \ b.used
      BY <1>8, <1>9, <1>10
    <2>3. \A d \in Ext : d \in Nat
      BY Bounds DEF Ext
    <2>4. e \in Ext \ b.used /\ \A d \in Ext \ b.used : e <= d
      BY <2>1, <2>2
    <2> HIDE DEF e
    <2>. QED
      BY <2>1, <2>2, <2>3, <2>4
  <1>11. ASSUME "sync" \in allow.may, NEW x \in Slot
         PROVE  ns'.queue[x].ext = 0
    <2>1. \A y \in Slot : ns.queue[y].ext = 0
      BY <1>11 DEF Objects
    <2>2. CASE x # s
      BY <1>4, <1>11, <2>1, <2>2 DEF Allocated
    <2>3. CASE x = s
      <3>1. CASE Plain(ns, ns', s)
        BY <1>11, <2>1, <2>3, <3>1 DEF Plain
      <3>2. CASE Extended(ns, ns', s) /\ kind.func # "user"
        <4>1. ns' = AllocExtended(b, s, kind.object)
          BY <1>2, <3>2 DEF AddStep, b, s
        <4>2. b.queue \in [Slot -> StepData]
          BY <1>6, InstanceTypes
        <4> DEFINE queue == [b.queue EXCEPT ![s].extended = TRUE, ![s].ext = e]
        <4>3. ns'.queue = queue
          BY <1>6, <4>1 DEF AllocExtended, Instance
        <4> HIDE DEF e
        <4>4. queue[s].ext = e
          BY <1>11, <2>3, <4>2 DEF StepData
        <4>. QED
          BY <1>10, <1>11, <2>3, <3>2, <4>3, <4>4
      <3>3. CASE kind.func = "user"
        <4>1. ns' = [b EXCEPT !.queue[s].on_error = kind.on_error]
          BY <1>2, <3>3 DEF AddStep, b, s
        <4>2. b.queue \in [Slot -> StepData] /\ b.queue[s].ext \in {0, ns.queue[s].ext}
          BY <1>6, InstanceTypes DEF Plain
        <4> DEFINE queue == [b.queue EXCEPT ![s].on_error = kind.on_error]
        <4>3. ns'.queue = queue
          BY <1>6, <4>1 DEF Instance
        <4>4. queue[s].ext = b.queue[s].ext
          BY <1>11, <2>3, <4>2 DEF StepData
        <4> HIDE DEF queue
        <4>. QED
          BY <1>11, <2>1, <2>3, <4>2, <4>3, <4>4
      <3>. QED
        BY <1>4, <3>1, <3>2, <3>3
    <2>. QED
      BY <2>2, <2>3
  <1>12. CASE kind.func # "sync"
    <2>1. ns'.object = ns.object
      <3>1. kind.object = None
        BY <1>5, <1>12
      <3> HIDE DEF e
      <3>. QED
        BY <1>6, <1>7, <1>8, <3>1
    <2>2. \A x \in Slot : ns'.queue[x].func \in LockFuncs => ns.queue[x].func \in LockFuncs
      BY <1>4, <1>5, <1>12 DEF Allocated, LockFuncs
    <2>3. ns'.cancels = ns.cancels
      BY <1>4 DEF Allocated
    <2>4. Locks(ns') => Locks(ns)
      BY <2>2, <2>3 DEF Locks
    <2>. QED
      BY <1>11, <2>1, <2>4 DEF Objects
  <1>13. CASE kind.func = "sync"
    <2>1. "sync" \in allow.may /\ e = 0
      BY <1>5, <1>10, <1>13
    <2> HIDE DEF e
    <2>2. kind.object # None
      BY <1>5, <1>13, NitroAssumption
    <2>3. ns'.object[0] = kind.object
      BY <1>7, <1>8, <1>13, <2>1, <2>2
    <2>. QED
      BY <1>11, <2>1, <2>2, <2>3 DEF Objects
  <1>. QED
    BY <1>12, <1>13

\* The next step is called.
LEMMA StartedQuiet ==
    ASSUME TreeInv, pc = "exec", NextStep \in Alive
    PROVE  /\ Coded(Started) /\ Quieter(ns, Started) /\ Started.last = NextStep
           /\ NextStep \in Slot /\ Started.object = ns.object /\ ns \in Instance
  <1>1. /\ Begun(ns, Started, NextStep, allow) /\ NextStep \in Slot /\ ns \in Instance
        /\ Started \in Instance /\ Started.last = NextStep
        /\ Started.queue[NextStep].func = ns.queue[NextStep].func
    BY Called
  <1>2. \A x \in Slot : /\ Started.queue[x].func = ns.queue[x].func
                        /\ Started.queue[x].ext = ns.queue[x].ext
    <2>1. ns.queue[NextStep] \in StepData
      BY <1>1, InstanceTypes
    <2>2. /\ \A x \in Slot \ {NextStep} : Started.queue[x] = ns.queue[x]
          /\ Started.queue[NextStep] =
               [ns.queue[NextStep] EXCEPT !.start = QueueEnd(ns), !.front = QueueEnd(ns),
                                          !.ran = TRUE, !.asked = FALSE]
      BY <1>1 DEF Begun
    <2>3. Started.queue[NextStep].ext = ns.queue[NextStep].ext
      BY <2>1, <2>2 DEF StepData
    <2>. QED
      BY <1>1, <2>2, <2>3
  <1>3. Started.object = ns.object /\ Started.cancels = ns.cancels
    BY <1>1 DEF Begun
  <1>. QED
    BY <1>1, <1>2, <1>3, InstanceCoded, CancelsQuiet

\* A new step has the extended state that its slot was left with, or none.
LEMMA AllocKeeps ==
    ASSUME NEW q, Coded(q), NEW parent, NEW func
    PROVE  /\ Coded(AllocStep(q, parent, func))
           /\ \A x \in Slot : AllocStep(q, parent, func).queue[x].ext \in {0, q.queue[x].ext}
  <1> DEFINE s == QueueEnd(q)
             step == [Left(q.queue[s]) EXCEPT !.func = func, !.parent = parent]
             queue == [q.queue EXCEPT ![s] = step]
             n == q.size + 1
  <1>1. AllocStep(q, parent, func) = [q EXCEPT !.size = n, !.queue = queue]
    BY DEF AllocStep
  <1>2. /\ {"func", "ext"} \subseteq DOMAIN step
        /\ step.ext \in {0, q.queue[s].ext}
    BY DEF Left, Fresh
  <1> HIDE DEF s, step, n
  <1>3. /\ DOMAIN queue = Slot
        /\ \A x \in Slot : queue[x] = IF x = s THEN step ELSE q.queue[x]
    BY DEF Coded
  <1> HIDE DEF queue
  <1>. QED
    BY <1>1, <1>2, <1>3 DEF Coded

\* So have the three steps of sync(), and the sync step itself keeps its own.
LEMMA SyncKeeps ==
    ASSUME NEW b, Coded(b), NEW s, NEW on_error
    PROVE  LET u == SyncSubs(b, s, on_error)
           IN  Coded(u) /\ \A x \in Slot : u.queue[x].ext \in {0, b.queue[x].ext}
  <1> DEFINE c == SetCancel(b, TRUE)
             q == AllocStep(c, s, "lock")
             t == AllocStep(q, s, "body")
             e == QueueEnd(q)
             r == [t EXCEPT !.queue[e].on_error = on_error]
             u == SyncSubs(b, s, on_error)
  <1>1. u = AllocStep(r, s, "unlock")
    BY DEF SyncSubs
  <1>2. Coded(c) /\ \A x \in Slot : c.queue[x].ext = b.queue[x].ext
    BY DEF SetCancel, Coded
  <1> HIDE DEF c
  <1>3. Coded(q) /\ \A x \in Slot : q.queue[x].ext \in {0, c.queue[x].ext}
    BY <1>2, AllocKeeps
  <1> HIDE DEF q, e
  <1>4. Coded(t) /\ \A x \in Slot : t.queue[x].ext \in {0, q.queue[x].ext}
    BY <1>3, AllocKeeps
  <1> HIDE DEF t
  <1>5. Coded(r) /\ \A x \in Slot : r.queue[x].ext = t.queue[x].ext
    BY <1>4 DEF Coded
  <1> HIDE DEF r
  <1>6. /\ Coded(u)
        /\ \A x \in Slot : u.queue[x].ext \in {0, r.queue[x].ext}
    BY <1>1, <1>5, AllocKeeps
  <1> HIDE DEF u
  <1>7. \A x \in Slot : u.queue[x].ext \in {0, b.queue[x].ext}
    BY <1>2, <1>3, <1>4, <1>5, <1>6
  <1>. QED
    BY <1>6, <1>7 DEF u

\* One step of a burst adds no lock but by the handler of a sync() step.
LEMMA RunQuiet ==
    ASSUME TreeInv, GoesOn, Objects(ns), RunStep
    PROVE  Objects(ns')
  <1>1. pc = "exec" /\ MoreToRun
    BY DEF RunStep
  <1>2. NextStep \in Alive
    BY <1>1, NextInUse
  <1>3. Handler(ns.queue[NextStep].func)
    BY <1>2 DEF RunStep
  <1>4. /\ Coded(Started) /\ Quieter(ns, Started) /\ Started.last = NextStep
        /\ NextStep \in Slot /\ Started.object = ns.object /\ ns \in Instance
    BY <1>1, <1>2, StartedQuiet
  <1>5. Objects(Started)
    BY <1>4, QuietObjects
  <1>6. ASSUME NEW q, SameCode(Started, q), q.last = NextStep,
               Returned(q) \/ \E code : Raise(q, code)
        PROVE  Objects(ns')
    <2>1. SameCode(q, ns')
      BY <1>4, <1>6, ReturnsCode DEF SameCode
    <2>. QED
      BY <1>5, <1>6, <2>1, CodeTwice, CodeQuiet, QuietObjects
  <1>7. {"last", "object"} \subseteq DOMAIN Started
    BY <1>1, <1>2, Called DEF Instance
  <1>8. CASE ns' = Started
    BY <1>5, <1>8
  <1>9. CASE LoopHandler
    <2> DEFINE kept == Drop(Started.allocs, ns.queue[NextStep].allocs)
               q == [Started EXCEPT !.allocs = kept, !.queue[NextStep].allocs = 0]
               again == [q EXCEPT !.queue[NextStep].repeat = TRUE,
                                  !.queue[NextStep].on_error = "loop"]
               over == [q EXCEPT !.queue[NextStep].repeat = FALSE]
    <2>1. ns' = again \/ Returned(over)
      BY <1>9 DEF LoopHandler
    <2> HIDE DEF kept
    <2>2. SameCode(Started, q)
      BY <1>4, FieldsCode
    <2>3. q.last = Started.last /\ over.last = q.last
      BY <1>7
    <2> HIDE DEF q
    <2>4. Coded(q)
      BY <2>2 DEF SameCode
    <2>5. SameCode(q, over) /\ SameCode(q, again)
      BY <1>4, <2>4, FieldsCode
    <2> HIDE DEF over, again
    <2>6. SameCode(Started, over) /\ SameCode(Started, again)
      BY <2>2, <2>5, CodeTwice
    <2>7. CASE ns' = again
      BY <1>5, <2>6, <2>7, CodeQuiet, QuietObjects
    <2>8. CASE Returned(over)
      BY <1>4, <1>6, <2>3, <2>6, <2>8
    <2>. QED
      BY <2>1, <2>7, <2>8
  <1>10. CASE AwaitHandler
    <2> DEFINE q == [Started EXCEPT !.queue[NextStep].repeat = FALSE]
               again == [q EXCEPT !.queue[NextStep].repeat = TRUE]
    <2>1. Returned(q) \/ Returned(again) \/ Raise(q, "Error")
      BY <1>10 DEF AwaitHandler
    <2>2. SameCode(Started, q)
      BY <1>4, FieldsCode
    <2>3. q.last = Started.last /\ again.last = q.last
      BY <1>7
    <2> HIDE DEF q
    <2>4. Coded(q)
      BY <2>2 DEF SameCode
    <2>5. SameCode(q, again)
      BY <1>4, <2>4, FieldsCode
    <2> HIDE DEF again
    <2>6. SameCode(Started, again)
      BY <2>2, <2>5, CodeTwice
    <2>. QED
      BY <1>4, <1>6, <2>1, <2>2, <2>3, <2>6
  <1>11. CASE ns.queue[NextStep].func = "sync" /\ SyncHandler
    <2>1. PICK on_error : Returned(SyncSubs(Started, NextStep, on_error))
      BY <1>11 DEF SyncHandler, SyncSubs
    <2> DEFINE u == SyncSubs(Started, NextStep, on_error)
    <2>2. {"last", "object"} \subseteq DOMAIN u /\ u.object = ns.object
      BY <1>4, <1>7, SyncFocus DEF SameFocus
    <2> HIDE DEF u
    <2>3. ns'.object = u.object
      BY <2>1, <2>2 DEF Returned, Succeed, Raise, u
    <2>4. Locks(ns)
      BY <1>4, <1>11 DEF Locks, LockFuncs
    <2>5. \A x \in Slot : ns'.queue[x].ext \in {0, Started.queue[x].ext}
      <3>1. Coded(u) /\ \A x \in Slot : u.queue[x].ext \in {0, Started.queue[x].ext}
        BY <1>4, SyncKeeps DEF u
      <3>2. u.last = NextStep
        BY <1>4, <1>7, SyncFocus DEF SameFocus, u
      <3>3. SameCode(u, ns')
        BY <1>4, <2>1, <3>1, <3>2, ReturnsCode DEF u
      <3>. QED
        BY <3>1, <3>3 DEF SameCode
    <2>. QED
      BY <1>5, <2>2, <2>3, <2>4, <2>5 DEF Objects
  <1>12. CASE LockHandler
    <2> DEFINE w == WaitExternal(Started)
    <2>1. \/ Returned(Started) \/ Returned(w) \/ Raise(Started, "Error")
          \/ ns' = ns
      BY <1>12 DEF LockHandler, Stop
    <2>2. SameCode(Started, w) /\ SameCode(Started, Started)
      BY <1>4, FieldsCode, MembersCode DEF WaitExternal
    <2>3. w.last = Started.last
      BY <1>7, HandlersFocus DEF SameFocus
    <2> HIDE DEF w
    <2>. QED
      BY <1>4, <1>6, <2>1, <2>2, <2>3
  <1>13. CASE UnlockHandler
    <2>1. Returned(Started) /\ SameCode(Started, Started)
      BY <1>4, <1>13, MembersCode DEF UnlockHandler
    <2>. QED
      BY <1>4, <1>6, <2>1
  <1>. QED
    BY <1>3, <1>8, <1>9, <1>10, <1>11, <1>12, <1>13 DEF Handler

\* What the level cur leaves, and what cancel() leaves of the innermost one.
LEMMA LevelsQuiet ==
    ASSUME TreeInv, NEW s \in Slot
    PROVE  /\ \A q \in Instance : Quieter(q, FreeStep(q, s))
           /\ pc = "unwind" /\ cur = s => Unwound \in Instance /\ Quieter(ns, Unwound)
  <1>1. ASSUME NEW q \in Instance
        PROVE  Quieter(q, FreeStep(q, s))
    BY StepFreed, FreedQuiet
  <1>2. ASSUME pc = "unwind", cur = s
        PROVE  Unwound \in Instance /\ Quieter(ns, Unwound)
    <2> DEFINE t == SubQueueFree(ns, cur)
               start == ns.queue[cur].start
               k == Offset(ns, start)
    <2>1. /\ ns \in Instance /\ allow \in Mixes /\ Sound(ns, allow) /\ ns.last = cur
          /\ TreeOf(ns, cur)
      BY <1>2, Here DEF TreeInv, Walk, TreeThere, Control
    <2>2. start \in Slot
      BY <1>2, <2>1, InstanceTypes, ZenonT(60) DEF StepData
    <2>3. k \in 0 .. ns.size
      <3>1. k <= ns.size
        BY <1>2, <2>1, TipInUse, MarksOf
      <3>2. k \in 0 .. MaxSteps - 1 /\ MaxSteps \in Nat /\ ns.size \in Nat
        BY <2>1, <2>2, SlotInRing, Bounds, InstanceTypes
      <3>. QED
        BY <3>1, <3>2
    <2>4. Cut(ns, t, k)
      BY <1>2, <2>1, <2>3, SubFreed
    <2>5. t \in Instance
      BY <2>4 DEF Cut
    <2>6. Unwound = PopCancel(PopTimeout([t EXCEPT !.queue[cur].front = start,
                                                   !.queue[cur].on_error = "none"],
                                         cur), cur)
      BY DEF Unwound
    <2> HIDE DEF t, start, k
    <2>7. UsedUp(t, Unwound, cur, start)
      BY <1>2, <2>2, <2>5, <2>6, LevelUsedUp
    <2>8. Quieter(ns, t) /\ Quieter(t, Unwound)
      BY <1>2, <2>1, <2>4, <2>5, <2>7, FreedQuiet
    <2>. QED
      BY <2>7, <2>8, QuietTwice DEF UsedUp
  <1>. QED
    BY <1>1, <1>2

\* The next level up.
LEMMA UpwardsQuiet ==
    ASSUME TreeInv, cur \in Slot, NEW q \in Instance, NEW code, Upwards(q, code)
    PROVE  Quieter(q, ns')
  <1> DEFINE f == FreeStep(q, cur)
             e == [f EXCEPT !.last = ns.queue[cur].parent]
  <1>1. ns' = [f EXCEPT !.last = ns.queue[cur].parent, !.err = code]
    BY DEF Upwards
  <1>2. Quieter(q, f) /\ Coded(f)
    BY LevelsQuiet, StepFreed, InstanceCoded DEF Freed
  <1> HIDE DEF f
  <1>3. SameCode(f, e)
    BY <1>2, MembersCode
  <1>4. ns' = [e EXCEPT !.err = code]
    BY <1>1
  <1> HIDE DEF e
  <1>5. SameCode(e, ns')
    <2>1. Coded(e)
      BY <1>3 DEF SameCode
    <2>2. SameCode(e, [e EXCEPT !.err = code])
      BY <2>1, MembersCode
    <2>. QED
      BY <1>4, <2>2
  <1>. QED
    BY <1>2, <1>3, <1>5, CodeTwice, CodeQuiet, QuietTwice

\* A level handles the error, or does not.
LEMMA UnwindQuiet ==
    ASSUME TreeInv, Unwind
    PROVE  Quieter(ns, ns')
  <1>1. pc = "unwind" /\ cur \in Slot
    BY Here DEF Unwind
  <1> DEFINE v == Unwound
             again == ns.err # "break"
             e == [v EXCEPT !.err = ""]
             q == [v EXCEPT !.err = "", !.queue[cur].repeat = @ /\ again]
  <1>2. v \in Instance /\ Quieter(ns, v)
    BY <1>1, LevelsQuiet
  <1>3. \/ ns' = v
        \/ Upwards(v, ns.err)
        \/ ns' = q
    BY DEF Unwind, Succeed
  <1> HIDE DEF v
  <1>4. CASE Upwards(v, ns.err)
    BY <1>1, <1>2, <1>4, UpwardsQuiet, QuietTwice
  <1>5. CASE ns' = q
    <2> DEFINE b == e.queue[cur].repeat /\ again
    <2>1. SameCode(v, e)
      BY <1>2, InstanceCoded, MembersCode
    <2>2. q = [e EXCEPT !.queue[cur].repeat = b]
      BY <1>2 DEF Instance
    <2> HIDE DEF e, b, q
    <2>3. SameCode(e, q)
      <3>1. Coded(e)
        BY <2>1 DEF SameCode
      <3>2. SameCode(e, [e EXCEPT !.queue[cur].repeat = b])
        BY <1>1, <3>1, FieldsCode
      <3>. QED
        BY <2>2, <3>2
    <2>. QED
      BY <1>2, <1>5, <2>1, <2>3, CodeTwice, CodeQuiet, QuietTwice
  <1>. QED
    BY <1>2, <1>3, <1>4, <1>5

\* The walk up frees steps.
LEMMA ClimbQuiet ==
    ASSUME TreeInv, Climb
    PROVE  Quieter(ns, ns')
  <1> DEFINE q == ShiftSub(ns, cur)
             f == FreeStep(ns, ns.queue[cur].front)
             u == [q EXCEPT !.last = cur]
             t == SubQueueFree(q, cur)
  <1>1. /\ ns \in Instance /\ allow \in Mixes /\ Sound(ns, allow) /\ cur \in Slot
        /\ TreeOf(ns, cur) /\ Front(ns, cur) < ns.size /\ FrontStep(ns, cur).ran
    BY Here DEF Climb, TreeInv, Walk, TreeThere, Climbing
  <1>2. ns' = t \/ ns' = Scheduled(u)
    BY DEF Climb
  <1>3. ns.queue[cur].front \in Slot /\ ns.queue[cur].start \in Slot
    BY <1>1, InstanceTypes, ZenonT(60) DEF StepData
  <1>4. q \in Instance /\ Quieter(ns, q)
    <2>1. CASE ns.queue[ns.queue[cur].front].repeat
      <3>1. q = ns
        BY <2>1 DEF ShiftSub
      <3>. QED
        BY <1>1, <3>1 DEF Quieter
    <2>2. CASE ~ns.queue[ns.queue[cur].front].repeat
      <3>1. Shifted(f, q, cur) /\ f \in Instance /\ Quieter(ns, f)
        BY <1>1, <1>3, <2>2, FrontShifted, LevelsQuiet, StepFreed DEF Freed
      <3> HIDE DEF f, q
      <3>2. Quieter(f, q)
        BY <1>1, <3>1, FreedQuiet
      <3>. QED
        BY <3>1, <3>2, QuietTwice DEF Shifted
    <2>. QED
      BY <2>1, <2>2
  <1>5. q.begin = ns.begin /\ q.size = ns.size /\ q.queue[cur].start = ns.queue[cur].start
    <2>1. CASE ns.queue[ns.queue[cur].front].repeat
      BY <2>1 DEF ShiftSub
    <2>2. CASE ~ns.queue[ns.queue[cur].front].repeat
      <3>1. Shifted(f, q, cur) /\ Freed(ns, f, ns.queue[cur].front)
        BY <1>1, <1>3, <2>2, FrontShifted, StepFreed
      <3> HIDE DEF f, q
      <3>. QED
        BY <1>1, <3>1, ZenonT(60) DEF Shifted, Freed, SameMembers, SameSteps
    <2>. QED
      BY <2>1, <2>2
  <1> HIDE DEF q
  <1>6. Quieter(q, t)
    <2> DEFINE k == Offset(q, q.queue[cur].start)
    <2>1. k \in 0 .. q.size
      <3>1. k <= ns.size
        BY <1>1, <1>5, TipInUse, MarksOf DEF Offset
      <3>2. k \in 0 .. MaxSteps - 1 /\ MaxSteps \in Nat /\ q.size \in Nat
        BY <1>3, <1>4, <1>5, SlotInRing, Bounds, InstanceTypes
      <3>. QED
        BY <1>5, <3>1, <3>2
    <2>2. Cut(q, t, k)
      BY <1>1, <1>4, <2>1, SubFreed
    <2> HIDE DEF k, t
    <2>. QED
      BY <1>1, <1>4, <2>2, FreedQuiet
  <1>7. Quieter(q, Scheduled(u))
    <2>1. SameCode(q, u)
      BY <1>4, InstanceCoded, MembersCode
    <2> HIDE DEF u
    <2>2. SameCode(u, Scheduled(u))
      <3>1. Coded(u)
        BY <2>1 DEF SameCode
      <3>. QED
        BY <3>1, MembersCode
    <2>. QED
      BY <2>1, <2>2, CodeTwice, CodeQuiet
  <1> HIDE DEF t, u
  <1>. QED
    BY <1>2, <1>4, <1>6, <1>7, QuietTwice

\* So does its end.
LEMMA ClimbRootQuiet ==
    ASSUME TreeInv, ClimbRoot
    PROVE  Quieter(ns, ns')
  <1> DEFINE b == [ns EXCEPT !.last = None]
             r == ShiftRoot(b)
             f == FreeStep(b, b.begin)
  <1>1. ns \in Instance /\ Front(ns, None) < ns.size
    BY Here DEF TreeInv, Walk, Climbing, ClimbRoot
  <1>2. ns' = IF r.size # 0 THEN Scheduled(r) ELSE r
    BY DEF ClimbRoot
  <1>3. SameQueue(ns, b)
    BY <1>1, MembersSet
  <1> HIDE DEF b
  <1>4. b \in Instance /\ b.begin \in Slot /\ 0 < b.size /\ Quieter(ns, b)
    <2>1. Front(ns, None) = 0
      BY DEF Front, FrontOf
    <2>2. b \in Instance /\ 0 < b.size
      BY <1>1, <1>3, <2>1 DEF SameQueue
    <2>. QED
      BY <1>1, <1>3, <2>2, InstanceTypes, CancelsQuiet DEF SameQueue
  <1>5. r \in Instance /\ Quieter(b, r)
    <2>1. CASE b.queue[b.begin].repeat
      <3>1. r = b
        BY <2>1 DEF ShiftRoot
      <3>. QED
        BY <1>4, <3>1 DEF Quieter
    <2>2. CASE ~b.queue[b.begin].repeat
      <3>1. RootGone(f, r) /\ f \in Instance /\ Quieter(b, f)
        BY <1>4, <2>2, RootShifted, LevelsQuiet, StepFreed DEF Freed
      <3> HIDE DEF f, r
      <3>2. Quieter(f, r)
        BY <1>4, <3>1, FreedQuiet
      <3>. QED
        BY <3>1, <3>2, QuietTwice DEF RootGone
    <2>. QED
      BY <2>1, <2>2
  <1> HIDE DEF r
  <1>6. Quieter(r, ns')
    BY <1>2, <1>5, InstanceCoded, MembersCode, CodeQuiet
  <1>. QED
    BY <1>4, <1>5, <1>6, QuietTwice

\* What is put on a stack is on top of what was there.
LEMMA Appended ==
    ASSUME NEW S, NEW s \in Seq(S), NEW e
    PROVE  \A i \in DOMAIN Append(s, e) :
              Append(s, e)[i] = e \/ (i \in DOMAIN s /\ Append(s, e)[i] = s[i])
  <1>1. DOMAIN s = 1 .. Len(s) /\ Len(s) \in Nat
    OBVIOUS
  <1>2. DOMAIN Append(s, e) = 1 .. Len(s) + 1
    OBVIOUS
  <1>3. (\A i \in 1 .. Len(s) : Append(s, e)[i] = s[i]) /\ Append(s, e)[Len(s) + 1] = e
    OBVIOUS
  <1>4. \A i \in 1 .. Len(s) + 1 : i \in 1 .. Len(s) \/ i = Len(s) + 1
    BY <1>1
  <1> DEFINE t == Append(s, e)
             n == Len(s) + 1
  <1> HIDE DEF t, n
  <1>5. \A i \in 1 .. n : t[i] = e \/ (i \in 1 .. Len(s) /\ t[i] = s[i])
    BY <1>3, <1>4 DEF t, n
  <1>. QED
    BY <1>1, <1>2, <1>5 DEF t, n

\* The other actions.
LEMMA OthersQuiet ==
    ASSUME TreeInv,
           \/ Execute \/ BeginBurst \/ EndBurst \/ Cancel \/ CancelLevel \/ CancelEnd
           \/ UnwindRoot \/ ExternalEvent \/ ForeignSuccess \/ ForeignTask
           \/ (\E t \in Timer : TimerFire(t)) \/ Wait \/ SetTimeout \/ Stack
           \/ EndHandler \/ EndOnError
    PROVE  Quieter(ns, ns')
  <1>1. ns \in Instance /\ Coded(ns) /\ Quieter(ns, ns)
    BY Here, InstanceCoded DEF Quieter
  <1>2. ASSUME NEW q, SameCode(ns, q), q.last = ns.last,
               \/ q.last \in Slot /\ Returned(q)
               \/ Succeed(q) \/ \E code : Raise(q, code)
        PROVE  Quieter(ns, ns')
    <2>1. Coded(q)
      BY <1>2 DEF SameCode
    <2>2. CASE q.last \in Slot /\ Returned(q)
      BY <1>2, <2>1, <2>2, ReturnsCode, CodeTwice, CodeQuiet
    <2>3. CASE Succeed(q)
      BY <1>2, <2>3, CodeQuiet DEF Succeed
    <2>4. CASE \E code : Raise(q, code)
      <3>1. PICK code : ns' = [q EXCEPT !.err = code]
        BY <2>4 DEF Raise
      <3>2. SameCode(q, [q EXCEPT !.err = code])
        BY <2>1, MembersCode
      <3>. QED
        BY <1>2, <3>1, <3>2, CodeTwice, CodeQuiet
    <2>. QED
      BY <1>2, <2>2, <2>3, <2>4
  <1>3. SameCode(ns, ns)
    BY <1>1, MembersCode
  <1>4. CASE Execute
    <2>1. SameCode(ns, Scheduled(ns))
      BY <1>1, MembersCode
    <2>. QED
      BY <1>4, <2>1, CodeQuiet DEF Execute
  <1>5. CASE BeginBurst
    <2> DEFINE n == ns.runs - 1
               q == [ns EXCEPT !.in_exec = TRUE, !.handle = FALSE, !.runs = n]
    <2>1. ns' = q
      BY <1>5 DEF BeginBurst
    <2> HIDE DEF n
    <2>2. SameCode(ns, q)
      BY <1>1, MembersCode
    <2>. QED
      BY <2>1, <2>2, CodeQuiet
  <1>6. CASE EndBurst
    <2> DEFINE q == [ns EXCEPT !.in_exec = FALSE]
    <2>1. SameCode(ns, q)
      BY <1>1, MembersCode
    <2>2. ns' = Scheduled(q) \/ ns' = q
      BY <1>6 DEF EndBurst
    <2> HIDE DEF q
    <2>3. SameCode(q, Scheduled(q))
      <3>1. Coded(q)
        BY <2>1 DEF SameCode
      <3>. QED
        BY <3>1, MembersCode
    <2>. QED
      BY <2>1, <2>2, <2>3, CodeTwice, CodeQuiet
  <1>7. CASE Cancel
    <2> DEFINE n == IF ns.handle THEN ns.runs - 1 ELSE ns.runs
               q == [ns EXCEPT !.handle = FALSE, !.runs = n]
    <2>1. ns' = q
      BY <1>7 DEF Cancel
    <2> HIDE DEF n
    <2>2. SameCode(ns, q)
      BY <1>1, MembersCode
    <2>. QED
      BY <2>1, <2>2, CodeQuiet
  <1>8. CASE CancelLevel
    <2> DEFINE f == FreeStep(ns, ns.last)
               up == ns.queue[ns.last].parent
               q == [f EXCEPT !.last = up]
    <2>1. ns' = q /\ ns.last \in Slot
      BY <1>8, Here DEF CancelLevel
    <2>2. Quieter(ns, f) /\ Coded(f)
      BY <1>1, <2>1, LevelsQuiet, StepFreed, InstanceCoded DEF Freed
    <2> HIDE DEF f, up
    <2>3. SameCode(f, q)
      BY <2>2, MembersCode
    <2>. QED
      BY <2>1, <2>2, <2>3, CodeQuiet, QuietTwice
  <1>9. CASE CancelEnd \/ UnwindRoot
    <2>1. ns' = Reset(ns)
      BY <1>9 DEF CancelEnd, UnwindRoot
    <2>. QED
      BY <1>1, <2>1, QueueReset, FreedQuiet, NoneIsNoSlot
  <1>10. CASE ExternalEvent
    <2> DEFINE q == [ns EXCEPT !.queue[ns.last].asked = FALSE]
    <2>1. Succeed(q) \/ \E code : Raise(q, code)
      BY <1>10 DEF ExternalEvent
    <2>2. ns.last \in Slot
      BY <1>10, Here DEF ExternalEvent, Waiting
    <2>3. SameCode(ns, q)
      BY <1>1, <2>2, FieldsCode
    <2>4. q.last = ns.last
      BY <1>1 DEF Instance
    <2> HIDE DEF q
    <2>. QED
      BY <1>2, <2>1, <2>3, <2>4
  <1>11. CASE ForeignSuccess
    <2>1. ns' = [ns EXCEPT !.queue[ns.last].asked = FALSE] /\ ns.last \in Slot
      BY <1>11, Here DEF ForeignSuccess, Waiting
    <2>. QED
      BY <1>1, <2>1, FieldsCode, CodeQuiet
  <1>12. CASE ForeignTask
    <2>1. Succeed(ns) \/ ns' = ns
      BY <1>12 DEF ForeignTask, Stop
    <2>. QED
      BY <1>1, <2>1 DEF Succeed
  <1>13. CASE \E t \in Timer : TimerFire(t)
    <2>1. PICK t \in Timer : TimerFire(t)
      BY <1>13
    <2> DEFINE armed == ns.armed \ {t}
               q == [ns EXCEPT !.armed = armed]
    <2>2. Raise(q, "Timeout") \/ ns' = ns
      BY <2>1 DEF TimerFire, Stop
    <2> HIDE DEF armed
    <2>3. SameCode(ns, q) /\ q.last = ns.last
      BY <1>1, MembersCode DEF Instance
    <2> HIDE DEF q
    <2>. QED
      BY <1>1, <1>2, <2>2, <2>3
  <1>14. CASE Wait
    <2>1. ns.last \in Slot /\ (ns' = SetCancel(ns, FALSE) \/ ns' = WaitExternal(ns))
      BY <1>14, InHandler DEF Wait
    <2>2. CASE ns' = WaitExternal(ns)
      BY <1>1, <2>1, <2>2, FieldsCode, CodeQuiet DEF WaitExternal
    <2>3. CASE ns' = SetCancel(ns, FALSE)
      <3> DEFINE entry == [step |-> ns.last, unlock |-> FALSE]
                 cancels == Append(ns.cancels, entry)
      <3>1. /\ ns'.object = ns.object /\ ns'.cancels = cancels
            /\ \A x \in Slot : /\ ns'.queue[x].func = ns.queue[x].func
                               /\ ns'.queue[x].ext = ns.queue[x].ext
        BY <1>1, <2>1, <2>3 DEF SetCancel, Coded
      <3>2. ns.cancels \in Seq([step : Slot, unlock : BOOLEAN]) /\ entry.unlock = FALSE
        BY <1>1, InstanceTypes
      <3> HIDE DEF entry
      <3>3. \A i \in DOMAIN cancels :
               \/ cancels[i] = entry
               \/ i \in DOMAIN ns.cancels /\ cancels[i] = ns.cancels[i]
        BY <3>2, Appended
      <3> HIDE DEF cancels
      <3>. QED
        BY <3>1, <3>2, <3>3 DEF Quieter, Locks
    <2>. QED
      BY <2>1, <2>2, <2>3
  <1>15. CASE SetTimeout
    <2>1. PICK t \in Timer :
             ns' = [ns EXCEPT !.timeouts = Append(@, [step |-> ns.last, timer |-> t]),
                              !.armed = @ \cup {t}, !.queue[ns.last].timeout = TRUE]
      BY <1>15 DEF SetTimeout
    <2> DEFINE timeouts == Append(ns.timeouts, [step |-> ns.last, timer |-> t])
               armed == ns.armed \cup {t}
               q == [ns EXCEPT !.timeouts = timeouts, !.armed = armed,
                               !.queue[ns.last].timeout = TRUE]
    <2>2. ns' = q /\ ns.last \in Slot
      BY <1>15, <2>1, InHandler DEF SetTimeout
    <2> HIDE DEF timeouts, armed
    <2>3. SameCode(ns, q)
      BY <1>1, <2>2, FieldsCode
    <2>. QED
      BY <2>2, <2>3, CodeQuiet
  <1>16. CASE Stack
    <2> DEFINE allocs == Append(ns.allocs, ns.last)
               n == ns.queue[ns.last].allocs + 1
    <2>1. /\ ns.last \in Slot
          /\ ns' = [ns EXCEPT !.allocs = allocs, !.queue[ns.last].allocs = n]
      BY <1>16, InHandler DEF Stack
    <2> HIDE DEF allocs, n
    <2>. QED
      BY <1>1, <2>1, FieldsCode, CodeQuiet
  <1>17. CASE EndHandler
    <2>1. ns.last \in Slot
      BY <1>17, InHandler DEF EndHandler
    <2>. QED
      BY <1>2, <1>3, <1>17, <2>1 DEF EndHandler
  <1>18. CASE EndOnError
    <2> DEFINE q == [ns EXCEPT !.err = ""]
    <2>1. SameCode(ns, q)
      BY <1>1, MembersCode
    <2>2. cur \in Slot
      BY <1>18, Here DEF EndOnError, TreeInv, Walk, Control
    <2>3. \/ ns' = q \/ ns' = ns \/ \E code : Upwards(ns, code)
      BY <1>18 DEF EndOnError, Recover, Substitute, Override, Stop, Succeed
    <2> HIDE DEF q
    <2>. QED
      BY <1>1, <2>1, <2>2, <2>3, UpwardsQuiet, CodeQuiet
  <1>. QED
    BY <1>4, <1>5, <1>6, <1>7, <1>8, <1>9, <1>10, <1>11, <1>12, <1>13, <1>14, <1>15,
       <1>16, <1>17, <1>18

\* Every step leaves sync() the objects it has.
LEMMA NextObjects ==
    ASSUME TreeInv, Roomy, OneState, GoesOn, Objects(ns), [Next]_vars
    PROVE  Objects(ns')
  <1>1. CASE Add
    BY <1>1, AddQuiet
  <1>2. CASE RunStep
    BY <1>2, RunQuiet
  <1>3. CASE Unwind \/ Climb \/ ClimbRoot
    BY <1>3, UnwindQuiet, ClimbQuiet, ClimbRootQuiet, QuietObjects
  <1>4. CASE UNCHANGED vars
    BY <1>4 DEF vars
  <1>5. CASE \/ Execute \/ BeginBurst \/ EndBurst \/ Cancel \/ CancelLevel \/ CancelEnd
             \/ UnwindRoot \/ ExternalEvent \/ ForeignSuccess \/ ForeignTask
             \/ (\E t \in Timer : TimerFire(t)) \/ Wait \/ SetTimeout \/ Stack
             \/ EndHandler \/ EndOnError
    BY <1>5, OthersQuiet, QuietObjects
  <1>. QED
    BY <1>1, <1>2, <1>3, <1>4, <1>5 DEF Next, Engine, Handlers

----------------------------------------------------------------------------
(* Nothing ends the program, and the flow goes on                           *)

\* A step that locks or unlocks finds an object.
LEMMA ObjectFound ==
    ASSUME NEW q, q.last \in Slot, Objects(q), Locks(q)
    PROVE  CurrentObject(q) # None
  BY DEF CurrentObject, Objects

\* An on_cancel handler that unlocks has an object to unlock.
LEMMA OnCancelFinds ==
    ASSUME ns \in Instance, ns.last \in Slot, Stacks(ns), Objects(ns),
           OnCancel(ns.last)
    PROVE  fatal' = fatal
  <1>1. CASE ~(ns.queue[ns.last].cancel /\ Top(ns.cancels).unlock)
    BY <1>1 DEF OnCancel
  <1>2. CASE ns.queue[ns.last].cancel /\ Top(ns.cancels).unlock
    <2>1. Len(ns.cancels) \in DOMAIN ns.cancels
      <3>1. ns.cancels \in Seq([step : Slot, unlock : BOOLEAN])
        BY InstanceTypes
      <3>2. ns.cancels # <<>>
        <4> SUFFICES ASSUME ns.cancels = <<>> PROVE FALSE
          OBVIOUS
        <4> DEFINE own == Owners(ns.cancels)
        <4>1. DOMAIN own = {}
          BY DEF Owners
        <4>2. {i \in DOMAIN own : own[i] = ns.last} = {}
          BY <4>1
        <4>3. Cardinality({i \in DOMAIN own : own[i] = ns.last}) = CancelsOf(ns)[ns.last]
          BY DEF Stacks, Kept
        <4>4. CancelsOf(ns)[ns.last] = 1
          BY <1>2 DEF CancelsOf
        <4>5. Cardinality({i \in DOMAIN own : own[i] = ns.last}) = 0
          BY <4>2, FS_EmptySet
        <4>. QED
          BY <4>3, <4>4, <4>5
      <3>. QED
        BY <3>1, <3>2
    <2>2. Locks(ns)
      BY <1>2, <2>1 DEF Locks, Top
    <2>3. CurrentObject(ns) # None
      BY <2>2, ObjectFound
    <2>. QED
      BY <1>2, <2>3 DEF OnCancel, Unlock
  <1>. QED
    BY <1>1, <1>2

\* So have the steps that lock and unlock; and the next step is in the queue.
LEMMA RunFinds ==
    ASSUME TreeInv, GoesOn, Objects(ns), RunStep
    PROVE  fatal' = fatal
  <1>1. pc = "exec" /\ MoreToRun
    BY DEF RunStep
  <1>2. NextStep \in Alive
    BY <1>1, NextInUse
  <1>3. Handler(ns.queue[NextStep].func)
    BY <1>2 DEF RunStep
  <1>4. /\ Started.last = NextStep /\ NextStep \in Slot
        /\ Started.queue[NextStep].func = ns.queue[NextStep].func /\ Quieter(ns, Started)
    BY <1>1, <1>2, Called, StartedQuiet
  <1>5. ns.queue[NextStep].func \in {"lock", "unlock"} => CurrentObject(Started) # None
    <2> SUFFICES ASSUME ns.queue[NextStep].func \in {"lock", "unlock"}
                 PROVE  CurrentObject(Started) # None
      OBVIOUS
    <2>1. Locks(Started)
      BY <1>4 DEF Locks, LockFuncs
    <2>. QED
      BY <1>4, <2>1, ObjectFound, QuietObjects
  <1>6. CASE ns.queue[NextStep].func = "lock" /\ LockHandler
    BY <1>5, <1>6 DEF LockHandler
  <1>7. CASE ns.queue[NextStep].func = "unlock" /\ UnlockHandler
    BY <1>5, <1>7 DEF UnlockHandler, Unlock
  <1>. QED
    BY <1>3, <1>6, <1>7 DEF Handler

\* Every step keeps the flow going.
LEMMA NextGoes ==
    ASSUME TreeInv, TreeInv', Res(ns, pc, cur), Disciplined, Prompt, GoesOn,
           Objects(ns), [Next]_vars
    PROVE  GoesOn'
  <1>1. ns' \in Instance
    BY DEF TreeInv, Walk, Sound
  <1>2. CASE RunStep
    BY <1>1, <1>2, RunFinds, RunGoes
  <1>3. CASE CancelLevel \/ Unwind
    <2>1. ns \in Instance /\ ns.last \in Slot /\ OnCancel(ns.last) /\ Stacks(ns)
      <3>1. CASE CancelLevel
        BY <3>1, Here DEF CancelLevel, Res, Canceling, Whole
      <3>2. CASE Unwind
        BY <3>2, Here DEF Unwind, Res, Innermost, Whole, TreeInv, Walk, Control
      <3>. QED
        BY <1>3, <3>1, <3>2
    <2>2. fatal' = fatal
      BY <2>1, OnCancelFinds
    <2>. QED
      BY <1>1, <1>3, <2>2, CancelLevelGoes, UnwindGoes
  <1>4. CASE UNCHANGED vars
    BY <1>4 DEF vars, GoesOn, Reasons, loop, Uncalled, Ahead, Halted, SubEmpty, QueueEnd
  <1>5. CASE Add \/ Execute \/ BeginBurst \/ EndBurst
    BY <1>1, <1>5, AddGoes, ExecuteGoes, BeginGoes, EndGoes
  <1>6. CASE Climb \/ ClimbRoot \/ CancelEnd \/ UnwindRoot \/ Cancel
    BY <1>1, <1>6, ClimbGoes, ClimbRootGoes, ResetGoes, CancelGoes
  <1>7. CASE Handlers
    BY <1>1, <1>7, HandlerGoes, EndHandlerGoes, EndOnErrorGoes DEF Handlers
  <1>8. CASE (\E t \in Timer : TimerFire(t)) \/ ExternalEvent
    BY <1>1, <1>8, TimerGoes, EventGoes
  <1>9. CASE ForeignSuccess \/ ForeignTask
    BY <1>1, <1>9, ForeignSuccessGoes, ForeignTaskGoes
  <1>. QED
    BY <1>2, <1>3, <1>4, <1>5, <1>6, <1>7, <1>8, <1>9 DEF Next, Engine

\* A flow that is at rest and has steps has one reason to go on: handle_execute()
\* is scheduled once, or its innermost step waits for an event.  The program is
\* not stopped by a check.  Timeouts fire while the flow waits, cancel() does not
\* come between two iterations of a loop, a burst executes what on_error adds, and
\* clients that call sync() have one extended state in use at a time.
THEOREM NitroGoesOn ==
    ASSUME Roomy, Disciplined, Prompt, OneState PROVE Spec => []OneReasonToGoOn
  <1> DEFINE Inv == TreeInv /\ Res(ns, pc, cur) /\ Objects(ns) /\ GoesOn
  <1>1. Init => Inv
    <2> SUFFICES ASSUME Init PROVE Inv
      OBVIOUS
    <2>1. TreeInv /\ Res(ns, pc, cur)
      BY InitWalks, InitRes
    <2>2. ~Locks(ns)
      <3>1. \A s \in Slot : ns.queue[s] = Fresh
        BY DEF Init
      <3>2. Fresh.func \notin LockFuncs
        BY DEF Fresh, LockFuncs
      <3>3. ns.cancels = <<>>
        BY DEF Init
      <3>4. DOMAIN ns.cancels = {}
        BY <3>3
      <3>. QED
        BY <3>1, <3>2, <3>4 DEF Locks
    <2>3. \A s \in Slot : ns.queue[s].ext = 0
      BY DEF Init, Fresh
    <2>4. GoesOn
      <3>1. ns.runs = 0
        BY DEF Init
      <3>2. ns.runs <= 1 /\ ns.runs # 1
        BY <3>1
      <3>3. ~ns.handle /\ ns.size = 0 /\ request = None /\ pc = "idle" /\ fatal = ""
        BY DEF Init
      <3>4. Reasons(ns, request, "idle", sched)
        BY <3>1, <3>2, <3>3 DEF Reasons, Uncalled
      <3>. QED
        BY <3>3, <3>4 DEF GoesOn
    <2>. QED
      BY <2>1, <2>2, <2>3, <2>4 DEF Objects
  <1>2. Inv /\ [Next]_vars => Inv'
    <2> SUFFICES ASSUME Inv, [Next]_vars PROVE Inv'
      OBVIOUS
    <2>4. allow' = allow
      BY DEF Next, vars
    <2>1. TreeInv'
      BY NextWalks
    <2>2. Res(ns', pc', cur')
      BY NextRes
    <2>3. Objects(ns') /\ GoesOn'
      BY <2>1, NextObjects, NextGoes
    <2>5. Objects(ns)'
      BY <2>3, <2>4 DEF Objects, Locks
    <2>. QED
      BY <2>1, <2>2, <2>3, <2>5
  <1>3. Inv => OneReasonToGoOn
    <2> SUFFICES ASSUME Inv, pc = "idle"
                 PROVE  /\ ns.runs <= 1 /\ (ns.handle <=> ns.runs = 1)
                        /\ ns.size # 0 =>
                             (ns.runs = 0 <=> (Waiting(ns.last) \/ request # None))
      BY DEF OneReasonToGoOn, GoesOn
    <2>1. /\ ns \in Instance /\ ns.runs \in {0, 1} /\ (ns.handle <=> ns.runs = 1)
          /\ \/ Uncalled(ns) /\ ns.size = 0 /\ ns.last = None /\ request = None
             \/ Uncalled(ns) /\ Halted(ns, request)
             \/ ns.runs = 1 /\ Ahead(ns, request)
      BY AtRest
    <2>2. CASE Uncalled(ns) /\ ns.size = 0
      BY <2>1, <2>2 DEF Uncalled
    <2>3. CASE Uncalled(ns) /\ Halted(ns, request)
      BY <2>1, <2>3 DEF Uncalled, Halted, Waiting
    <2>4. CASE ns.runs = 1 /\ Ahead(ns, request)
      BY <2>1, <2>4 DEF Ahead, Waiting
    <2>. QED
      BY <2>1, <2>2, <2>3, <2>4
  <1> HIDE DEF Inv
  <1>. QED
    BY <1>1, <1>2, <1>3, PTL DEF Spec

=============================================================================
