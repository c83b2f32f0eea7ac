---------------------------- MODULE ListProofs ----------------------------
(* What the operations on a list do to its elements, the least element of a *)
(* set of numbers, and what both step engines rely on: a queue of steps     *)
(* that is a tree.                                                          *)
EXTENDS Integers, Lists, TLAPS, WellFoundedInduction

CONSTANTS
    Node,       \* what the queue of a tree consists of, whatever memory it is
    None

LEMMA AppendElements ==
    ASSUME NEW S, NEW s \in Seq(S), NEW x \in S
    PROVE  Append(s, x) \in Seq(S)
           /\ Elements(Append(s, x)) = Elements(s) \cup {x}
  <1>1. Append(s, x) \in Seq(S) /\ Len(Append(s, x)) = Len(s) + 1
        /\ \A i \in 1 .. Len(s) : Append(s, x)[i] = s[i]
        /\ Append(s, x)[Len(s) + 1] = x
    OBVIOUS
  <1> QED
    BY <1>1 DEF Elements

LEMMA AppendDistinct ==
    ASSUME NEW S, NEW s \in Seq(S), NEW x \in S, x \notin Elements(s),
           Distinct(s)
    PROVE  Distinct(Append(s, x))
  BY DEF Elements, Distinct

LEMMA Joined ==
    ASSUME NEW S, NEW s \in Seq(S), NEW r \in Seq(S)
    PROVE  /\ s \o r \in Seq(S) /\ Len(s \o r) = Len(s) + Len(r)
           /\ \A i \in 1 .. Len(s) : (s \o r)[i] = s[i]
           /\ \A i \in 1 .. Len(r) : (s \o r)[Len(s) + i] = r[i]
           /\ Len(r) = 0 => s \o r = s
  <1>1. /\ s \o r \in Seq(S) /\ Len(s \o r) = Len(s) + Len(r)
        /\ Len(s) \in Nat /\ Len(r) \in Nat
    OBVIOUS
  <1>2. \A i \in 1 .. Len(s) : (s \o r)[i] = s[i]
    OBVIOUS
  <1>3. \A i \in 1 .. Len(r) : (s \o r)[Len(s) + i] = r[i]
    BY <1>1
  <1>4. Len(r) = 0 => s \o r = s
    BY <1>1, <1>2
  <1>. QED
    BY <1>1, <1>2, <1>3, <1>4

\* What remains after the first n were taken from the front.
LEMMA FrontTaken ==
    ASSUME NEW S, NEW s \in Seq(S), Distinct(s), NEW n \in 0 .. Len(s)
    PROVE  LET rest == SubSeq(s, n + 1, Len(s))
           IN  /\ rest \in Seq(S) /\ Len(rest) = Len(s) - n
               /\ Elements(rest) = Elements(s) \ {s[i] : i \in 1 .. n}
               /\ Distinct(rest)
  <1> DEFINE rest == SubSeq(s, n + 1, Len(s))
  <1>1. Len(s) \in Nat /\ DOMAIN s = 1 .. Len(s)
    OBVIOUS
  <1>2. rest = [i \in 1 .. Len(s) - n |-> s[i + n]]
    <2>1. Len(s) - (n + 1) + 1 = Len(s) - n /\ \A i \in Int : i + (n + 1) - 1 = i + n
      BY <1>1
    <2> QED
      BY <1>1, <2>1
  <1> HIDE DEF rest
  <1>3. DOMAIN rest = 1 .. Len(s) - n /\ Len(s) - n \in Nat
        /\ \A i \in 1 .. Len(s) - n : rest[i] = s[i + n] /\ s[i + n] \in S
    BY <1>1, <1>2
  <1>6. rest \in Seq(S) /\ Len(rest) = Len(s) - n
    BY <1>2, <1>3
  <1>4. Elements(rest) = Elements(s) \ {s[i] : i \in 1 .. n}
    <2>1. ASSUME NEW y \in Elements(rest)
          PROVE  y \in Elements(s) /\ y \notin {s[i] : i \in 1 .. n}
      <3>1. PICK i \in 1 .. Len(s) - n : y = s[i + n]
        BY <1>3 DEF Elements
      <3>2. i + n \in DOMAIN s /\ i + n > n
        BY <1>1
      <3> QED
        BY <1>1, <3>1, <3>2 DEF Elements, Distinct
    <2>2. ASSUME NEW y \in Elements(s), y \notin {s[i] : i \in 1 .. n}
          PROVE  y \in Elements(rest)
      <3>1. PICK i \in DOMAIN s : y = s[i]
        BY DEF Elements
      <3>2. i - n \in 1 .. Len(s) - n /\ rest[i - n] = y
        BY <1>1, <1>3, <2>2, <3>1
      <3> QED
        BY <1>3, <3>2 DEF Elements
    <2> QED
      BY <2>1, <2>2
  <1>5. Distinct(rest)
    <2>1. ASSUME NEW i \in 1 .. Len(s) - n, NEW j \in 1 .. Len(s) - n,
                 rest[i] = rest[j]
          PROVE  i = j
      <3>1. i + n \in DOMAIN s /\ j + n \in DOMAIN s /\ s[i + n] = s[j + n]
        BY <1>1, <1>3, <2>1
      <3>2. i + n = j + n
        BY <3>1 DEF Distinct
      <3> QED
        BY <1>1, <3>2
    <2> QED
      BY <1>3, <2>1 DEF Distinct
  <1> QED
    BY <1>4, <1>5, <1>6 DEF rest

LEMMA TailElements ==
    ASSUME NEW S, NEW s \in Seq(S), s # <<>>, Distinct(s)
    PROVE  /\ Tail(s) \in Seq(S) /\ Head(s) \in S /\ Head(s) \in Elements(s)
           /\ Elements(Tail(s)) = Elements(s) \ {Head(s)}
           /\ Distinct(Tail(s))
  <1>1. Len(s) \in Nat \ {0} /\ DOMAIN s = 1 .. Len(s) /\ Head(s) = s[1]
    OBVIOUS
  <1>2. Tail(s) = SubSeq(s, 1 + 1, Len(s))
    OBVIOUS
  <1>3. {s[i] : i \in 1 .. 1} = {Head(s)} /\ 1 \in 0 .. Len(s)
    BY <1>1
  <1>4. /\ SubSeq(s, 1 + 1, Len(s)) \in Seq(S)
        /\ Elements(SubSeq(s, 1 + 1, Len(s))) = Elements(s) \ {s[i] : i \in 1 .. 1}
        /\ Distinct(SubSeq(s, 1 + 1, Len(s)))
    BY <1>3, FrontTaken
  <1>5. Head(s) \in S /\ Head(s) \in Elements(s)
    BY <1>1 DEF Elements
  <1> QED
    BY <1>2, <1>3, <1>4, <1>5

LEMMA WithoutElements ==
    ASSUME NEW S, NEW s \in Seq(S), NEW f \in Elements(s), Distinct(s)
    PROVE  /\ Without(s, f) \in Seq(S) /\ Len(Without(s, f)) = Len(s) - 1
           /\ Elements(Without(s, f)) = Elements(s) \ {f}
           /\ Distinct(Without(s, f))
  <1> DEFINE k == CHOOSE i \in DOMAIN s : s[i] = f
             n == Len(s) - 1
             rest == Without(s, f)
  <1>1. DOMAIN s = 1 .. Len(s) /\ Len(s) \in Nat
    OBVIOUS
  <1>2. k \in DOMAIN s /\ s[k] = f
    BY DEF Elements
  <1>3. rest = [j \in 1 .. n |-> s[IF j < k THEN j ELSE j + 1]]
    BY DEF Without
  <1> HIDE DEF k, rest
  <1>4. n \in Nat
    BY <1>1, <1>2
  <1>5. \A j \in 1 .. n : (IF j < k THEN j ELSE j + 1) \in DOMAIN s
    BY <1>1, <1>2
  <1>6. \A j \in DOMAIN s : s[j] \in S
    BY <1>1
  <1>7. rest \in [1 .. n -> S]
    BY <1>3, <1>5, <1>6
  <1>8. rest \in Seq(S) /\ DOMAIN rest = 1 .. n /\ Len(rest) = n
    BY <1>4, <1>7
  <1>9. Elements(rest) = Elements(s) \ {f}
    <2>1. ASSUME NEW y \in Elements(rest) PROVE y \in Elements(s) \ {f}
      <3>1. PICK j \in 1 .. n : y = s[IF j < k THEN j ELSE j + 1]
        BY <1>3, <1>8 DEF Elements
      <3>2. (IF j < k THEN j ELSE j + 1) # k
        BY <1>1, <1>2
      <3> QED
        BY <1>2, <1>5, <3>1, <3>2 DEF Elements, Distinct
    <2>2. ASSUME NEW y \in Elements(s), y # f PROVE y \in Elements(rest)
      <3>1. PICK i \in DOMAIN s : y = s[i]
        BY DEF Elements
      <3>2. i # k
        BY <1>2, <2>2, <3>1
      <3>3. CASE i < k
        <4>1. i \in 1 .. n /\ rest[i] = y
          BY <1>1, <1>2, <1>3, <3>1, <3>3
        <4> QED
          BY <1>8, <4>1 DEF Elements
      <3>4. CASE i > k
        <4>1. i - 1 \in 1 .. n /\ rest[i - 1] = y
          BY <1>1, <1>2, <1>3, <3>1, <3>4
        <4> QED
          BY <1>8, <4>1 DEF Elements
      <3> QED
        BY <1>1, <1>2, <3>1, <3>2, <3>3, <3>4
    <2> QED
      BY <2>1, <2>2
  <1>10. ASSUME NEW i \in 1 .. n, NEW j \in 1 .. n, rest[i] = rest[j]
         PROVE  i = j
    <2>1. (IF i < k THEN i ELSE i + 1) = (IF j < k THEN j ELSE j + 1)
      BY <1>3, <1>5, <1>10 DEF Distinct
    <2> QED
      BY <1>1, <1>2, <2>1
  <1> QED
    BY <1>8, <1>9, <1>10 DEF Distinct, rest

\* The first n.
LEMMA FrontElements ==
    ASSUME NEW S, NEW s \in Seq(S), NEW n \in 0 .. Len(s)
    PROVE  Elements(SubSeq(s, 1, n)) = {s[i] : i \in 1 .. n}
  <1>1. Len(s) \in Nat /\ DOMAIN s = 1 .. Len(s)
    OBVIOUS
  <1>2. DOMAIN SubSeq(s, 1, n) = 1 .. n
        /\ \A i \in 1 .. n : SubSeq(s, 1, n)[i] = s[i]
    BY <1>1
  <1> QED
    BY <1>2 DEF Elements

\* x is listed somewhere before y.
Precedes(s, x, y) == \E i, j \in DOMAIN s : i < j /\ s[i] = x /\ s[j] = y

\* No operation changes the order of those that stay.
LEMMA AppendOrder ==
    ASSUME NEW S, NEW s \in Seq(S), NEW z \in S, NEW x, NEW y, y # z,
           Precedes(Append(s, z), x, y)
    PROVE  Precedes(s, x, y)
  <1>1. /\ DOMAIN s = 1 .. Len(s) /\ DOMAIN Append(s, z) = 1 .. Len(s) + 1
        /\ \A i \in 1 .. Len(s) : Append(s, z)[i] = s[i]
        /\ Append(s, z)[Len(s) + 1] = z /\ Len(s) \in Nat
    OBVIOUS
  <1>2. PICK i, j \in 1 .. Len(s) + 1 :
               i < j /\ Append(s, z)[i] = x /\ Append(s, z)[j] = y
    BY <1>1 DEF Precedes
  <1>3. j # Len(s) + 1
    BY <1>1, <1>2
  <1>4. i \in 1 .. Len(s) /\ j \in 1 .. Len(s)
    BY <1>1, <1>2, <1>3
  <1> QED
    BY <1>1, <1>2, <1>4 DEF Precedes

LEMMA FrontTakenOrder ==
    ASSUME NEW S, NEW s \in Seq(S), NEW n \in 0 .. Len(s), NEW x, NEW y,
           Precedes(SubSeq(s, n + 1, Len(s)), x, y)
    PROVE  Precedes(s, x, y)
  <1> DEFINE rest == SubSeq(s, n + 1, Len(s))
  <1>1. /\ Len(s) \in Nat /\ DOMAIN s = 1 .. Len(s)
        /\ DOMAIN rest = 1 .. Len(s) - n
        /\ \A i \in 1 .. Len(s) - n : rest[i] = s[i + n]
    OBVIOUS
  <1>2. PICK i, j \in 1 .. Len(s) - n : i < j /\ rest[i] = x /\ rest[j] = y
    BY <1>1 DEF Precedes
  <1>3. i + n \in DOMAIN s /\ j + n \in DOMAIN s /\ i + n < j + n
        /\ s[i + n] = x /\ s[j + n] = y
    BY <1>1, <1>2
  <1> QED
    BY <1>3 DEF Precedes

LEMMA WithoutOrder ==
    ASSUME NEW S, NEW s \in Seq(S), NEW f \in Elements(s), NEW x, NEW y,
           Precedes(Without(s, f), x, y)
    PROVE  Precedes(s, x, y)
  <1> DEFINE k == CHOOSE i \in DOMAIN s : s[i] = f
             n == Len(s) - 1
             Old(j) == IF j < k THEN j ELSE j + 1
  <1>1. DOMAIN s = 1 .. Len(s) /\ Len(s) \in Nat
    OBVIOUS
  <1>2. k \in DOMAIN s
    BY DEF Elements
  <1> DEFINE w == Without(s, f)
  <1>3. DOMAIN w = 1 .. n /\ \A j \in 1 .. n : w[j] = s[Old(j)]
    BY DEF Without
  <1> HIDE DEF k, w
  <1>4. PICK i, j \in 1 .. n : i < j /\ s[Old(i)] = x /\ s[Old(j)] = y
    <2>1. PICK i, j \in DOMAIN w : i < j /\ w[i] = x /\ w[j] = y
      BY DEF Precedes, w
    <2> QED
      BY <1>3, <2>1
  <1>5. Old(i) \in DOMAIN s /\ Old(j) \in DOMAIN s /\ Old(i) < Old(j)
    BY <1>1, <1>2, <1>4
  <1> QED
    BY <1>4, <1>5 DEF Precedes

\* Every set of natural numbers that is not empty has a least element.
LEMMA LeastNumber ==
    ASSUME NEW T, T \subseteq Nat, T # {}
    PROVE  \E x \in T : \A y \in T : x <= y
  <1>1. PICK R : /\ IsWellFoundedOn(R, Nat)
                 /\ \A x, y \in Nat : x < y => <<x, y>> \in R
    <2>1. \A x, y \in Nat : x < y => <<x, y>> \in OpToRel(<, Nat)
      BY DEF OpToRel
    <2> QED
      BY <2>1, NatLessThanWellFounded, Zenon
  <1>2. IsWellFoundedOn(R, Nat)
    BY <1>1
  <1>3. PICK x \in T : \A y \in T : ~ (<<y, x>> \in R)
    BY <1>2, WFMin, Zenon
  <1>4. \A y, z \in Nat : z < y \/ y <= z
    OBVIOUS
  <1> QED
    BY <1>1, <1>3, <1>4, Zenon

----------------------------------------------------------------------------
(* A queue of steps that is a tree, whatever memory the steps are in.  The   *)
(* root steps come first, then the sub-steps of the running root step, then  *)
(* those of the running sub-step, and so on; each running step knows where   *)
(* its sub-steps begin and which one is next.                                *)

----------------------------------------------------------------------------
(* The queue q, the records f of its steps, and tip, the innermost running  *)
(* step.  These definitions are about any q, f and tip, so that one handler *)
(* may go through several of them.                                          *)

\* The marks of the step p, or of the root level for None.
StartOf(f, p) == IF p = None THEN 0 ELSE f[p].start
FrontOf(f, p) == IF p = None THEN 0 ELSE f[p].front

Typed(q, f, tip) ==
    /\ None \notin Node /\ q \in Seq(Node) /\ tip \in Node \cup {None}
    /\ \A x \in Node : /\ f[x].parent \in Node \cup {None}
                       /\ f[x].start \in Nat /\ f[x].front \in Nat
                       /\ f[x].ran \in BOOLEAN

\* The running steps: tip, its parent, and so on.
Path(q, f, tip) == ({tip} \cup {f[q[i]].parent : i \in DOMAIN q}) \ {None}

\* The sub-steps of the innermost step are the end of the queue.
EndIsTip(q, f, tip) ==
    \A i \in DOMAIN q : f[q[i]].parent = tip <=> i > StartOf(f, tip)

\* Every other level points to a running step.
FrontsRun(q, f, tip) ==
    \A p \in (Path(q, f, tip) \cup {None}) \ {tip} :
        LET n == FrontOf(f, p) + 1
        IN  n \in DOMAIN q /\ q[n] \in Path(q, f, tip) /\ f[q[n]].parent = p

\* The level of a running step p, whose parent is o, ends where p's begins.
Levels(q, f, tip) ==
    \A p \in Path(q, f, tip) :
        LET o == f[p].parent
        IN  /\ FrontOf(f, o) + 1 \in DOMAIN q /\ q[FrontOf(f, o) + 1] = p
            /\ FrontOf(f, o) < f[p].start /\ f[p].start <= Len(q)
            /\ \A i \in DOMAIN q : f[q[i]].parent = o
                                     <=> StartOf(f, o) < i /\ i <= f[p].start
            /\ f[p].start <= f[p].front /\ f[p].ran

\* With sub-steps, the front of the innermost step is one of them.
TipFront(q, f, tip) ==
    tip # None => /\ f[tip].front <= Len(q)
                  /\ f[tip].front = Len(q) => f[tip].start = Len(q)

\* The steps of a level before its front have run, those after it have not.
Order(q, f) ==
    \A i \in DOMAIN q :
        LET n == FrontOf(f, f[q[i]].parent) + 1
        IN  (i < n => f[q[i]].ran) /\ (i > n => ~f[q[i]].ran)

Tree(q, f, tip) ==
    /\ Distinct(q) /\ EndIsTip(q, f, tip) /\ FrontsRun(q, f, tip)
    /\ Levels(q, f, tip) /\ TipFront(q, f, tip) /\ Order(q, f)

\* The innermost running step has no running sub-step.
LEMMA TipIsInnermost ==
    ASSUME NEW q, NEW f, NEW tip, Typed(q, f, tip), Tree(q, f, tip),
           NEW p \in Path(q, f, tip)
    PROVE  f[p].parent # tip
  <1>1. /\ DOMAIN q = 1 .. Len(q) /\ Len(q) \in Nat
        /\ \A i \in DOMAIN q : q[i] \in Node
    BY DEF Typed
  <1>2. p \in Node
    BY <1>1 DEF Path, Typed
  <1> SUFFICES ASSUME f[p].parent = tip PROVE FALSE
    OBVIOUS
  <1>3. /\ FrontOf(f, tip) + 1 \in DOMAIN q
        /\ FrontOf(f, tip) < f[p].start /\ f[p].start <= Len(q)
        /\ \A i \in DOMAIN q : f[q[i]].parent = tip
                                 <=> StartOf(f, tip) < i /\ i <= f[p].start
        /\ f[p].start <= f[p].front
    BY DEF Tree, Levels
  <1>4. StartOf(f, tip) \in Nat /\ FrontOf(f, tip) \in Nat /\ f[p].start \in Nat
        /\ f[p].front \in Nat
    BY <1>2 DEF Typed, StartOf, FrontOf
  <1>5. CASE p = tip
    <2>1. p # None
      BY DEF Path
    <2>. QED
      BY <1>3, <1>4, <1>5, <2>1 DEF FrontOf
  <1>6. CASE p # tip
    <2>1. FrontOf(f, p) = f[p].front
      BY DEF FrontOf, Path
    <2>2. f[p].front + 1 \in DOMAIN q
      BY <1>6, <2>1 DEF Tree, FrontsRun
    <2>3. f[q[Len(q)]].parent = tip <=> Len(q) > StartOf(f, tip)
      BY <1>1, <2>2, <1>4 DEF Tree, EndIsTip
    <2>4. StartOf(f, tip) <= FrontOf(f, tip)
      <3>1. CASE tip = None
        BY <3>1 DEF StartOf, FrontOf
      <3>2. CASE tip # None
        BY <3>2 DEF StartOf, FrontOf, Tree, Levels, Path
      <3>. QED
        BY <3>1, <3>2
    <2>. QED
      BY <1>1, <1>3, <1>4, <2>2, <2>3, <2>4
  <1>. QED
    BY <1>5, <1>6

\* A running level points at or after its own beginning.
LEMMA StartThenFront ==
    ASSUME NEW q, NEW f, NEW tip, Typed(q, f, tip), Tree(q, f, tip),
           NEW p \in Path(q, f, tip) \cup {None}
    PROVE  /\ StartOf(f, p) \in Nat /\ FrontOf(f, p) \in Nat
           /\ StartOf(f, p) <= FrontOf(f, p)
  <1>1. CASE p = None
    BY <1>1 DEF StartOf, FrontOf
  <1>2. CASE p # None
    <2>1. p \in Node
      BY <1>2 DEF Path, Typed
    <2>. QED
      BY <1>2, <2>1 DEF StartOf, FrontOf, Tree, Levels, Typed
  <1>. QED
    BY <1>1, <1>2

\* The step the innermost one points to is one of its sub-steps, not running.
LEMMA NextIsChild ==
    ASSUME NEW q, NEW f, NEW tip, Typed(q, f, tip), Tree(q, f, tip),
           FrontOf(f, tip) < Len(q)
    PROVE  LET s == q[FrontOf(f, tip) + 1]
           IN  /\ FrontOf(f, tip) + 1 \in DOMAIN q /\ s \in Node
               /\ f[s].parent = tip /\ s \notin Path(q, f, tip)
  <1>1. StartOf(f, tip) \in Nat /\ FrontOf(f, tip) \in Nat
        /\ StartOf(f, tip) <= FrontOf(f, tip)
    <2>1. tip \in Path(q, f, tip) \cup {None}
      BY DEF Path
    <2>. QED
      BY <2>1, StartThenFront
  <1>2. Len(q) \in Nat /\ DOMAIN q = 1 .. Len(q) /\ \A i \in DOMAIN q : q[i] \in Node
    BY DEF Typed
  <1>3. FrontOf(f, tip) + 1 \in DOMAIN q
    BY <1>1, <1>2
  <1>4. f[q[FrontOf(f, tip) + 1]].parent = tip
    BY <1>1, <1>3 DEF Tree, EndIsTip
  <1>. QED
    BY <1>2, <1>3, <1>4, TipIsInnermost

\* The next step s is started: it has no sub-steps yet.
LEMMA TreeStarted ==
    ASSUME NEW q, NEW f, NEW g, NEW tip, NEW s,
           Typed(q, f, tip), Tree(q, f, tip), Typed(q, g, s),
           FrontOf(f, tip) < Len(q), s = q[FrontOf(f, tip) + 1],
           \A x \in Node : g[x].parent = f[x].parent,
           \A x \in Node \ {s} : g[x].start = f[x].start /\ g[x].front = f[x].front
                                 /\ g[x].ran = f[x].ran,
           g[s].start = Len(q), g[s].front = Len(q), g[s].ran
    PROVE  Tree(q, g, s)
  <1>1. /\ FrontOf(f, tip) + 1 \in DOMAIN q /\ s \in Node
        /\ f[s].parent = tip /\ s \notin Path(q, f, tip)
    BY NextIsChild
  <1>2. Len(q) \in Nat /\ DOMAIN q = 1 .. Len(q) /\ \A i \in DOMAIN q : q[i] \in Node
    BY DEF Typed
  <1>3. s # None /\ s # tip
    BY <1>1 DEF Path, Typed
  <1>4. Path(q, g, s) = Path(q, f, tip) \cup {s}
    <2>1. {g[q[i]].parent : i \in DOMAIN q} = {f[q[i]].parent : i \in DOMAIN q}
      BY <1>2
    <2>2. tip \in {f[q[i]].parent : i \in DOMAIN q}
      BY <1>1
    <2>. QED
      BY <1>3, <2>1, <2>2 DEF Path
  <1>5. \A p \in Node \cup {None} : p # s => FrontOf(g, p) = FrontOf(f, p)
                                           /\ StartOf(g, p) = StartOf(f, p)
    BY DEF FrontOf, StartOf
  <1>6. FrontOf(g, s) = Len(q) /\ StartOf(g, s) = Len(q)
    BY <1>3 DEF FrontOf, StartOf
  <1>7. \A i \in DOMAIN q : f[q[i]].parent # s
    BY <1>1, <1>3 DEF Path
  <1>8. Path(q, f, tip) \subseteq Node
    BY <1>2 DEF Path, Typed
  <1>9. EndIsTip(q, g, s)
    BY <1>2, <1>6, <1>7 DEF EndIsTip
  <1>10. FrontsRun(q, g, s)
    <2> SUFFICES ASSUME NEW p \in Path(q, f, tip) \cup {None}
                 PROVE  LET n == FrontOf(g, p) + 1
                        IN  /\ n \in DOMAIN q /\ q[n] \in Path(q, g, s)
                            /\ g[q[n]].parent = p
      BY <1>4 DEF FrontsRun
    <2>1. p # s /\ FrontOf(g, p) = FrontOf(f, p)
      BY <1>1, <1>3, <1>5, <1>8
    <2>2. CASE p = tip
      BY <1>1, <1>4, <2>1, <2>2
    <2>3. CASE p # tip
      BY <1>2, <1>4, <2>1, <2>3 DEF Tree, FrontsRun
    <2>. QED
      BY <2>2, <2>3
  <1>11. Levels(q, g, s)
    <2> SUFFICES ASSUME NEW p \in Path(q, f, tip) \cup {s}
                 PROVE  LET o == g[p].parent
                        IN  /\ FrontOf(g, o) + 1 \in DOMAIN q
                            /\ q[FrontOf(g, o) + 1] = p
                            /\ FrontOf(g, o) < g[p].start /\ g[p].start <= Len(q)
                            /\ \A i \in DOMAIN q : g[q[i]].parent = o
                                   <=> StartOf(g, o) < i /\ i <= g[p].start
                            /\ g[p].start <= g[p].front /\ g[p].ran
      BY <1>4 DEF Levels
    <2> DEFINE o == f[p].parent
    <2>1. p \in Node /\ g[p].parent = o
      BY <1>1, <1>8
    <2>2. CASE p = s
      <3>1. FrontOf(g, tip) = FrontOf(f, tip) /\ StartOf(g, tip) = StartOf(f, tip)
            /\ StartOf(f, tip) \in Nat /\ FrontOf(f, tip) \in Nat
        <4>1. tip \in Path(q, f, tip) \cup {None} /\ tip \in Node \cup {None}
          BY DEF Path, Typed
        <4>. QED
          BY <1>3, <1>5, <4>1, StartThenFront
      <3>2. \A i \in DOMAIN q : g[q[i]].parent = tip
                                  <=> StartOf(g, tip) < i /\ i <= Len(q)
        BY <1>2, <3>1 DEF Tree, EndIsTip
      <3>. QED
        BY <1>1, <1>2, <2>1, <2>2, <3>1, <3>2
    <2>3. CASE p # s
      <3>1. p \in Path(q, f, tip)
        BY <2>3
      <3>2. /\ FrontOf(f, o) + 1 \in DOMAIN q /\ q[FrontOf(f, o) + 1] = p
            /\ FrontOf(f, o) < f[p].start /\ f[p].start <= Len(q)
            /\ \A i \in DOMAIN q : f[q[i]].parent = o
                                     <=> StartOf(f, o) < i /\ i <= f[p].start
            /\ f[p].start <= f[p].front /\ f[p].ran
        BY <3>1 DEF Tree, Levels
      <3>3. o # s /\ o \in Node \cup {None}
        <4>1. \E i \in DOMAIN q : q[i] = p
          BY <3>2
        <4>. QED
          BY <1>7, <2>1, <4>1 DEF Typed
      <3>4. FrontOf(g, o) = FrontOf(f, o) /\ StartOf(g, o) = StartOf(f, o)
        BY <1>5, <3>3
      <3>5. g[p].start = f[p].start /\ g[p].front = f[p].front /\ g[p].ran = f[p].ran
        BY <2>1, <2>3
      <3>6. \A i \in DOMAIN q : g[q[i]].parent = f[q[i]].parent
        BY <1>2
      <3>. QED
        BY <2>1, <3>2, <3>4, <3>5, <3>6
    <2>. QED
      BY <2>2, <2>3
  <1>12. TipFront(q, g, s)
    BY <1>2 DEF TipFront
  <1>13. Order(q, g)
    <2> SUFFICES ASSUME NEW i \in DOMAIN q
                 PROVE  LET n == FrontOf(g, g[q[i]].parent) + 1
                        IN  (i < n => g[q[i]].ran) /\ (i > n => ~g[q[i]].ran)
      BY DEF Order
    <2> DEFINE o == f[q[i]].parent
    <2>1. q[i] \in Node /\ g[q[i]].parent = o /\ FrontOf(g, o) = FrontOf(f, o)
      BY <1>2, <1>5, <1>7 DEF Typed
    <2>2. CASE q[i] = s
      <3>1. i = FrontOf(f, tip) + 1
        BY <1>1, <2>2 DEF Tree, Distinct
      <3>. QED
        BY <1>1, <1>2, <2>1, <2>2, <3>1
    <2>3. CASE q[i] # s
      BY <2>1, <2>3 DEF Tree, Order
    <2>. QED
      BY <2>2, <2>3
  <1>. QED
    BY <1>9, <1>10, <1>11, <1>12, <1>13 DEF Tree

\* The innermost step, s, adds the sub-steps r to those it has.  With None for
\* s these are root steps.
LEMMA TreeExtended ==
    ASSUME NEW q, NEW f, NEW g, NEW s, NEW r,
           Typed(q, f, s), Tree(q, f, s), Typed(q \o r, g, s),
           r \in Seq(Node), Distinct(r), Elements(q) \cap Elements(r) = {},
           \A x \in Elements(q) \cup ({s} \ {None}) :
               /\ g[x].parent = f[x].parent /\ g[x].start = f[x].start
               /\ g[x].front = f[x].front /\ g[x].ran = f[x].ran,
           \A x \in Elements(r) : g[x].parent = s /\ ~g[x].ran
    PROVE  Tree(q \o r, g, s)
  <1> DEFINE all == q \o r
  <1>1. Len(q) \in Nat /\ DOMAIN q = 1 .. Len(q) /\ \A i \in DOMAIN q : q[i] \in Node
    BY DEF Typed
  <1>2. Len(r) \in Nat /\ DOMAIN r = 1 .. Len(r) /\ \A i \in DOMAIN r : r[i] \in Node
    OBVIOUS
  <1>3. /\ Len(all) = Len(q) + Len(r) /\ DOMAIN all = 1 .. Len(q) + Len(r)
        /\ \A i \in DOMAIN q : i \in DOMAIN all /\ all[i] = q[i] /\ q[i] \in Elements(q)
        /\ \A i \in DOMAIN all : i \notin DOMAIN q =>
              i - Len(q) \in DOMAIN r /\ all[i] = r[i - Len(q)]
              /\ all[i] \in Elements(r)
    BY <1>1, <1>2 DEF Typed, Elements
  <1> HIDE DEF all
  <1>4. \A i \in DOMAIN all :
           \/ i \in DOMAIN q /\ all[i] = q[i] /\ g[all[i]].parent = f[q[i]].parent
              /\ g[all[i]].ran = f[q[i]].ran /\ i <= Len(q)
           \/ i > Len(q) /\ g[all[i]].parent = s /\ ~g[all[i]].ran
    BY <1>1, <1>2, <1>3
  <1>0. /\ StartOf(f, s) \in 0 .. Len(q) /\ FrontOf(f, s) \in 0 .. Len(q)
        /\ FrontOf(f, s) = Len(q) => StartOf(f, s) = Len(q)
    <2>1. CASE s = None
      BY <1>1, <2>1 DEF StartOf, FrontOf
    <2>2. CASE s # None
      <3>1. s \in Path(q, f, s) /\ s \in Node
        BY <2>2 DEF Path, Typed
      <3>. QED
        BY <1>1, <2>2, <3>1 DEF Tree, Levels, TipFront, StartOf, FrontOf, Typed
    <2>. QED
      BY <2>1, <2>2
  <1>5. Path(all, g, s) = Path(q, f, s)
    <2>1. \A i \in DOMAIN q : i \in DOMAIN all /\ g[all[i]].parent = f[q[i]].parent
      BY <1>1, <1>3, <1>4
    <2>2. {s} \cup {g[all[i]].parent : i \in DOMAIN all}
             = {s} \cup {f[q[i]].parent : i \in DOMAIN q}
      BY <1>4, <2>1
    <2>. QED
      BY <2>2 DEF Path
  <1>6. \A p \in Path(q, f, s) :
           /\ p \in Elements(q) \cup ({s} \ {None}) /\ p \in Node /\ p # None
           /\ f[p].parent # s /\ f[p].parent \in Path(q, f, s) \cup {None}
           /\ p \in Elements(q)
    <2> SUFFICES ASSUME NEW p \in Path(q, f, s)
                 PROVE  /\ p \in Elements(q) /\ p \in Node /\ p # None
                        /\ f[p].parent # s /\ f[p].parent \in Path(q, f, s) \cup {None}
      OBVIOUS
    <2>1. PICK i \in DOMAIN q : q[i] = p
      BY DEF Tree, Levels
    <2>. QED
      BY <1>1, <2>1, TipIsInnermost DEF Path, Elements, Typed
  <1>7. \A p \in Path(q, f, s) \cup {s, None} :
           FrontOf(g, p) = FrontOf(f, p) /\ StartOf(g, p) = StartOf(f, p)
    BY <1>6 DEF FrontOf, StartOf
  <1>8. Distinct(all)
    <2> SUFFICES ASSUME NEW i \in DOMAIN all, NEW j \in DOMAIN all, all[i] = all[j]
                 PROVE  i = j
      BY DEF Distinct
    <2>1. CASE i \in DOMAIN q /\ j \in DOMAIN q
      BY <1>3, <2>1 DEF Tree, Distinct
    <2>2. CASE i \notin DOMAIN q /\ j \notin DOMAIN q
      <3>1. i - Len(q) = j - Len(q)
        BY <1>3, <2>2 DEF Distinct
      <3>. QED
        BY <1>1, <1>3, <3>1
    <2>. QED
      BY <1>3, <2>1, <2>2
  <1>9. EndIsTip(all, g, s)
    <2> SUFFICES ASSUME NEW i \in DOMAIN all
                 PROVE  g[all[i]].parent = s <=> i > StartOf(f, s)
      BY <1>7 DEF EndIsTip
    <2>1. CASE i \in DOMAIN q /\ g[all[i]].parent = f[q[i]].parent
      BY <2>1 DEF Tree, EndIsTip
    <2>2. CASE i > Len(q) /\ g[all[i]].parent = s
      BY <1>0, <1>1, <1>3, <2>2
    <2>. QED
      BY <1>4, <2>1, <2>2
  <1>10. FrontsRun(all, g, s)
    <2> SUFFICES ASSUME NEW p \in (Path(q, f, s) \cup {None}) \ {s}
                 PROVE  LET n == FrontOf(g, p) + 1
                        IN  /\ n \in DOMAIN all /\ all[n] \in Path(q, f, s)
                            /\ g[all[n]].parent = p
      BY <1>5 DEF FrontsRun
    <2> DEFINE n == FrontOf(f, p) + 1
    <2>1. n \in DOMAIN q /\ q[n] \in Path(q, f, s) /\ f[q[n]].parent = p
      BY DEF Tree, FrontsRun
    <2>2. all[n] = q[n] /\ n \in DOMAIN all /\ g[q[n]].parent = f[q[n]].parent
      BY <1>3, <2>1
    <2>. QED
      BY <1>7, <2>1, <2>2
  <1>11. Levels(all, g, s)
    <2> SUFFICES ASSUME NEW p \in Path(q, f, s)
                 PROVE  LET o == g[p].parent
                        IN  /\ FrontOf(g, o) + 1 \in DOMAIN all
                            /\ all[FrontOf(g, o) + 1] = p
                            /\ FrontOf(g, o) < g[p].start /\ g[p].start <= Len(all)
                            /\ \A i \in DOMAIN all : g[all[i]].parent = o
                                   <=> StartOf(g, o) < i /\ i <= g[p].start
                            /\ g[p].start <= g[p].front /\ g[p].ran
      BY <1>5 DEF Levels
    <2> DEFINE o == f[p].parent
    <2>1. /\ FrontOf(f, o) + 1 \in DOMAIN q /\ q[FrontOf(f, o) + 1] = p
          /\ FrontOf(f, o) < f[p].start /\ f[p].start <= Len(q)
          /\ \A i \in DOMAIN q : f[q[i]].parent = o
                                   <=> StartOf(f, o) < i /\ i <= f[p].start
          /\ f[p].start <= f[p].front /\ f[p].ran
      BY DEF Tree, Levels
    <2>2. /\ g[p].parent = o /\ g[p].start = f[p].start /\ g[p].front = f[p].front
          /\ g[p].ran = f[p].ran /\ o # s /\ f[p].start \in Nat
          /\ FrontOf(g, o) = FrontOf(f, o) /\ StartOf(g, o) = StartOf(f, o)
      BY <1>6, <1>7 DEF Typed
    <2>3. FrontOf(f, o) + 1 \in DOMAIN all /\ all[FrontOf(f, o) + 1] = p
      BY <1>3, <2>1
    <2>4. \A i \in DOMAIN all : g[all[i]].parent = o
                                  <=> StartOf(f, o) < i /\ i <= f[p].start
      <3> SUFFICES ASSUME NEW i \in DOMAIN all
                   PROVE  g[all[i]].parent = o <=> StartOf(f, o) < i /\ i <= f[p].start
        OBVIOUS
      <3>1. CASE i \in DOMAIN q
        BY <1>1, <1>4, <2>1, <3>1
      <3>2. CASE i \notin DOMAIN q
        <4>1. i > Len(q) /\ i \in Nat /\ g[all[i]].parent = s
          BY <1>1, <1>2, <1>3, <1>4, <3>2
        <4>. QED
          BY <1>1, <2>1, <2>2, <4>1
      <3>. QED
        BY <3>1, <3>2
    <2>. QED
      BY <1>1, <1>2, <1>3, <2>1, <2>2, <2>3, <2>4
  <1>12. TipFront(all, g, s)
    <2> SUFFICES ASSUME s # None
                 PROVE  /\ g[s].front <= Len(all)
                        /\ g[s].front = Len(all) => g[s].start = Len(all)
      BY DEF TipFront
    <2>1. g[s].front = FrontOf(f, s) /\ g[s].start = StartOf(f, s)
      BY DEF FrontOf, StartOf
    <2>. QED
      BY <1>0, <1>1, <1>2, <1>3, <2>1
  <1>13. Order(all, g)
    <2> SUFFICES ASSUME NEW i \in DOMAIN all
                 PROVE  LET n == FrontOf(g, g[all[i]].parent) + 1
                        IN  (i < n => g[all[i]].ran) /\ (i > n => ~g[all[i]].ran)
      BY DEF Order
    <2>1. CASE i > Len(q) /\ g[all[i]].parent = s /\ ~g[all[i]].ran
      BY <1>0, <1>1, <1>3, <1>7, <2>1
    <2>2. CASE i \in DOMAIN q /\ g[all[i]].parent = f[q[i]].parent
               /\ g[all[i]].ran = f[q[i]].ran
      <3>1. f[q[i]].parent \in Path(q, f, s) \cup {None}
        BY <2>2 DEF Path
      <3>. QED
        BY <1>7, <2>2, <3>1 DEF Tree, Order
    <2>. QED
      BY <1>4, <2>1, <2>2
  <1>. QED
    BY <1>8, <1>9, <1>10, <1>11, <1>12, <1>13 DEF Tree, all

\* The first n steps of q, kept, are those outside of tip, all of the path among
\* them.
KeepsPath(q, f, tip, n, kept) ==
    /\ n \in 0 .. Len(q) /\ Len(kept) = n /\ DOMAIN kept = 1 .. n
    /\ kept \in Seq(Node) /\ Distinct(kept)
    /\ \A i \in 1 .. n : /\ i \in DOMAIN q /\ kept[i] = q[i]
                         /\ q[i] \in Elements(kept)
                         /\ f[q[i]].parent # tip
    /\ \A x \in Path(q, f, tip) :
          /\ x \in Node /\ x # None /\ x \in Elements(kept)
          /\ FrontOf(f, f[x].parent) + 1 \in 1 .. n
          /\ f[x].parent \in (Path(q, f, tip) \cup {None}) \ {tip}
          /\ f[x].start <= n
    /\ \A x \in Path(q, f, tip) \ {tip} : \E i \in 1 .. n : f[q[i]].parent = x
    /\ \A x \in (Path(q, f, tip) \cup {None}) \ {tip} : FrontOf(f, x) + 1 \in 1 .. n

\* They are what is left without the sub-steps of the innermost step.
LEMMA KeptPath ==
    ASSUME NEW q, NEW f, NEW tip, Typed(q, f, tip), Tree(q, f, tip), tip # None
    PROVE  KeepsPath(q, f, tip, f[tip].start, SubSeq(q, 1, f[tip].start))
  <1> DEFINE n == f[tip].start
             kept == SubSeq(q, 1, n)
  <1>1. /\ Len(q) \in Nat /\ DOMAIN q = 1 .. Len(q) /\ \A i \in DOMAIN q : q[i] \in Node
        /\ tip \in Path(q, f, tip) /\ tip \in Node /\ q \in Seq(Node)
    BY DEF Typed, Path
  <1>2. n \in 0 .. Len(q)
    BY <1>1 DEF Typed, Tree, Levels
  <1>3. /\ Len(kept) = n /\ DOMAIN kept = 1 .. n /\ \A i \in 1 .. n : kept[i] = q[i]
        /\ kept \in Seq(Node)
    BY <1>1, <1>2
  <1>4. \A i \in DOMAIN q : i <= n <=> f[q[i]].parent # tip
    BY <1>1, <1>2 DEF Tree, EndIsTip, StartOf
  <1>5. \A i \in 1 .. n : /\ i \in DOMAIN q /\ q[i] \in Elements(kept)
                          /\ f[q[i]].parent # tip
    BY <1>1, <1>2, <1>3, <1>4 DEF Elements
  <1>6. Distinct(kept)
    BY <1>3, <1>5 DEF Tree, Distinct
  <1>7. \A x \in (Path(q, f, tip) \cup {None}) \ {tip} : FrontOf(f, x) + 1 \in 1 .. n
    <2> SUFFICES ASSUME NEW x \in (Path(q, f, tip) \cup {None}) \ {tip}
                 PROVE  FrontOf(f, x) + 1 \in 1 .. n
      OBVIOUS
    <2>1. FrontOf(f, x) + 1 \in DOMAIN q /\ f[q[FrontOf(f, x) + 1]].parent = x
      BY DEF Tree, FrontsRun
    <2>. QED
      BY <1>1, <1>2, <1>4, <2>1
  <1>8. \A x \in Path(q, f, tip) :
           /\ x \in Node /\ x # None /\ x \in Elements(kept)
           /\ FrontOf(f, f[x].parent) + 1 \in 1 .. n
           /\ f[x].parent \in (Path(q, f, tip) \cup {None}) \ {tip}
           /\ f[x].start <= n
    <2> SUFFICES ASSUME NEW x \in Path(q, f, tip)
                 PROVE  /\ x \in Node /\ x # None /\ x \in Elements(kept)
                        /\ FrontOf(f, f[x].parent) + 1 \in 1 .. n
                        /\ f[x].parent \in (Path(q, f, tip) \cup {None}) \ {tip}
                        /\ f[x].start <= n
      OBVIOUS
    <2> DEFINE o == f[x].parent
    <2>1. x \in Node /\ x # None
      BY <1>1 DEF Path, Typed
    <2>2. /\ FrontOf(f, o) + 1 \in DOMAIN q /\ q[FrontOf(f, o) + 1] = x
          /\ FrontOf(f, o) < f[x].start /\ f[x].start <= Len(q)
          /\ \A i \in DOMAIN q : f[q[i]].parent = o
                                   <=> StartOf(f, o) < i /\ i <= f[x].start
      BY DEF Tree, Levels
    <2>3. o # tip /\ o \in (Path(q, f, tip) \cup {None}) \ {tip}
      BY <2>2, TipIsInnermost DEF Path
    <2>4. FrontOf(f, o) + 1 \in 1 .. n
      BY <1>7, <2>3
    <2>5. x \in Elements(kept)
      BY <1>5, <2>2, <2>4
    <2>6. f[x].start <= n
      <3>1. StartOf(f, o) \in Nat /\ FrontOf(f, o) \in Nat
            /\ StartOf(f, o) <= FrontOf(f, o) /\ f[x].start \in Nat
        BY <2>1, <2>3, StartThenFront DEF Typed
      <3>2. f[x].start \in DOMAIN q /\ f[q[f[x].start]].parent = o
        BY <1>1, <2>2, <3>1
      <3>. QED
        BY <1>4, <2>3, <3>2
    <2>. QED
      BY <2>1, <2>3, <2>4, <2>5, <2>6
  <1>9. \A x \in Path(q, f, tip) \ {tip} : \E i \in 1 .. n : f[q[i]].parent = x
    <2> SUFFICES ASSUME NEW x \in Path(q, f, tip) \ {tip}
                 PROVE  \E i \in 1 .. n : f[q[i]].parent = x
      OBVIOUS
    <2>1. PICK i \in DOMAIN q : f[q[i]].parent = x
      BY DEF Path
    <2>. QED
      BY <1>1, <1>2, <1>4, <2>1
  <1>. QED
    BY <1>2, <1>3, <1>5, <1>6, <1>7, <1>8, <1>9 DEF KeepsPath

\* The level of p points to its sub-step s, which has run.
PointsTo(q, f, p, s) ==
    FrontOf(f, p) + 1 \in DOMAIN q /\ q[FrontOf(f, p) + 1] = s /\ f[s].ran

\* The innermost step is left: its sub-steps are gone and its parent is the
\* innermost one.
LEMMA TreeLeft ==
    ASSUME NEW q, NEW f, NEW g, NEW tip, NEW kept,
           Typed(q, f, tip), Tree(q, f, tip), tip # None,
           KeepsPath(q, f, tip, f[tip].start, kept),
           Typed(kept, g, f[tip].parent),
           \A x \in Elements(kept) : g[x].parent = f[x].parent /\ g[x].ran = f[x].ran,
           \A x \in Elements(kept) \ {tip} :
               g[x].start = f[x].start /\ g[x].front = f[x].front
    PROVE  Tree(kept, g, f[tip].parent) /\ PointsTo(kept, g, f[tip].parent, tip)
  <1> DEFINE n == f[tip].start
             up == f[tip].parent
  <1>0. KeepsPath(q, f, tip, n, kept) /\ n = f[tip].start
    OBVIOUS
  <1> HIDE DEF n
  <1>1. /\ n \in 0 .. Len(q) /\ Len(kept) = n /\ DOMAIN kept = 1 .. n
        /\ kept \in Seq(Node) /\ Distinct(kept)
        /\ \A i \in 1 .. n : /\ i \in DOMAIN q /\ kept[i] = q[i]
                             /\ q[i] \in Elements(kept)
                             /\ f[q[i]].parent # tip
    BY <1>0 DEF KeepsPath
  <1>2. \A x \in Path(q, f, tip) :
           /\ x \in Node /\ x # None /\ x \in Elements(kept)
           /\ FrontOf(f, f[x].parent) + 1 \in 1 .. n
           /\ f[x].parent \in (Path(q, f, tip) \cup {None}) \ {tip}
           /\ f[x].start <= n
    BY <1>0 DEF KeepsPath
  <1>3. \A x \in Path(q, f, tip) \ {tip} : \E i \in 1 .. n : f[q[i]].parent = x
    BY <1>0 DEF KeepsPath
  <1>4. \A x \in (Path(q, f, tip) \cup {None}) \ {tip} : FrontOf(f, x) + 1 \in 1 .. n
    BY <1>0 DEF KeepsPath
  <1>5. tip \in Path(q, f, tip) /\ up \in (Path(q, f, tip) \cup {None}) \ {tip}
    BY <1>2 DEF Path
  <1>6. Path(kept, g, up) = Path(q, f, tip) \ {tip}
    <2>1. \A i \in 1 .. n : g[kept[i]].parent = f[q[i]].parent
      BY <1>1
    <2>2. Path(kept, g, up) = ({up} \cup {f[q[i]].parent : i \in 1 .. n}) \ {None}
      BY <1>1, <2>1 DEF Path
    <2>3. Path(kept, g, up) \subseteq Path(q, f, tip) \ {tip}
      BY <1>1, <1>5, <2>2 DEF Path
    <2>4. Path(q, f, tip) \ {tip} \subseteq Path(kept, g, up)
      BY <1>2, <1>3, <2>2
    <2>. QED
      BY <2>3, <2>4
  <1>7. \A x \in (Path(q, f, tip) \cup {None}) \ {tip} :
           FrontOf(g, x) = FrontOf(f, x) /\ StartOf(g, x) = StartOf(f, x)
    BY <1>2 DEF FrontOf, StartOf
  <1>8. \A x \in Path(q, f, tip) :
           /\ FrontOf(f, f[x].parent) + 1 \in DOMAIN q
           /\ q[FrontOf(f, f[x].parent) + 1] = x
           /\ FrontOf(f, f[x].parent) < f[x].start
           /\ \A i \in DOMAIN q : f[q[i]].parent = f[x].parent
                  <=> StartOf(f, f[x].parent) < i /\ i <= f[x].start
           /\ f[x].start <= f[x].front /\ f[x].ran
    BY DEF Tree, Levels
  <1>9. EndIsTip(kept, g, up)
    <2> SUFFICES ASSUME NEW i \in 1 .. n
                 PROVE  g[kept[i]].parent = up <=> i > StartOf(g, up)
      BY <1>1 DEF EndIsTip
    <2>1. StartOf(f, up) \in Nat
      BY <1>5, StartThenFront
    <2>2. g[kept[i]].parent = f[q[i]].parent
      BY <1>1
    <2>. QED
      BY <1>0, <1>1, <1>5, <1>7, <1>8, <2>1, <2>2
  <1>10. FrontsRun(kept, g, up)
    <2> SUFFICES ASSUME NEW p \in (Path(q, f, tip) \cup {None}) \ {tip}, p # up
                 PROVE  LET m == FrontOf(g, p) + 1
                        IN  /\ m \in DOMAIN kept /\ kept[m] \in Path(q, f, tip) \ {tip}
                            /\ g[kept[m]].parent = p
      BY <1>6 DEF FrontsRun
    <2> DEFINE m == FrontOf(f, p) + 1
    <2>1. m \in 1 .. n /\ q[m] \in Path(q, f, tip) /\ f[q[m]].parent = p
      BY <1>4 DEF Tree, FrontsRun
    <2>. QED
      BY <1>1, <1>7, <2>1
  <1>11. Levels(kept, g, up)
    <2> SUFFICES ASSUME NEW p \in Path(q, f, tip) \ {tip}
                 PROVE  LET o == g[p].parent
                        IN  /\ FrontOf(g, o) + 1 \in DOMAIN kept
                            /\ kept[FrontOf(g, o) + 1] = p
                            /\ FrontOf(g, o) < g[p].start /\ g[p].start <= Len(kept)
                            /\ \A i \in DOMAIN kept : g[kept[i]].parent = o
                                   <=> StartOf(g, o) < i /\ i <= g[p].start
                            /\ g[p].start <= g[p].front /\ g[p].ran
      BY <1>6 DEF Levels
    <2> DEFINE o == f[p].parent
    <2>1. /\ p \in Elements(kept) /\ o \in (Path(q, f, tip) \cup {None}) \ {tip}
          /\ FrontOf(f, o) + 1 \in 1 .. n /\ f[p].start <= n
      BY <1>2
    <2>2. /\ g[p].parent = o /\ g[p].start = f[p].start /\ g[p].front = f[p].front
          /\ g[p].ran = f[p].ran
          /\ FrontOf(g, o) = FrontOf(f, o) /\ StartOf(g, o) = StartOf(f, o)
      BY <1>7, <2>1
    <2>3. /\ kept[FrontOf(f, o) + 1] = p /\ FrontOf(f, o) < f[p].start
          /\ f[p].start <= f[p].front /\ f[p].ran
      BY <1>1, <1>8, <2>1
    <2>4. \A i \in 1 .. n : g[kept[i]].parent = o
                              <=> StartOf(f, o) < i /\ i <= f[p].start
      <3>1. \A i \in 1 .. n : g[kept[i]].parent = f[q[i]].parent /\ i \in DOMAIN q
        BY <1>1
      <3>. QED
        BY <1>8, <3>1
    <2>. QED
      BY <1>1, <2>1, <2>2, <2>3, <2>4
  <1>12. TipFront(kept, g, up)
    <2> SUFFICES ASSUME up # None
                 PROVE  g[up].front <= n /\ g[up].front # n
      BY <1>1 DEF TipFront
    <2>1. FrontOf(g, up) = g[up].front /\ FrontOf(f, up) + 1 \in 1 .. n
      BY <1>4, <1>5 DEF FrontOf
    <2>2. FrontOf(f, up) \in Nat
      BY <1>5, StartThenFront
    <2>. QED
      BY <1>1, <1>5, <1>7, <2>1, <2>2
  <1>13. Order(kept, g)
    <2> SUFFICES ASSUME NEW i \in 1 .. n
                 PROVE  LET m == FrontOf(g, g[kept[i]].parent) + 1
                        IN  (i < m => g[kept[i]].ran) /\ (i > m => ~g[kept[i]].ran)
      BY <1>1 DEF Order
    <2>1. /\ g[kept[i]].parent = f[q[i]].parent /\ g[kept[i]].ran = f[q[i]].ran
          /\ i \in DOMAIN q /\ f[q[i]].parent \in (Path(q, f, tip) \cup {None}) \ {tip}
      BY <1>1 DEF Path
    <2>. QED
      BY <1>7, <2>1 DEF Tree, Order
  <1>14. PointsTo(kept, g, up, tip)
    <2>1. FrontOf(f, up) + 1 \in 1 .. n /\ q[FrontOf(f, up) + 1] = tip /\ f[tip].ran
          /\ tip \in Elements(kept)
      BY <1>2, <1>5, <1>8
    <2>. QED
      BY <1>1, <1>5, <1>7, <2>1 DEF PointsTo
  <1>. QED
    BY <1>1, <1>9, <1>10, <1>11, <1>12, <1>13, <1>14 DEF Tree

\* The sub-steps of the innermost step are gone, and it stays the innermost.
LEMMA TreeCut ==
    ASSUME NEW q, NEW f, NEW g, NEW tip, NEW kept,
           Typed(q, f, tip), Tree(q, f, tip), tip # None,
           KeepsPath(q, f, tip, f[tip].start, kept), Typed(kept, g, tip),
           \A x \in Elements(kept) : g[x].parent = f[x].parent /\ g[x].ran = f[x].ran
                                     /\ g[x].start = f[x].start,
           \A x \in Elements(kept) \ {tip} : g[x].front = f[x].front,
           g[tip].front = f[tip].start
    PROVE  Tree(kept, g, tip) /\ Len(kept) = f[tip].start /\ tip \in Elements(kept)
           /\ g[tip].start = f[tip].start
  <1> DEFINE n == f[tip].start
  <1>0. KeepsPath(q, f, tip, n, kept) /\ n = f[tip].start
    OBVIOUS
  <1> HIDE DEF n
  <1>1. /\ n \in 0 .. Len(q) /\ Len(kept) = n /\ DOMAIN kept = 1 .. n
        /\ kept \in Seq(Node) /\ Distinct(kept)
        /\ \A i \in 1 .. n : /\ i \in DOMAIN q /\ kept[i] = q[i]
                             /\ q[i] \in Elements(kept)
                             /\ f[q[i]].parent # tip
    BY <1>0 DEF KeepsPath
  <1>2. \A x \in Path(q, f, tip) :
           /\ x \in Node /\ x # None /\ x \in Elements(kept)
           /\ FrontOf(f, f[x].parent) + 1 \in 1 .. n
           /\ f[x].parent \in (Path(q, f, tip) \cup {None}) \ {tip}
           /\ f[x].start <= n
    BY <1>0 DEF KeepsPath
  <1>3. \A x \in Path(q, f, tip) \ {tip} : \E i \in 1 .. n : f[q[i]].parent = x
    BY <1>0 DEF KeepsPath
  <1>4. \A x \in (Path(q, f, tip) \cup {None}) \ {tip} : FrontOf(f, x) + 1 \in 1 .. n
    BY <1>0 DEF KeepsPath
  <1>5. tip \in Path(q, f, tip)
    BY DEF Path
  <1>6. Path(kept, g, tip) = Path(q, f, tip)
    <2>1. \A i \in 1 .. n : g[kept[i]].parent = f[q[i]].parent
      BY <1>1
    <2>2. Path(kept, g, tip) = ({tip} \cup {f[q[i]].parent : i \in 1 .. n}) \ {None}
      BY <1>1, <2>1 DEF Path
    <2>3. Path(kept, g, tip) \subseteq Path(q, f, tip)
      BY <1>1, <2>2 DEF Path
    <2>4. Path(q, f, tip) \subseteq Path(kept, g, tip)
      BY <1>2, <1>3, <2>2
    <2>. QED
      BY <2>3, <2>4
  <1>7. \A x \in (Path(q, f, tip) \cup {None}) \ {tip} :
           FrontOf(g, x) = FrontOf(f, x) /\ StartOf(g, x) = StartOf(f, x)
    BY <1>2 DEF FrontOf, StartOf
  <1>8. \A x \in Path(q, f, tip) :
           /\ FrontOf(f, f[x].parent) + 1 \in DOMAIN q
           /\ q[FrontOf(f, f[x].parent) + 1] = x
           /\ FrontOf(f, f[x].parent) < f[x].start
           /\ \A i \in DOMAIN q : f[q[i]].parent = f[x].parent
                  <=> StartOf(f, f[x].parent) < i /\ i <= f[x].start
           /\ f[x].start <= f[x].front /\ f[x].ran
    BY DEF Tree, Levels
  <1>9. EndIsTip(kept, g, tip)
    <2>1. StartOf(g, tip) = n
      BY <1>0, <1>2, <1>5 DEF StartOf
    <2>2. \A i \in 1 .. n : g[kept[i]].parent # tip /\ ~(i > n)
      BY <1>1
    <2>. QED
      BY <1>1, <2>1, <2>2 DEF EndIsTip
  <1>10. FrontsRun(kept, g, tip)
    <2> SUFFICES ASSUME NEW p \in (Path(q, f, tip) \cup {None}) \ {tip}
                 PROVE  LET m == FrontOf(g, p) + 1
                        IN  /\ m \in DOMAIN kept /\ kept[m] \in Path(q, f, tip)
                            /\ g[kept[m]].parent = p
      BY <1>6 DEF FrontsRun
    <2> DEFINE m == FrontOf(f, p) + 1
    <2>1. m \in 1 .. n /\ q[m] \in Path(q, f, tip) /\ f[q[m]].parent = p
      BY <1>4 DEF Tree, FrontsRun
    <2>. QED
      BY <1>1, <1>7, <2>1
  <1>11. Levels(kept, g, tip)
    <2> SUFFICES ASSUME NEW p \in Path(q, f, tip)
                 PROVE  LET o == g[p].parent
                        IN  /\ FrontOf(g, o) + 1 \in DOMAIN kept
                            /\ kept[FrontOf(g, o) + 1] = p
                            /\ FrontOf(g, o) < g[p].start /\ g[p].start <= Len(kept)
                            /\ \A i \in DOMAIN kept : g[kept[i]].parent = o
                                   <=> StartOf(g, o) < i /\ i <= g[p].start
                            /\ g[p].start <= g[p].front /\ g[p].ran
      BY <1>6 DEF Levels
    <2> DEFINE o == f[p].parent
    <2>1. /\ p \in Elements(kept) /\ o \in (Path(q, f, tip) \cup {None}) \ {tip}
          /\ FrontOf(f, o) + 1 \in 1 .. n /\ f[p].start <= n
      BY <1>2
    <2>2. /\ g[p].parent = o /\ g[p].start = f[p].start
          /\ g[p].ran = f[p].ran
          /\ FrontOf(g, o) = FrontOf(f, o) /\ StartOf(g, o) = StartOf(f, o)
      BY <1>7, <2>1
    <2>3. /\ kept[FrontOf(f, o) + 1] = p /\ FrontOf(f, o) < f[p].start
          /\ f[p].ran
      BY <1>1, <1>8, <2>1
    <2>4. \A i \in 1 .. n : g[kept[i]].parent = o
                              <=> StartOf(f, o) < i /\ i <= f[p].start
      <3>1. \A i \in 1 .. n : g[kept[i]].parent = f[q[i]].parent /\ i \in DOMAIN q
        BY <1>1
      <3>. QED
        BY <1>8, <3>1
    <2>5. g[p].start <= g[p].front
      <3>1. CASE p = tip
        BY <1>0, <1>1, <2>2, <3>1
      <3>2. CASE p # tip
        BY <1>8, <2>1, <2>2, <3>2
      <3>. QED
        BY <3>1, <3>2
    <2>. QED
      BY <1>1, <2>1, <2>2, <2>3, <2>4, <2>5
  <1>12. TipFront(kept, g, tip)
    BY <1>1, <1>2, <1>5 DEF TipFront
  <1>13. Order(kept, g)
    <2> SUFFICES ASSUME NEW i \in 1 .. n
                 PROVE  LET m == FrontOf(g, g[kept[i]].parent) + 1
                        IN  (i < m => g[kept[i]].ran) /\ (i > m => ~g[kept[i]].ran)
      BY <1>1 DEF Order
    <2>1. /\ g[kept[i]].parent = f[q[i]].parent /\ g[kept[i]].ran = f[q[i]].ran
          /\ i \in DOMAIN q /\ f[q[i]].parent \in (Path(q, f, tip) \cup {None}) \ {tip}
      BY <1>1 DEF Path
    <2>. QED
      BY <1>7, <2>1 DEF Tree, Order
  <1>. QED
    BY <1>0, <1>1, <1>2, <1>5, <1>9, <1>10, <1>11, <1>12, <1>13 DEF Tree

\* The innermost step's front stays, or moves over a sub-step that has run to
\* another one.
LEMMA TreeMoved ==
    ASSUME NEW q, NEW f, NEW g, NEW tip, Typed(q, f, tip), Tree(q, f, tip),
           Typed(q, g, tip),
           \A x \in Node : g[x].parent = f[x].parent /\ g[x].start = f[x].start
                           /\ g[x].ran = f[x].ran,
           \A x \in Node \ {tip} : g[x].front = f[x].front,
           tip # None => \/ g[tip].front = f[tip].front
                         \/ /\ g[tip].front = f[tip].front + 1
                            /\ g[tip].front < Len(q)
                            /\ f[q[g[tip].front]].ran
    PROVE  Tree(q, g, tip)
  <1>1. /\ Len(q) \in Nat /\ DOMAIN q = 1 .. Len(q) /\ \A i \in DOMAIN q : q[i] \in Node
        /\ \A i \in DOMAIN q : g[q[i]].parent = f[q[i]].parent /\ g[q[i]].ran = f[q[i]].ran
    BY DEF Typed
  <1>2. Path(q, g, tip) = Path(q, f, tip)
    BY <1>1 DEF Path
  <1>3. \A x \in Path(q, f, tip) : /\ x \in Node /\ x # None /\ f[x].parent # tip
                                   /\ f[x].parent \in Node \cup {None}
    <2> SUFFICES ASSUME NEW x \in Path(q, f, tip)
                 PROVE  /\ x \in Node /\ x # None /\ f[x].parent # tip
                        /\ f[x].parent \in Node \cup {None}
      OBVIOUS
    <2>1. f[x].parent # tip
      BY TipIsInnermost
    <2>2. x \in Node /\ x # None
      BY <1>1 DEF Path, Typed
    <2>. QED
      BY <2>1, <2>2 DEF Typed
  <1>4. /\ \A x \in Node \cup {None} : StartOf(g, x) = StartOf(f, x)
        /\ \A x \in (Node \cup {None}) \ {tip} : FrontOf(g, x) = FrontOf(f, x)
    BY DEF StartOf, FrontOf
  <1>5. EndIsTip(q, g, tip)
    BY <1>1, <1>4 DEF Typed, Tree, EndIsTip
  <1>6. FrontsRun(q, g, tip)
    <2> SUFFICES ASSUME NEW p \in (Path(q, f, tip) \cup {None}) \ {tip}
                 PROVE  LET n == FrontOf(g, p) + 1
                        IN  /\ n \in DOMAIN q /\ q[n] \in Path(q, f, tip)
                            /\ g[q[n]].parent = p
      BY <1>2 DEF FrontsRun
    <2>. QED
      BY <1>1, <1>3, <1>4 DEF Tree, FrontsRun
  <1>7. Levels(q, g, tip)
    <2> SUFFICES ASSUME NEW p \in Path(q, f, tip)
                 PROVE  LET o == g[p].parent
                        IN  /\ FrontOf(g, o) + 1 \in DOMAIN q
                            /\ q[FrontOf(g, o) + 1] = p
                            /\ FrontOf(g, o) < g[p].start /\ g[p].start <= Len(q)
                            /\ \A i \in DOMAIN q : g[q[i]].parent = o
                                   <=> StartOf(g, o) < i /\ i <= g[p].start
                            /\ g[p].start <= g[p].front /\ g[p].ran
      BY <1>2 DEF Levels
    <2> DEFINE o == f[p].parent
    <2>1. /\ FrontOf(f, o) + 1 \in DOMAIN q /\ q[FrontOf(f, o) + 1] = p
          /\ FrontOf(f, o) < f[p].start /\ f[p].start <= Len(q)
          /\ \A i \in DOMAIN q : f[q[i]].parent = o
                                   <=> StartOf(f, o) < i /\ i <= f[p].start
          /\ f[p].start <= f[p].front /\ f[p].ran
      BY DEF Tree, Levels
    <2>2. /\ g[p].parent = o /\ g[p].start = f[p].start /\ g[p].ran = f[p].ran
          /\ FrontOf(g, o) = FrontOf(f, o) /\ StartOf(g, o) = StartOf(f, o)
      BY <1>3, <1>4
    <2>3. f[p].start <= g[p].front
      <3>1. f[p].start \in Nat /\ f[p].front \in Nat /\ g[p].front \in Nat
        BY <1>3 DEF Typed
      <3>2. g[p].front = f[p].front \/ g[p].front = f[p].front + 1
        BY <1>3
      <3>. QED
        BY <2>1, <3>1, <3>2
    <2>. QED
      BY <1>1, <2>1, <2>2, <2>3
  <1>8. TipFront(q, g, tip)
    <2> SUFFICES ASSUME tip # None
                 PROVE  /\ g[tip].front <= Len(q)
                        /\ g[tip].front = Len(q) => g[tip].start = Len(q)
      BY DEF TipFront
    <2>1. tip \in Node /\ g[tip].start = f[tip].start /\ g[tip].front \in Nat
      BY DEF Typed
    <2>. QED
      BY <1>1, <2>1 DEF Tree, TipFront
  <1>9. Order(q, g)
    <2> SUFFICES ASSUME NEW i \in DOMAIN q
                 PROVE  LET n == FrontOf(g, g[q[i]].parent) + 1
                        IN  (i < n => g[q[i]].ran) /\ (i > n => ~g[q[i]].ran)
      BY DEF Order
    <2> DEFINE o == f[q[i]].parent
    <2>1. g[q[i]].parent = o /\ g[q[i]].ran = f[q[i]].ran /\ o \in Node \cup {None}
      BY <1>1 DEF Typed
    <2>2. /\ i < FrontOf(f, o) + 1 => f[q[i]].ran
          /\ i > FrontOf(f, o) + 1 => ~f[q[i]].ran
      BY DEF Tree, Order
    <2>3. CASE o # tip \/ tip = None
      <3>1. FrontOf(g, o) = FrontOf(f, o)
        BY <1>4, <2>1, <2>3 DEF FrontOf
      <3>. QED
        BY <2>1, <2>2, <3>1
    <2>4. CASE o = tip /\ tip # None
      <3>1. /\ FrontOf(g, o) = g[tip].front /\ FrontOf(f, o) = f[tip].front
            /\ g[tip].front \in Nat /\ f[tip].front \in Nat /\ i \in Nat
        BY <1>1, <2>1, <2>4 DEF FrontOf, Typed
      <3>2. CASE g[tip].front = f[tip].front
        BY <2>1, <2>2, <3>1, <3>2
      <3>3. CASE g[tip].front = f[tip].front + 1 /\ f[q[g[tip].front]].ran
        BY <2>1, <2>2, <3>1, <3>3
      <3>. QED
        BY <2>4, <3>2, <3>3
    <2>. QED
      BY <2>3, <2>4
  <1>. QED
    BY <1>5, <1>6, <1>7, <1>8, <1>9 DEF Tree

\* The root level: when no step runs all steps are root steps, and the first
\* one may be taken away.
LEMMA TreeShifted ==
    ASSUME NEW q, NEW f, NEW g, Typed(q, f, None), Tree(q, f, None), q # <<>>,
           Typed(Tail(q), g, None),
           \A x \in Elements(Tail(q)) : g[x].parent = f[x].parent
                                        /\ g[x].ran = f[x].ran
    PROVE  Tree(Tail(q), g, None)
  <1> DEFINE rest == Tail(q)
  <1>1. /\ Len(q) \in Nat \ {0} /\ DOMAIN q = 1 .. Len(q) /\ q \in Seq(Node)
    BY DEF Typed
  <1>2. /\ Len(rest) = Len(q) - 1 /\ DOMAIN rest = 1 .. Len(q) - 1
        /\ \A i \in DOMAIN rest : i + 1 \in DOMAIN q /\ rest[i] = q[i + 1]
                                  /\ rest[i] \in Elements(rest)
    BY <1>1 DEF Elements
  <1> HIDE DEF rest
  <1>3. \A i \in DOMAIN q : f[q[i]].parent = None
    BY <1>1 DEF Tree, EndIsTip, StartOf
  <1>4. \A i \in DOMAIN rest : g[rest[i]].parent = None /\ ~g[rest[i]].ran
    <2> SUFFICES ASSUME NEW i \in DOMAIN rest
                 PROVE  g[rest[i]].parent = None /\ ~g[rest[i]].ran
      OBVIOUS
    <2>1. i + 1 \in DOMAIN q /\ rest[i] = q[i + 1] /\ i \in Nat \ {0}
          /\ g[rest[i]].parent = f[q[i + 1]].parent /\ g[rest[i]].ran = f[q[i + 1]].ran
      BY <1>1, <1>2 DEF rest
    <2>. QED
      BY <1>3, <2>1 DEF Tree, Order, FrontOf
  <1>5. Path(rest, g, None) = {}
    BY <1>4 DEF Path
  <1>6. Distinct(rest)
    <2> SUFFICES ASSUME NEW i \in DOMAIN rest, NEW j \in DOMAIN rest, rest[i] = rest[j]
                 PROVE  i = j
      BY DEF Distinct
    <2>1. i + 1 = j + 1
      BY <1>2 DEF Tree, Distinct
    <2>. QED
      BY <1>1, <1>2, <2>1
  <1>7. EndIsTip(rest, g, None) /\ Order(rest, g)
    BY <1>1, <1>2, <1>4 DEF EndIsTip, StartOf, Order, FrontOf
  <1>8. FrontsRun(rest, g, None) /\ Levels(rest, g, None) /\ TipFront(rest, g, None)
    BY <1>5 DEF FrontsRun, Levels, TipFront
  <1>. QED
    BY <1>6, <1>7, <1>8 DEF Tree, rest

\* The empty deque is a tree.
LEMMA TreeEmpty == ASSUME NEW f PROVE Tree(<<>>, f, None)
  BY DEF Tree, Distinct, EndIsTip, FrontsRun, Levels, TipFront, Order, Path

\* The innermost step, without sub-steps, is left.
LEMMA TreeUp ==
    ASSUME NEW q, NEW f, NEW tip, Typed(q, f, tip), Tree(q, f, tip), tip # None,
           f[tip].start = Len(q)
    PROVE  LET up == f[tip].parent
           IN  /\ Tree(q, f, up) /\ up \in Node \cup {None}
               /\ FrontOf(f, up) < Len(q) /\ f[q[FrontOf(f, up) + 1]].ran
  <1> DEFINE up == f[tip].parent
  <1>1. q \in Seq(Node) /\ tip \in Node /\ up \in Node \cup {None}
    BY DEF Typed
  <1>2. SubSeq(q, 1, f[tip].start) = q
    BY <1>1
  <1>3. KeepsPath(q, f, tip, f[tip].start, q)
    BY <1>2, KeptPath
  <1>4. Typed(q, f, up)
    BY <1>1 DEF Typed
  <1>5. /\ Tree(q, f, f[tip].parent) /\ FrontOf(f, f[tip].parent) + 1 \in DOMAIN q
        /\ q[FrontOf(f, f[tip].parent) + 1] = tip /\ f[tip].ran
    <2>1. Tree(q, f, f[tip].parent)
      BY <1>3, <1>4, TreeLeft, Zenon
    <2>2. PointsTo(q, f, f[tip].parent, tip)
      BY <1>3, <1>4, TreeLeft, Zenon
    <2>. QED
      BY <2>1, <2>2 DEF PointsTo
  <1>6. FrontOf(f, up) \in Nat
    BY <1>1 DEF FrontOf, Typed
  <1>. QED
    BY <1>1, <1>5, <1>6

\* Beyond its front, a level has not run.
LEMMA RestIsNew ==
    ASSUME NEW q, NEW f, NEW tip, Typed(q, f, tip), Tree(q, f, tip),
           NEW i \in DOMAIN q, i > FrontOf(f, tip) + 1
    PROVE  f[q[i]].parent = tip /\ ~f[q[i]].ran
  <1>1. /\ StartOf(f, tip) \in Nat /\ FrontOf(f, tip) \in Nat
        /\ StartOf(f, tip) <= FrontOf(f, tip) /\ i \in Nat
    <2>1. tip = None \/ tip \in Path(q, f, tip)
      BY DEF Path
    <2>. QED
      BY <2>1 DEF Typed, StartOf, FrontOf, Tree, Levels
  <1>2. f[q[i]].parent = tip
    BY <1>1 DEF Tree, EndIsTip
  <1>. QED
    BY <1>1, <1>2 DEF Tree, Order

\* The sub-steps of a running step up to any of them: they begin at its start,
\* after it, and its front is before the end of the queue.
LEMMA LevelRun ==
    ASSUME NEW q, NEW f, NEW tip, Typed(q, f, tip), Tree(q, f, tip),
           NEW j \in DOMAIN q, NEW p, p = f[q[j]].parent, p # None
    PROVE  /\ p \in Path(q, f, tip)
           /\ \E k \in DOMAIN q : q[k] = p /\ k <= f[p].start
           /\ f[p].start <= f[p].front /\ f[p].front < Len(q)
           /\ \A i \in f[p].start + 1 .. j : f[q[i]].parent = p
  <1> DEFINE o == f[p].parent
  <1>1. /\ Len(q) \in Nat /\ DOMAIN q = 1 .. Len(q) /\ p \in Path(q, f, tip) /\ p \in Node
    BY DEF Path, Typed
  <1>2. /\ FrontOf(f, o) + 1 \in DOMAIN q /\ q[FrontOf(f, o) + 1] = p
        /\ FrontOf(f, o) < f[p].start /\ f[p].start <= f[p].front
    BY <1>1 DEF Tree, Levels
  <1>3. f[p].start \in Nat /\ f[p].front \in Nat /\ FrontOf(f, o) \in Nat
    BY <1>1 DEF Typed, FrontOf
  <1>4. \E k \in DOMAIN q : q[k] = p /\ k <= f[p].start
    BY <1>1, <1>2, <1>3, SMTT(40)
  <1>5. CASE p = tip
    <2>1. \A i \in DOMAIN q : f[q[i]].parent = p <=> i > f[p].start
      BY <1>5 DEF Tree, EndIsTip, StartOf
    <2>2. f[p].front <= Len(q) /\ (f[p].front = Len(q) => f[p].start = Len(q))
      BY <1>5 DEF Tree, TipFront
    <2>3. f[p].front < Len(q)
      BY <1>1, <1>3, <2>1, <2>2
    <2>4. \A i \in f[p].start + 1 .. j : f[q[i]].parent = p
      BY <1>1, <1>3, <2>1, SMTT(40)
    <2>. QED
      BY <1>1, <1>2, <1>4, <2>3, <2>4
  <1>6. CASE p # tip
    <2> DEFINE c == q[f[p].front + 1]
    <2>1. f[p].front + 1 \in DOMAIN q /\ c \in Path(q, f, tip) /\ f[c].parent = p
      BY <1>1, <1>6 DEF Tree, FrontsRun, FrontOf
    <2> HIDE DEF c
    <2>2. \A i \in DOMAIN q : f[q[i]].parent = p <=> f[p].start < i /\ i <= f[c].start
      <3>1. \A i \in DOMAIN q : f[q[i]].parent = f[c].parent
                 <=> StartOf(f, f[c].parent) < i /\ i <= f[c].start
        BY <2>1 DEF Tree, Levels
      <3>. QED
        BY <2>1, <3>1 DEF StartOf
    <2>3. f[c].start \in Nat
      <3>1. c \in Node
        BY <2>1 DEF Path, Typed
      <3>. QED
        BY <3>1 DEF Typed
    <2>4. f[p].front < Len(q)
      BY <1>1, <1>3, <2>1
    <2>5. \A i \in f[p].start + 1 .. j : f[q[i]].parent = p
      <3>1. j <= f[c].start /\ j \in Nat /\ j \in 1 .. Len(q)
        BY <1>1, <2>2
      <3> SUFFICES ASSUME NEW i \in f[p].start + 1 .. j PROVE f[q[i]].parent = p
        OBVIOUS
      <3>2. f[p].start < i /\ i <= f[c].start /\ 1 <= i /\ i <= Len(q) /\ i \in Nat
        BY <1>3, <2>3, <3>1, SMTT(40)
      <3>. QED
        BY <1>1, <2>2, <3>2
    <2>. QED
      BY <1>1, <1>2, <1>4, <2>4, <2>5
  <1>. QED
    BY <1>5, <1>6

\* The running steps are in the queue, none after the innermost one.
LEMMA PathBelowTip ==
    ASSUME NEW q, NEW f, NEW tip, Typed(q, f, tip), Tree(q, f, tip),
           NEW p \in Path(q, f, tip)
    PROVE  /\ tip # None /\ f[p].ran /\ p \in Node
           /\ \E i, j \in DOMAIN q : i <= j /\ q[i] = p /\ q[j] = tip
  <1> DEFINE R == {i \in DOMAIN q : q[i] \in Path(q, f, tip)}
             T == {Len(q) - i : i \in R}
  <1>1. Len(q) \in Nat /\ DOMAIN q = 1 .. Len(q) /\ \A i \in DOMAIN q : q[i] \in Node
    BY DEF Typed
  <1>2. \A x \in Path(q, f, tip) : x \in Node /\ f[x].start \in Nat /\ f[x].front \in Nat
                                   /\ f[x].parent \in Node \cup {None}
    BY <1>1 DEF Path, Typed
  <1>3. ASSUME NEW x \in Path(q, f, tip)
        PROVE  /\ FrontOf(f, f[x].parent) + 1 \in DOMAIN q
               /\ q[FrontOf(f, f[x].parent) + 1] = x
               /\ FrontOf(f, f[x].parent) + 1 <= f[x].front
    <2>1. /\ FrontOf(f, f[x].parent) + 1 \in DOMAIN q
          /\ q[FrontOf(f, f[x].parent) + 1] = x
          /\ FrontOf(f, f[x].parent) < f[x].start /\ f[x].start <= f[x].front
      BY DEF Tree, Levels
    <2>2. FrontOf(f, f[x].parent) \in Nat
      BY <1>2 DEF FrontOf, Typed
    <2>. QED
      BY <1>2, <2>1, <2>2
  <1>4. PICK i \in R : q[i] = p /\ i = FrontOf(f, f[p].parent) + 1
    BY <1>3
  <1>5. T # {} /\ T \subseteq Nat
    BY <1>1, <1>4
  <1>6. PICK k \in T : \A y \in T : k <= y
    BY <1>5, LeastNumber
  <1>7. PICK j \in R : k = Len(q) - j
    BY <1>6
  <1>8. \A y \in R : y <= j
    <2> SUFFICES ASSUME NEW y \in R PROVE y <= j
      OBVIOUS
    <2>1. k <= Len(q) - y
      BY <1>6
    <2>. QED
      BY <1>1, <1>7, <2>1
  <1>9. q[j] = tip
    <2> SUFFICES ASSUME q[j] # tip PROVE FALSE
      OBVIOUS
    <2> DEFINE x == q[j]
    <2>1. x \in Path(q, f, tip) /\ x # None /\ x # tip
      BY DEF Path
    <2>2. j = FrontOf(f, f[x].parent) + 1
      BY <1>1, <1>3, <2>1 DEF Tree, Distinct
    <2>3. FrontOf(f, x) = f[x].front
      BY <2>1 DEF FrontOf
    <2>4. f[x].front + 1 \in R
      BY <2>1, <2>3 DEF Tree, FrontsRun
    <2>5. f[x].front + 1 <= j /\ j <= f[x].front
      BY <1>3, <1>8, <2>1, <2>2, <2>4
    <2>6. j \in Nat /\ f[x].front \in Nat
      BY <1>1, <1>2, <2>1
    <2>. HIDE DEF x
    <2>. QED
      BY <2>5, <2>6
  <1>10. tip # None
    BY <1>9 DEF Path
  <1>11. f[p].ran /\ p \in Node
    BY <1>2 DEF Tree, Levels
  <1>. QED
    BY <1>1, <1>4, <1>8, <1>9, <1>10, <1>11

=============================================================================
