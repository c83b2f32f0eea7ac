---------------------------- MODULE StepsProofs ----------------------------
(* Proofs about the step engine, AsyncSteps, for any memory of steps and   *)
(* timers and any mix of user code.                                        *)
EXTENDS AsyncSteps, FiniteSetTheorems, FunctionTheorems, TLAPS

\* The deque as a tree of steps.
INSTANCE ListProofs WITH Node <- Step

----------------------------------------------------------------------------
(* What the operators on the records of the steps do.                       *)

Data == [parent : Step \cup {None}, start : Nat, front : Nat,
         on_error : BOOLEAN, on_cancel : BOOLEAN,
         loop : {"no", "go", "stop", "poll", "done"},
         limit : Timer \cup {None}, allocs : Nat,
         ran : BOOLEAN, asked : BOOLEAN]

\* A reset record is a record.
LEMMA FreshType == Fresh \in Data
  BY DEF Fresh, Data

\* What execute_handler() writes into a step before it calls the handler.
LEMMA StartedFacts ==
    ASSUME st \in [Step -> Data], queue \in Seq(Step), NEW s \in Step
    PROVE  /\ Started(s) \in [Step -> Data]
           /\ \A x \in Step \ {s} : Started(s)[x] = st[x]
           /\ Started(s)[s].start = Len(queue) /\ Started(s)[s].front = Len(queue)
           /\ Started(s)[s].ran /\ ~Started(s)[s].asked
           /\ Started(s)[s].parent = st[s].parent /\ Started(s)[s].loop = st[s].loop
           /\ Started(s)[s].limit = st[s].limit
           /\ Started(s)[s].on_cancel = st[s].on_cancel
           /\ Started(s)[s].allocs = IF IsLoop(s) THEN 0 ELSE st[s].allocs
  <1>1. Len(queue) \in Nat /\ st[s] \in Data /\ IsLoop(s) \in BOOLEAN
    BY DEF IsLoop
  <1> DEFINE r == [parent |-> st[s].parent, start |-> Len(queue), front |-> Len(queue),
                   on_error |-> st[s].on_error \/ IsLoop(s),
                   on_cancel |-> st[s].on_cancel, loop |-> st[s].loop,
                   limit |-> st[s].limit,
                   allocs |-> IF IsLoop(s) THEN 0 ELSE st[s].allocs,
                   ran |-> TRUE, asked |-> FALSE]
  <1>2. r \in Data
    BY <1>1 DEF Data
  <1>3. Started(s)[s] = r
    BY <1>1 DEF Started, Data
  <1>4. Started(s) = [st EXCEPT ![s] = r]
    BY <1>1, <1>3 DEF Started
  <1> HIDE DEF r
  <1>5. Started(s) \in [Step -> Data] /\ \A x \in Step \ {s} : Started(s)[x] = st[x]
    BY <1>2, <1>4
  <1>. QED
    BY <1>3, <1>5 DEF r

\* The steps a handler adds.
LEMMA AdditionsFacts ==
    ASSUME NEW n \in Nat, NEW memory, memory \subseteq Step,
           NEW a \in Additions(n, memory)
    PROVE  /\ Ids(a) \in Seq(Step) /\ Len(Ids(a)) = n /\ Distinct(Ids(a))
           /\ Elements(Ids(a)) \subseteq memory
           /\ DOMAIN a = 1 .. n /\ DOMAIN Ids(a) = 1 .. n
           /\ \A i \in 1 .. n : /\ a[i].step \in memory /\ Ids(a)[i] = a[i].step
                                /\ a[i].kind.loop \in {"no", "go", "poll"}
                                /\ a[i].kind.on_error \in BOOLEAN
           /\ a = <<>> <=> n = 0
  <1>1. /\ a \in [1 .. n -> [step : memory, kind : Kinds]]
        /\ \A i, j \in 1 .. n : a[i].step = a[j].step => i = j
    BY DEF Additions
  <1>2. \A k \in Kinds : k.loop \in {"no", "go", "poll"} /\ k.on_error \in BOOLEAN
    BY DEF Kinds
  <1>3. /\ DOMAIN a = 1 .. n
        /\ \A i \in 1 .. n : a[i].step \in memory /\ a[i].kind \in Kinds
    BY <1>1
  <1>4. Ids(a) \in [1 .. n -> Step] /\ \A i \in 1 .. n : Ids(a)[i] = a[i].step
    BY <1>3 DEF Ids
  <1>5. Ids(a) \in Seq(Step) /\ Len(Ids(a)) = n /\ DOMAIN Ids(a) = 1 .. n
    BY <1>4
  <1>6. Distinct(Ids(a)) /\ Elements(Ids(a)) \subseteq memory
    BY <1>1, <1>3, <1>4, <1>5 DEF Distinct, Elements
  <1>7. a = <<>> <=> n = 0
    <2> DEFINE S == [step : memory, kind : Kinds]
    <2> HIDE DEF S
    <2>1. a \in Seq(S) /\ Len(a) = n
      <3>1. a \in [1 .. n -> S]
        BY <1>1 DEF S
      <3>. QED
        BY <3>1
    <2>. QED
      BY <2>1
  <1>. QED
    BY <1>2, <1>3, <1>4, <1>5, <1>6, <1>7

\* A constructed step has not run, and the others stay as they are.
LEMMA ConstructFacts ==
    ASSUME NEW n \in Nat, NEW memory, memory \subseteq Step,
           NEW a \in Additions(n, memory),
           NEW f \in [Step -> Data], NEW p \in Step \cup {None}
    PROVE  /\ Construct(f, p, a) \in [Step -> Data]
           /\ \A x \in Step \ Elements(Ids(a)) : Construct(f, p, a)[x] = f[x]
           /\ \A x \in Elements(Ids(a)) :
                 LET c == Construct(f, p, a)[x]
                 IN  /\ x \in Step /\ c.parent = p /\ c.start = 0 /\ c.front = 0
                     /\ ~c.on_cancel /\ c.loop \in {"no", "go", "poll"}
                     /\ c.limit = None /\ c.allocs = 0 /\ ~c.ran /\ ~c.asked
  <1>1. /\ DOMAIN a = 1 .. n /\ DOMAIN Ids(a) = 1 .. n
        /\ Elements(Ids(a)) \subseteq Step
        /\ \A i \in 1 .. n : /\ a[i].step \in memory /\ Ids(a)[i] = a[i].step
                             /\ a[i].kind.loop \in {"no", "go", "poll"}
                             /\ a[i].kind.on_error \in BOOLEAN
    BY AdditionsFacts
  <1> DEFINE new(i) == [Fresh EXCEPT !.parent = p, !.loop = a[i].kind.loop,
                                     !.on_error = a[i].kind.on_error]
             good(c) == /\ c \in Data /\ c.parent = p /\ c.start = 0 /\ c.front = 0
                        /\ ~c.on_cancel /\ c.loop \in {"no", "go", "poll"}
                        /\ c.limit = None /\ c.allocs = 0 /\ ~c.ran /\ ~c.asked
  <1>2. \A i \in 1 .. n : good(new(i))
    <2> TAKE i \in 1 .. n
    <2>1. /\ a[i].kind.loop \in {"no", "go", "poll"}
          /\ a[i].kind.on_error \in BOOLEAN
      BY <1>1
    <2>. QED
      BY <2>1 DEF Fresh, Data
  <1>3. \A x \in Step : x \in Elements(Ids(a)) <=> \E i \in DOMAIN a : a[i].step = x
    BY <1>1 DEF Elements
  <1>4. \A x \in Step : Construct(f, p, a)[x] =
           IF \E i \in DOMAIN a : a[i].step = x
           THEN new(CHOOSE i \in DOMAIN a : a[i].step = x) ELSE f[x]
    BY DEF Construct
  <1> HIDE DEF new, good
  <1>5. \A x \in Step : (\E i \in DOMAIN a : a[i].step = x) =>
           good(Construct(f, p, a)[x])
    BY <1>1, <1>2, <1>4
  <1>6. \A x \in Step \ Elements(Ids(a)) : Construct(f, p, a)[x] = f[x]
    BY <1>3, <1>4
  <1>7. \A x \in Elements(Ids(a)) : x \in Step /\ good(Construct(f, p, a)[x])
    BY <1>1, <1>3, <1>5
  <1>8. \A x \in Step : Construct(f, p, a)[x] \in Data
    BY <1>6, <1>7 DEF good
  <1>9. Construct(f, p, a) \in [Step -> Data]
    BY <1>8 DEF Construct
  <1>. QED
    BY <1>6, <1>7, <1>9 DEF good

\* destroy_step() resets the destroyed records and no other.
LEMMA DestroyFacts ==
    ASSUME NEW f \in [Step -> Data], NEW D
    PROVE  /\ Destroy(f, D) \in [Step -> Data]
           /\ \A x \in Step : Destroy(f, D)[x] = IF x \in D THEN Fresh ELSE f[x]
  BY FreshType DEF Destroy

\* What is left of the objects after the steps D are destroyed.
LEMMA PoppedType ==
    ASSUME st \in [Step -> Data], allocs \in Seq(Step \cup {None}),
           NEW D, D \subseteq Step
    PROVE  Popped(D) \in Seq(Step \cup {None}) /\ Len(Popped(D)) <= Len(allocs)
  <1> DEFINE objects(s) == {s} \X (1 .. st[s].allocs)
             counted == UNION {objects(s) : s \in D}
             n == Len(allocs) - Cardinality(counted)
  <1>1. IsFiniteSet(D)
    BY StepsAssumption, FS_Subset
  <1>2. \A s \in D : IsFiniteSet(objects(s))
    <2> TAKE s \in D
    <2>1. st[s].allocs \in Nat
      BY DEF Data
    <2>2. IsFiniteSet({s})
      BY FS_Singleton
    <2>3. IsFiniteSet(1 .. st[s].allocs)
      <3>1. 1 \in Int /\ st[s].allocs \in Int
        BY <2>1
      <3>. QED
        BY <3>1, FS_Interval
    <2>. QED
      BY <2>2, <2>3, FS_Product
  <1>3. IsFiniteSet({objects(s) : s \in D})
    <2> DEFINE m == [s \in D |-> objects(s)]
    <2>1. m \in Surjection(D, {objects(s) : s \in D})
      BY DEF Surjection
    <2>. QED
      BY <1>1, <2>1, FS_Surjection
  <1>4. IsFiniteSet(counted)
    <2>1. \A T \in {objects(s) : s \in D} : IsFiniteSet(T)
      BY <1>2
    <2>. QED
      BY <1>3, <2>1, FS_UNION
  <1>5. Cardinality(counted) \in Nat
    BY <1>4, FS_CardinalityType
  <1>6. n \in Int /\ n <= Len(allocs) /\ Len(allocs) \in Nat
    BY <1>5
  <1>7. Popped(D) = SubSeq(allocs, 1, n)
    BY DEF Popped
  <1> HIDE DEF n
  <1>8. CASE n < 1
    BY <1>6, <1>7, <1>8
  <1>9. CASE n >= 1
    BY <1>6, <1>7, <1>9
  <1>. QED
    BY <1>6, <1>8, <1>9

\* The timers of destroyed steps are canceled, all others go on.
LEMMA DisarmFacts ==
    ASSUME st \in [Step -> Data], armed \in [Timer -> Step \cup {None}], NEW D
    PROVE  /\ Disarm(D) \in [Timer -> Step \cup {None}]
           /\ \A t \in Timer : Disarm(D)[t] = IF armed[t] \in D /\ st[armed[t]].limit = t
                                              THEN None ELSE armed[t]
  BY DEF Disarm

----------------------------------------------------------------------------
(* The inductive invariant that the deque is a tree.  DequeIsTree is not    *)
(* inductive: one has to know which step is the innermost running one while *)
(* the loops of handle_success_sync() and handle_error_sync() walk up, what *)
(* they still find there, and what an execution that is scheduled will run. *)

Types ==
    /\ queue \in Seq(Step) /\ st \in [Step -> Data]
    /\ armed \in [Timer -> Step \cup {None}]
    /\ allocs \in Seq(Step \cup {None}) /\ Len(allocs) <= MaxAllocs
    /\ top \in Step \cup {None} /\ cur \in Step \cup {None}
    /\ exec \in BOOLEAN /\ in_exec \in BOOLEAN /\ sched \in BOOLEAN
    /\ error_code \in {"", "Timeout"} \cup Codes
    /\ pc \in {"idle", "exec", "climb", "unwind"}
    /\ burst \in 0 .. BurstSize
    /\ request \in Step \cup {None}
    /\ fatal \in {""} \cup InvalidCalls

Tip == IF pc \in {"idle", "exec"} THEN top ELSE cur

\* What will be executed next is there, and runs again only if it repeats.
Ready ==
    ((pc = "exec" /\ sched) \/ (pc = "idle" /\ exec)) /\ queue # <<>> =>
        /\ FrontOf(st, top) < Len(queue)
        /\ LET s == queue[FrontOf(st, top) + 1] IN st[s].ran => Repeats(s)

\* The climbing loop comes from a step that has run.
Climbing ==
    pc = "climb" => FrontOf(st, cur) < Len(queue)
                    /\ st[queue[FrontOf(st, cur) + 1]].ran

Unwinding == pc = "unwind" => top = cur /\ error_code # ""

Bursting == (pc = "exec" => in_exec) /\ (pc = "idle" => ~in_exec)
            /\ (~in_exec => ~sched)

Walk == Ready /\ Climbing /\ Unwinding /\ Bursting

TreeInv == Types /\ Tree(queue, st, Tip) /\ Walk

\* The types of the records are those that the tree needs.
LEMMA MarksAreTyped ==
    ASSUME NEW q \in Seq(Step), NEW f \in [Step -> Data], NEW tip \in Step \cup {None}
    PROVE  Typed(q, f, tip)
  BY StepsAssumption DEF Typed, Data

\* The records when the handler of s is called, as far as the tree goes.
StartsAs(f, s) ==
    /\ f \in [Step -> Data]
    /\ \A x \in Step : f[x].parent = st[x].parent
    /\ \A x \in Step \ {s} : f[x].start = st[x].start /\ f[x].front = st[x].front
                             /\ f[x].ran = st[x].ran
    /\ f[s].start = Len(queue) /\ f[s].front = Len(queue) /\ f[s].ran

\* The records after the handler.
After(s, f, a, w, t, end) ==
    [Construct(f, s, a) EXCEPT
        ![s].on_cancel = @ \/ w,
        ![s].limit = IF t = None THEN @ ELSE t,
        ![s].asked = end = "return" /\ a = <<>> /\ (w \/ t # None)]

\* g are those records: f but for what the handler did to its own and the new
\* ones.
Handled(s, f, a, w, t, end, g) ==
    /\ g \in [Step -> Data]
    /\ \A x \in Step \ (Elements(Ids(a)) \cup {s}) : g[x] = f[x]
    /\ \A x \in Elements(Ids(a)) :
          /\ x \in Step \ Alive
          /\ g[x].parent = s /\ g[x].start = 0 /\ g[x].front = 0
          /\ ~g[x].on_cancel /\ g[x].loop \in {"no", "go", "poll"}
          /\ g[x].limit = None /\ g[x].allocs = 0 /\ ~g[x].ran /\ ~g[x].asked
    /\ g[s].parent = f[s].parent /\ g[s].start = f[s].start
    /\ g[s].front = f[s].front /\ g[s].ran = f[s].ran
    /\ g[s].loop = f[s].loop /\ g[s].allocs = f[s].allocs
    /\ g[s].on_cancel = (f[s].on_cancel \/ w)
    /\ g[s].limit = IF t = None THEN f[s].limit ELSE t
    /\ g[s].asked = (end = "return" /\ a = <<>> /\ (w \/ t # None))

\* The records after a handler, as the walk sees them: only s and what it added changed.
LEMMA AfterFacts ==
    ASSUME queue \in Seq(Step), NEW s \in Alive, NEW f \in [Step -> Data],
           NEW n \in Nat, NEW a \in Additions(n, Step \ Alive), NEW w \in BOOLEAN,
           NEW t \in Timer \cup {None}, NEW end, NEW g, g = After(s, f, a, w, t, end)
    PROVE  Handled(s, f, a, w, t, end, g)
  <1> DEFINE c == Construct(f, s, a)
             asks == end = "return" /\ a = <<>> /\ (w \/ t # None)
  <1>1. s \in Step /\ Step \ Alive \subseteq Step
    BY DEF Alive, Elements
  <1>2. /\ c \in [Step -> Data]
        /\ \A x \in Step \ Elements(Ids(a)) : c[x] = f[x]
        /\ \A x \in Elements(Ids(a)) :
              /\ x \in Step /\ c[x].parent = s /\ c[x].start = 0 /\ c[x].front = 0
              /\ ~c[x].on_cancel /\ c[x].loop \in {"no", "go", "poll"}
              /\ c[x].limit = None /\ c[x].allocs = 0 /\ ~c[x].ran /\ ~c[x].asked
    BY <1>1, ConstructFacts
  <1>3. Elements(Ids(a)) \subseteq Step \ Alive
    BY <1>1, AdditionsFacts
  <1>4. c[s] = f[s] /\ c[s] \in Data
    BY <1>1, <1>2, <1>3
  <1>5. asks \in BOOLEAN
    OBVIOUS
  <1>6. g = [c EXCEPT ![s].on_cancel = @ \/ w,
                      ![s].limit = IF t = None THEN @ ELSE t,
                      ![s].asked = asks]
    BY DEF After
  <1>7. /\ c[s].on_cancel \in BOOLEAN /\ (c[s].on_cancel \/ w) \in BOOLEAN
        /\ (IF t = None THEN c[s].limit ELSE t) \in Timer \cup {None}
    BY <1>4 DEF Data
  <1> HIDE DEF asks, c
  <1>8. g[s] = [c[s] EXCEPT !.on_cancel = c[s].on_cancel \/ w,
                            !.limit = IF t = None THEN c[s].limit ELSE t,
                            !.asked = asks]
    BY <1>1, <1>2, <1>6
  <1>9. g[s] \in Data
    BY <1>4, <1>5, <1>7, <1>8 DEF Data
  <1>10. g \in [Step -> Data] /\ \A x \in Step \ {s} : g[x] = c[x]
    BY <1>1, <1>2, <1>6, <1>9
  <1>11. /\ g[s].parent = f[s].parent /\ g[s].start = f[s].start
         /\ g[s].front = f[s].front /\ g[s].ran = f[s].ran
         /\ g[s].loop = f[s].loop /\ g[s].allocs = f[s].allocs
         /\ g[s].on_cancel = (f[s].on_cancel \/ w)
         /\ g[s].limit = IF t = None THEN f[s].limit ELSE t
         /\ g[s].asked = asks
    BY <1>4, <1>8 DEF Data
  <1>12. \A x \in Elements(Ids(a)) :
             /\ x \in Step \ Alive /\ g[x] = c[x]
    BY <1>1, <1>3, <1>10
  <1>13. \A x \in Step \ (Elements(Ids(a)) \cup {s}) : g[x] = f[x]
    BY <1>2, <1>10
  <1>. QED
    BY <1>2, <1>10, <1>11, <1>12, <1>13 DEF asks, Handled

\* The queue after a handler.
LEMMA QueueGrows ==
    ASSUME queue \in Seq(Step), NEW n \in Nat, NEW a \in Additions(n, Step \ Alive)
    PROVE  /\ queue \o Ids(a) \in Seq(Step) /\ Len(queue \o Ids(a)) = Len(queue) + n
           /\ \A i \in 1 .. Len(queue) : (queue \o Ids(a))[i] = queue[i]
           /\ \A i \in 1 .. n : (queue \o Ids(a))[Len(queue) + i] = Ids(a)[i]
           /\ a = <<>> => queue \o Ids(a) = queue
  <1>1. Ids(a) \in Seq(Step) /\ Len(Ids(a)) = n /\ (a = <<>> <=> n = 0)
    BY AdditionsFacts, Step \ Alive \subseteq Step
  <1> DEFINE r == Ids(a)
  <1> HIDE DEF r
  <1>2. r \in Seq(Step) /\ Len(r) = n
    BY <1>1 DEF r
  <1>3. queue \o r \in Seq(Step) /\ Len(queue \o r) = Len(queue) + n
    BY <1>2, Joined
  <1>4. /\ \A i \in 1 .. Len(queue) : (queue \o r)[i] = queue[i]
        /\ \A i \in 1 .. n : (queue \o r)[Len(queue) + i] = r[i]
    BY <1>2, Joined
  <1>5. n = 0 => queue \o r = queue
    BY <1>2, Joined
  <1>. QED
    BY <1>1, <1>3, <1>4, <1>5 DEF r

\* The step s is the one that is executed, and f the records when its handler is
\* called.
Starts(s, f) ==
    /\ FrontOf(st, top) < Len(queue) /\ s = queue[FrontOf(st, top) + 1]
    /\ StartsAs(f, s)

\* The queue q and the records g after it: s is the innermost step, and without
\* sub-steps its parent may be so.
TreeAfter(s, a, q, g) ==
    /\ s \in Alive /\ st[s].parent = top
    /\ q \in Seq(Step) /\ g \in [Step -> Data] /\ Tree(q, g, s)
    /\ g[s].parent = st[s].parent /\ g[s].front = Len(queue)
    /\ a = <<>> => /\ q = queue /\ Tree(q, g, st[s].parent)
                   /\ FrontOf(g, st[s].parent) < Len(q)
                   /\ g[q[FrontOf(g, st[s].parent) + 1]].ran
    /\ a # <<>> => Len(queue) < Len(q) /\ ~g[q[Len(queue) + 1]].ran

\* After a handler the deque is a tree, with s innermost or, without sub-steps, its parent.
LEMMA HandlerTree ==
    ASSUME TreeInv, pc = "exec", NEW s \in Step, NEW f, Starts(s, f),
           NEW n \in Nat, NEW a \in Additions(n, Step \ Alive), NEW w \in BOOLEAN,
           NEW t \in Timer \cup {None}, NEW end, NEW g,
           Handled(s, f, a, w, t, end, g), NEW q, q = queue \o Ids(a)
    PROVE  TreeAfter(s, a, q, g)
  <1>1. /\ queue \in Seq(Step) /\ st \in [Step -> Data] /\ top \in Step \cup {None}
        /\ Tree(queue, st, top) /\ f \in [Step -> Data]
    BY DEF TreeInv, Types, Tip, Starts, StartsAs
  <1>2. Typed(queue, st, top) /\ Typed(queue, f, s)
    BY <1>1, MarksAreTyped
  <1>3. s \in Alive /\ st[s].parent = top
    <2>1. FrontOf(st, top) + 1 \in DOMAIN queue
          /\ st[queue[FrontOf(st, top) + 1]].parent = top
      BY <1>1, <1>2, NextIsChild DEF Starts
    <2>. QED
      BY <2>1 DEF Starts, Alive, Elements
  <1>4. Tree(queue, f, s)
    <2>1. /\ FrontOf(st, top) < Len(queue) /\ s = queue[FrontOf(st, top) + 1]
          /\ \A x \in Step : f[x].parent = st[x].parent
          /\ \A x \in Step \ {s} : f[x].start = st[x].start /\ f[x].front = st[x].front
                                   /\ f[x].ran = st[x].ran
          /\ f[s].start = Len(queue) /\ f[s].front = Len(queue) /\ f[s].ran
      BY DEF Starts, StartsAs
    <2>. QED
      BY <1>1, <1>2, <2>1, TreeStarted
  <1>5. /\ g \in [Step -> Data]
        /\ \A x \in Step \ (Elements(Ids(a)) \cup {s}) : g[x] = f[x]
        /\ \A x \in Elements(Ids(a)) : x \in Step \ Alive /\ g[x].parent = s /\ ~g[x].ran
        /\ g[s].parent = f[s].parent /\ g[s].start = f[s].start
        /\ g[s].front = f[s].front /\ g[s].ran = f[s].ran
    BY DEF Handled
  <1>6. /\ Ids(a) \in Seq(Step) /\ Len(Ids(a)) = n /\ Distinct(Ids(a))
        /\ Elements(Ids(a)) \subseteq Step \ Alive
        /\ a = <<>> <=> n = 0
    BY AdditionsFacts, Step \ Alive \subseteq Step
  <1>7. /\ q \in Seq(Step) /\ Len(q) = Len(queue) + n
        /\ \A i \in 1 .. n : q[Len(queue) + i] = Ids(a)[i]
    <2>1. /\ queue \o Ids(a) \in Seq(Step) /\ Len(queue \o Ids(a)) = Len(queue) + n
          /\ \A i \in 1 .. n : (queue \o Ids(a))[Len(queue) + i] = Ids(a)[i]
      BY <1>1, QueueGrows, Zenon
    <2>. QED
      BY <2>1
  <1>8. s # None
    BY StepsAssumption
  <1>9. StartOf(f, s) = Len(queue) /\ FrontOf(f, s) = Len(queue)
    BY <1>8 DEF StartOf, FrontOf, Starts, StartsAs
  <1>10. Tree(q, g, s)
    <2>1. Typed(queue \o Ids(a), g, s)
      <3>1. queue \o Ids(a) \in Seq(Step)
        BY <1>7
      <3>. QED
        BY <1>5, <3>1, MarksAreTyped
    <2>2. Elements(queue) \cap Elements(Ids(a)) = {}
      BY <1>6 DEF Alive
    <2>3. \A x \in Elements(queue) \cup ({s} \ {None}) :
             /\ g[x].parent = f[x].parent /\ g[x].start = f[x].start
             /\ g[x].front = f[x].front /\ g[x].ran = f[x].ran
      <3>1. Elements(queue) \subseteq Step
        BY <1>1 DEF Elements
      <3>. QED
        BY <1>5, <2>2, <3>1
    <2>4. \A x \in Elements(Ids(a)) : g[x].parent = s /\ ~g[x].ran
      BY <1>5
    <2>5. Tree(queue \o Ids(a), g, s)
      BY <1>2, <1>4, <1>6, <1>9, <2>1, <2>2, <2>3, <2>4, TreeExtended
    <2>. QED
      BY <2>5
  <1>11. g[s].parent = st[s].parent /\ g[s].front = Len(queue)
         /\ g[s].start = Len(queue)
    BY <1>5 DEF Starts, StartsAs
  <1>12. ASSUME a = <<>>
         PROVE  /\ q = queue /\ Tree(q, g, st[s].parent)
                /\ FrontOf(g, st[s].parent) < Len(q)
                /\ g[q[FrontOf(g, st[s].parent) + 1]].ran
    <2>1. q = queue
      <3>1. queue \o Ids(a) = queue
        BY <1>1, <1>12, QueueGrows, Zenon
      <3>. QED
        BY <3>1
    <2>2. g[s].start = Len(q) /\ Typed(q, g, s)
      BY <1>5, <1>7, <1>11, <2>1, MarksAreTyped
    <2>3. /\ Tree(q, g, g[s].parent) /\ FrontOf(g, g[s].parent) < Len(q)
          /\ g[q[FrontOf(g, g[s].parent) + 1]].ran
      BY <1>8, <1>10, <2>2, TreeUp
    <2>. QED
      BY <1>11, <2>1, <2>3
  <1>13. ASSUME a # <<>>
         PROVE  Len(queue) < Len(q) /\ ~g[q[Len(queue) + 1]].ran
    <2>1. n >= 1 /\ Len(queue) \in Nat
      BY <1>1, <1>6, <1>13
    <2>2. q[Len(queue) + 1] = Ids(a)[1] /\ Ids(a)[1] \in Elements(Ids(a))
      BY <1>6, <1>7, <2>1 DEF Elements
    <2>. QED
      BY <1>5, <1>7, <2>1, <2>2
  <1>. QED
    BY <1>3, <1>5, <1>7, <1>10, <1>11, <1>12, <1>13 DEF TreeAfter

Blocks(s, f, a, w, t, end) ==
    After(s, f, a, w, t, end)[s].on_cancel \/ t # None \/ Limited(s)

\* The ways a handler ends: success(); an error; all done, so that the flow goes
\* up; or sub-steps or a wait.
Outcome(s, f, a, w, t, end) ==
    /\ queue' = queue \o Ids(a) /\ st' = After(s, f, a, w, t, end)
    /\ \/ /\ end = "success" /\ a = <<>> /\ t = None
          /\ armed' = Disarm({s}) /\ cur' = st[s].parent /\ pc' = "climb"
          /\ UNCHANGED <<sched, error_code>>
       \/ /\ end # "return" /\ end # "success" /\ error_code' = end
          /\ cur' = s /\ pc' = "unwind" /\ UNCHANGED sched
          /\ armed' = IF t = None THEN armed ELSE [armed EXCEPT ![t] = s]
       \/ /\ end = "return" /\ error_code # "" /\ error_code' = error_code
          /\ cur' = s /\ pc' = "unwind" /\ UNCHANGED sched
          /\ armed' = IF t = None THEN armed ELSE [armed EXCEPT ![t] = s]
       \/ /\ end = "return" /\ error_code = "" /\ a = <<>>
          /\ ~Blocks(s, f, a, w, t, end) /\ sched' = TRUE
          /\ cur' = st[s].parent /\ pc' = "climb" /\ UNCHANGED error_code
          /\ armed' = IF t = None THEN armed ELSE [armed EXCEPT ![t] = s]
       \/ /\ end = "return" /\ error_code = ""
          /\ a # <<>> \/ Blocks(s, f, a, w, t, end)
          /\ sched' = (a # <<>>) /\ UNCHANGED <<cur, pc, error_code>>
          /\ armed' = IF t = None THEN armed ELSE [armed EXCEPT ![t] = s]

\* The ways a handler can end, one for each call or return of the user code.
LEMMA HandlerCases ==
    ASSUME NEW s, NEW f, NEW a, NEW w, NEW t, NEW end, Handler(s, f, a, w, t, end)
    PROVE  Outcome(s, f, a, w, t, end)
  BY Zenon DEF Handler, Succeed, Raise, After, Blocks, Outcome

\* The types of what a handler may change, and the tree after it.
HandlerKeeps ==
    /\ queue' \in Seq(Step) /\ st' \in [Step -> Data]
    /\ armed' \in [Timer -> Step \cup {None}]
    /\ cur' \in Step \cup {None} /\ sched' \in BOOLEAN
    /\ error_code' \in {"", "Timeout"} \cup Codes
    /\ pc' \in {"exec", "climb", "unwind"}
    /\ Tree(queue', st', Tip') /\ Walk'

\* A handler, whatever it does and however it ends, keeps the tree and the walk.
LEMMA HandlerSound ==
    ASSUME TreeInv, pc = "exec", NEW s \in Step, NEW f, Starts(s, f),
           NEW n \in Nat, NEW a \in Additions(n, Step \ Alive), NEW w \in BOOLEAN,
           NEW t \in Timer \cup {None}, NEW end \in {"return", "success"} \cup Codes,
           Handler(s, f, a, w, t, end), top' = s, UNCHANGED <<exec, in_exec>>
    PROVE  HandlerKeeps
  <1>1. /\ queue \in Seq(Step) /\ st \in [Step -> Data] /\ f \in [Step -> Data]
        /\ armed \in [Timer -> Step \cup {None}] /\ cur \in Step \cup {None}
        /\ sched \in BOOLEAN /\ error_code \in {"", "Timeout"} \cup Codes /\ in_exec
    BY DEF TreeInv, Types, Starts, StartsAs, Walk, Bursting
  <1>2. s \in Alive
    <2>1. /\ FrontOf(st, top) + 1 \in DOMAIN queue
      <3>1. Typed(queue, st, top) /\ Tree(queue, st, top)
        BY <1>1, MarksAreTyped DEF TreeInv, Types, Tip
      <3>. QED
        BY <3>1, NextIsChild DEF Starts
    <2>. QED
      BY <2>1 DEF Starts, Alive, Elements
  <1>3. Handled(s, f, a, w, t, end, st')
    <2>1. st' = After(s, f, a, w, t, end)
      BY HandlerCases, Zenon DEF Outcome
    <2>. QED
      BY <1>1, <1>2, <2>1, AfterFacts, Zenon
  <1>4. queue' = queue \o Ids(a)
    BY HandlerCases, Zenon DEF Outcome
  <1>5. /\ st[s].parent = top
        /\ queue' \in Seq(Step) /\ st' \in [Step -> Data] /\ Tree(queue', st', s)
        /\ st'[s].front = Len(queue)
        /\ a = <<>> => /\ Tree(queue', st', st[s].parent)
                       /\ FrontOf(st', st[s].parent) < Len(queue')
                       /\ st'[queue'[FrontOf(st', st[s].parent) + 1]].ran
        /\ a # <<>> => /\ Len(queue) < Len(queue')
                       /\ ~st'[queue'[Len(queue) + 1]].ran
    <2>1. TreeAfter(s, a, queue', st')
      BY <1>3, <1>4, HandlerTree, Zenon
    <2>. QED
      BY <2>1 DEF TreeAfter
  <1>6. /\ Disarm({s}) \in [Timer -> Step \cup {None}]
        /\ [armed EXCEPT ![t] = s] \in [Timer -> Step \cup {None}]
        /\ st[s].parent \in Step \cup {None}
    BY <1>1, DisarmFacts DEF Data
  <1>7. s # None
    BY StepsAssumption
  <1>8. CASE /\ a = <<>> /\ cur' = st[s].parent /\ pc' = "climb"
             /\ sched' \in BOOLEAN /\ error_code' = error_code
             /\ armed' \in [Timer -> Step \cup {None}]
    BY <1>1, <1>5, <1>6, <1>8
       DEF HandlerKeeps, Tip, Walk, Ready, Climbing, Unwinding, Bursting
  <1>9. CASE /\ cur' = s /\ pc' = "unwind" /\ sched' = sched
             /\ error_code' \in {"", "Timeout"} \cup Codes /\ error_code' # ""
             /\ armed' \in [Timer -> Step \cup {None}]
    BY <1>1, <1>5, <1>9
       DEF HandlerKeeps, Tip, Walk, Ready, Climbing, Unwinding, Bursting
  <1>10. CASE /\ sched' = (a # <<>>) /\ UNCHANGED <<cur, pc, error_code>>
              /\ armed' \in [Timer -> Step \cup {None}]
    <2>1. Ready'
      <3>1. FrontOf(st', s) = Len(queue)
        BY <1>5, <1>7 DEF FrontOf
      <3>2. a # <<>> =>
               /\ FrontOf(st', top') < Len(queue')
               /\ ~st'[queue'[FrontOf(st', top') + 1]].ran
        BY <1>5, <3>1
      <3>. QED
        BY <1>10, <3>2 DEF Ready
    <2>. QED
      BY <1>1, <1>5, <1>10, <2>1
      DEF HandlerKeeps, Tip, Walk, Climbing, Unwinding, Bursting
  <1>11. armed' \in [Timer -> Step \cup {None}]
    <2>1. armed' \in {Disarm({s}), armed, [armed EXCEPT ![t] = s]}
      <3>1. Outcome(s, f, a, w, t, end)
        BY HandlerCases, Zenon
      <3>. QED
        BY <3>1 DEF Outcome
    <2>. QED
      BY <1>1, <1>6, <2>1
  <1>. QED
    <2>1. Codes \subseteq {"Error", "break", "continue"}
      BY DEF Codes
    <2>2. end # "return" /\ end # "success" => end \in Codes /\ end # ""
      BY <2>1
    <2>3. \/ /\ a = <<>> /\ cur' = st[s].parent /\ pc' = "climb"
             /\ sched' = sched \/ sched' = TRUE
             /\ error_code' = error_code
          \/ /\ cur' = s /\ pc' = "unwind" /\ sched' = sched
             /\ error_code' \in {error_code} \cup Codes /\ error_code' # ""
          \/ sched' = (a # <<>>) /\ UNCHANGED <<cur, pc, error_code>>
      <3>1. Outcome(s, f, a, w, t, end)
        BY HandlerCases, Zenon
      <3>. QED
        BY <2>2, <3>1 DEF Outcome
    <2>. QED
      BY <1>1, <1>5, <1>8, <1>9, <1>10, <1>11, <2>3

\* How user code, a loop or await() is run as the step s: f are the records when
\* its handler is called, and what the mix lets it do.
Run(s, f, n, a, w, t, end) ==
    /\ StartsAs(f, s)
    /\ \A x \in Step : /\ f[x].on_cancel = st[x].on_cancel /\ f[x].limit = st[x].limit
                       /\ x # s => f[x].asked = st[x].asked /\ f[x].loop = st[x].loop
                       /\ f[x].loop = "no" <=> st[x].loop = "no"
    /\ n \in Nat /\ a \in Additions(n, Step \ Alive) /\ w \in BOOLEAN
    /\ t \in Timer \cup {None} /\ end \in {"return", "success"} \cup Codes
    /\ w => IsLoop(s) \/ st[s].loop = "no"
    /\ w => (IsLoop(s) => "loop_wait" \in allow)
    /\ t # None => /\ armed[t] = None
                   /\ a # <<>> => "outer_timeout" \in allow
                   /\ a = <<>> => "timeout" \in allow
    /\ Handler(s, f, a, w, t, end)

\* The step s is run in one of these ways.
Runs(s) == \E f, n, a, w, t, end : Run(s, f, n, a, w, t, end)

\* A round with its choices named is a round.
LEMMA RunIsRuns ==
    ASSUME NEW s, NEW f, NEW n, NEW a, NEW w, NEW t, NEW end,
           Run(s, f, n, a, w, t, end)
    PROVE  Runs(s)
  BY Zenon DEF Runs

\* A handler may add no sub-step.
LEMMA NoAdditions == ASSUME NEW memory PROVE <<>> \in Additions(0, memory)
  <1>1. 1 .. 0 = {} /\ DOMAIN <<>> = {}
    OBVIOUS
  <1>2. <<>> \in [1 .. 0 -> [step : memory, kind : Kinds]]
    BY <1>1
  <1>. QED
    BY <1>1, <1>2 DEF Additions

\* A plain step is started with its sub-steps at the end of the queue.
LEMMA StartedAs ==
    ASSUME st \in [Step -> Data], queue \in Seq(Step), NEW s \in Step
    PROVE  /\ StartsAs(Started(s), s)
           /\ \A x \in Step : /\ Started(s)[x].on_cancel = st[x].on_cancel
                              /\ Started(s)[x].limit = st[x].limit
                              /\ Started(s)[x].loop = st[x].loop
                              /\ x # s => Started(s)[x].asked = st[x].asked
  <1> DEFINE f == Started(s)
  <1>1. /\ f \in [Step -> Data] /\ \A x \in Step \ {s} : f[x] = st[x]
        /\ f[s].start = Len(queue) /\ f[s].front = Len(queue) /\ f[s].ran
        /\ f[s].parent = st[s].parent /\ f[s].loop = st[s].loop
        /\ f[s].limit = st[s].limit /\ f[s].on_cancel = st[s].on_cancel
    BY StartedFacts
  <1> HIDE DEF f
  <1>2. \A x \in Step : /\ f[x].parent = st[x].parent /\ f[x].on_cancel = st[x].on_cancel
                        /\ f[x].limit = st[x].limit /\ f[x].loop = st[x].loop
                        /\ x # s => f[x].asked = st[x].asked
    BY <1>1
  <1>3. StartsAs(f, s)
    BY <1>1, <1>2 DEF StartsAs
  <1>. QED
    BY <1>2, <1>3 DEF f

\* The same with the loop state l, which the call of the handler set.
LoopStarts(f, s, l) ==
    /\ StartsAs(f, s)
    /\ \A x \in Step : /\ f[x].on_cancel = st[x].on_cancel
                       /\ f[x].limit = st[x].limit
                       /\ x # s => f[x].asked = st[x].asked /\ f[x].loop = st[x].loop
    /\ f[s].loop = l

\* So is a loop, whose condition is evaluated first.
LEMMA LoopStartedAs ==
    ASSUME st \in [Step -> Data], queue \in Seq(Step), NEW s \in Step,
           NEW l \in {"stop", "poll", "done"}
    PROVE  LoopStarts([Started(s) EXCEPT ![s].loop = l], s, l)
  <1> DEFINE g == Started(s)
             f == [Started(s) EXCEPT ![s].loop = l]
  <1>1. /\ StartsAs(g, s)
        /\ \A x \in Step : /\ g[x].on_cancel = st[x].on_cancel
                           /\ g[x].limit = st[x].limit
                           /\ g[x].loop = st[x].loop
                           /\ x # s => g[x].asked = st[x].asked
    BY StartedAs
  <1>2. g \in [Step -> Data] /\ f = [g EXCEPT ![s].loop = l]
    BY <1>1 DEF StartsAs
  <1> HIDE DEF g, f
  <1>3. /\ f \in [Step -> Data] /\ \A x \in Step \ {s} : f[x] = g[x]
        /\ f[s].parent = g[s].parent /\ f[s].start = g[s].start
        /\ f[s].front = g[s].front /\ f[s].ran = g[s].ran
        /\ f[s].on_cancel = g[s].on_cancel /\ f[s].limit = g[s].limit
        /\ f[s].loop = l
    <2>1. /\ f[s] = [g[s] EXCEPT !.loop = l] /\ g[s] \in Data
          /\ \A x \in Step \ {s} : f[x] = g[x]
      BY <1>2
    <2>2. f[s] \in Data
      BY <2>1 DEF Data
    <2>3. f \in [Step -> Data]
      BY <1>2, <2>1, <2>2
    <2>. QED
      BY <2>1, <2>3 DEF Data
  <1>. QED
    <2>1. \A x \in Step : /\ f[x].parent = g[x].parent /\ f[x].on_cancel = g[x].on_cancel
                          /\ f[x].limit = g[x].limit
      BY <1>3
    <2>2. \A x \in Step \ {s} : /\ f[x].start = g[x].start /\ f[x].front = g[x].front
                                /\ f[x].ran = g[x].ran /\ f[x].asked = g[x].asked
                                /\ f[x].loop = g[x].loop
      BY <1>3
    <2>3. StartsAs(f, s)
      <3>1. /\ \A x \in Step : f[x].parent = st[x].parent
            /\ \A x \in Step \ {s} : f[x].start = st[x].start
                                     /\ f[x].front = st[x].front /\ f[x].ran = st[x].ran
        BY <1>1, <2>1, <2>2 DEF StartsAs
      <3>2. f[s].start = Len(queue) /\ f[s].front = Len(queue) /\ f[s].ran
        BY <1>1, <1>3 DEF StartsAs
      <3>. QED
        BY <1>3, <3>1, <3>2 DEF StartsAs
    <2>. QED
      BY <1>1, <1>3, <2>1, <2>2, <2>3 DEF LoopStarts, f

\* So is a step for which an object was allocated first.
LEMMA CountedStartedAs ==
    ASSUME st \in [Step -> Data], queue \in Seq(Step), NEW s \in Step,
           NEW o \in Step \cup {None}, NEW f, f = Counted(Started(s), o)
    PROVE  /\ StartsAs(f, s)
           /\ \A x \in Step : /\ f[x].on_cancel = st[x].on_cancel
                              /\ f[x].limit = st[x].limit
                              /\ f[x].loop = st[x].loop
                              /\ x # s => f[x].asked = st[x].asked
  <1> DEFINE g == Started(s)
  <1>1. /\ StartsAs(g, s)
        /\ \A x \in Step : /\ g[x].on_cancel = st[x].on_cancel
                           /\ g[x].limit = st[x].limit
                           /\ g[x].loop = st[x].loop
                           /\ x # s => g[x].asked = st[x].asked
    BY StartedAs
  <1> HIDE DEF g
  <1>2. CASE o = None
    BY <1>1, <1>2 DEF Counted, g
  <1>3. CASE o # None
    <2>1. /\ g \in [Step -> Data] /\ f = [g EXCEPT ![o].allocs = g[o].allocs + 1]
          /\ o \in Step
      BY <1>1, <1>3 DEF StartsAs, g, Counted
    <2>2. g[o].allocs + 1 \in Nat
      BY <2>1 DEF Data
    <2>3. /\ f \in [Step -> Data] /\ \A x \in Step \ {o} : f[x] = g[x]
          /\ f[o].parent = g[o].parent /\ f[o].start = g[o].start
          /\ f[o].front = g[o].front /\ f[o].ran = g[o].ran
          /\ f[o].on_cancel = g[o].on_cancel /\ f[o].limit = g[o].limit
          /\ f[o].loop = g[o].loop /\ f[o].asked = g[o].asked
      <3>1. /\ f[o] = [g[o] EXCEPT !.allocs = g[o].allocs + 1] /\ g[o] \in Data
            /\ \A x \in Step \ {o} : f[x] = g[x]
        BY <2>1
      <3>2. f[o] \in Data
        BY <2>2, <3>1 DEF Data
      <3>3. f \in [Step -> Data]
        BY <2>1, <3>1, <3>2
      <3>. QED
        BY <3>1, <3>3 DEF Data
    <2>. QED
      BY <1>1, <2>3 DEF StartsAs
  <1>. QED
    BY <1>2, <1>3

\* What the handler allocates fits MaxAllocs.
LEMMA ObjectsType ==
    ASSUME Types, NEW s \in Step
    PROVE  Objects(s) \in Seq(Step \cup {None}) /\ Len(Objects(s)) <= MaxAllocs
  <1>1. /\ st \in [Step -> Data] /\ allocs \in Seq(Step \cup {None})
        /\ Len(allocs) <= MaxAllocs /\ MaxAllocs \in Nat
    BY StepsAssumption DEF Types
  <1>2. Popped({s}) \in Seq(Step \cup {None}) /\ Len(Popped({s})) <= Len(allocs)
    BY <1>1, PoppedType
  <1>3. Len(Popped({s})) \in Nat /\ Len(allocs) \in Nat
    BY <1>1, <1>2
  <1>. QED
    BY <1>1, <1>2, <1>3 DEF Objects

\* The step that is executed is the one the innermost step points to.
LEMMA NextIsThere ==
    ASSUME TreeInv, pc = "exec", MoreToRun
    PROVE  /\ FrontOf(st, top) < Len(queue) /\ NextStep \in Step
           /\ NextStep = queue[FrontOf(st, top) + 1] /\ NextStep \in Alive
           /\ st[NextStep].parent = top
           /\ st[NextStep].ran => Repeats(NextStep)
  <1>1. /\ queue \in Seq(Step) /\ st \in [Step -> Data] /\ top \in Step \cup {None}
        /\ Tree(queue, st, top) /\ sched /\ queue # <<>>
    BY DEF TreeInv, Types, Tip, MoreToRun
  <1>2. FrontOf(st, top) < Len(queue)
        /\ LET s == queue[FrontOf(st, top) + 1] IN st[s].ran => Repeats(s)
    BY <1>1 DEF TreeInv, Walk, Ready
  <1>3. NextStep = queue[FrontOf(st, top) + 1]
    BY <1>1 DEF NextStep, FrontOf
  <1>4. Typed(queue, st, top)
    BY <1>1, MarksAreTyped
  <1>5. /\ FrontOf(st, top) + 1 \in DOMAIN queue /\ NextStep \in Step
        /\ st[NextStep].parent = top
    BY <1>1, <1>2, <1>3, <1>4, NextIsChild
  <1>. QED
    BY <1>2, <1>3, <1>5 DEF Alive, Elements

\* Every round of execute_handler() runs the handler of the next step.
LEMMA RunStepRuns ==
    ASSUME TreeInv, RunStep
    PROVE  /\ Runs(NextStep)
           /\ allocs' \in Seq(Step \cup {None}) /\ Len(allocs') <= MaxAllocs
  <1> DEFINE s == NextStep
             R == /\ Runs(s)
                  /\ allocs' \in Seq(Step \cup {None}) /\ Len(allocs') <= MaxAllocs
  <1>1. pc = "exec" /\ MoreToRun
    BY DEF RunStep
  <1>2. s \in Step
    BY <1>1, NextIsThere
  <1>3. /\ queue \in Seq(Step) /\ st \in [Step -> Data]
        /\ allocs \in Seq(Step \cup {None}) /\ Len(allocs) <= MaxAllocs
    BY DEF TreeInv, Types
  <1>4. Objects(s) \in Seq(Step \cup {None}) /\ Len(Objects(s)) <= MaxAllocs
    BY <1>2, ObjectsType DEF TreeInv
  <1>5. 0 \in Nat /\ <<>> \in Additions(0, Step \ Alive) /\ FALSE \in BOOLEAN
        /\ None \in Timer \cup {None} /\ "return" \in {"return", "success"} \cup Codes
        /\ "Error" \in {"return", "success"} \cup Codes
    BY NoAdditions DEF Codes
  <1> SUFFICES R
    OBVIOUS
  <1> HIDE DEF s
  <1>6. ASSUME NEW l \in {"stop", "poll", "done"}, NEW end \in {"return", "Error"},
               NEW f, f = [Started(s) EXCEPT ![s].loop = l], st[s].loop # "no",
               Handler(s, f, <<>>, FALSE, None, end)
        PROVE  Run(s, f, 0, <<>>, FALSE, None, end)
    <2>0. LoopStarts(f, s, l)
      <3>1. LoopStarts([Started(s) EXCEPT ![s].loop = l], s, l)
        BY <1>2, <1>3, LoopStartedAs
      <3>. QED
        BY <1>6, <3>1
    <2>1. /\ StartsAs(f, s)
          /\ \A x \in Step : /\ f[x].on_cancel = st[x].on_cancel
                             /\ f[x].limit = st[x].limit
                             /\ x # s => f[x].asked = st[x].asked
                                         /\ f[x].loop = st[x].loop
          /\ f[s].loop = l
      BY <2>0, Zenon DEF LoopStarts
    <2>2. \A x \in Step : f[x].loop = "no" <=> st[x].loop = "no"
      BY <1>6, <2>1
    <2>. QED
      BY <1>5, <1>6, <2>1, <2>2 DEF Run
  <1>7. CASE AwaitHandler(s) /\ st[s].loop # "no"
    <2>1. PICK l \in {"poll", "done"}, end \in {"return", "Error"} :
             Handler(s, [Started(s) EXCEPT ![s].loop = l], <<>>, FALSE, None, end)
      BY <1>7 DEF AwaitHandler
    <2>2. Run(s, [Started(s) EXCEPT ![s].loop = l], 0, <<>>, FALSE, None, end)
      BY <1>6, <1>7, <2>1
    <2>3. Runs(s)
      BY <2>2, RunIsRuns, Zenon
    <2>. QED
      BY <1>3, <1>7, <2>3 DEF AwaitHandler
  <1>8. CASE LoopEnds(s)
    <2>1. /\ Handler(s, [Started(s) EXCEPT ![s].loop = "stop"], <<>>, FALSE, None,
                     "return")
          /\ st[s].loop # "no" /\ allocs' = Objects(s)
      BY <1>8 DEF LoopEnds
    <2>2. Run(s, [Started(s) EXCEPT ![s].loop = "stop"], 0, <<>>, FALSE, None, "return")
      BY <1>6, <2>1
    <2>3. Runs(s)
      BY <2>2, RunIsRuns, Zenon
    <2>. QED
      BY <1>4, <2>1, <2>3
  <1>9. CASE UserHandler(s) /\ st[s].loop \notin {"poll", "done"}
    <2>0. PICK n \in 0 .. MaxSub, w \in BOOLEAN, t \in {None} \cup Timer,
               end \in {"return", "success"} \cup Codes :
             /\ w => /\ "wait" \in allow
                     /\ IsLoop(s) => "loop_wait" \in allow
             /\ t # None => /\ armed[t] = None
                            /\ n = 0 => "timeout" \in allow
                            /\ n > 0 => "outer_timeout" \in allow
             /\ \E a \in Additions(n, Step \ Alive) :
                   \/ /\ allocs' = Objects(s)
                      /\ Handler(s, Started(s), a, w, t, end)
                   \/ \E o \in Allocators(s) :
                         /\ allocs' = Append(Objects(s), o)
                         /\ Handler(s, Counted(Started(s), o), a, w, t, end)
      BY <1>9, Zenon DEF UserHandler
    <2>1. PICK a \in Additions(n, Step \ Alive) :
             \/ /\ allocs' = Objects(s)
                /\ Handler(s, Started(s), a, w, t, end)
             \/ \E o \in Allocators(s) :
                   /\ allocs' = Append(Objects(s), o)
                   /\ Handler(s, Counted(Started(s), o), a, w, t, end)
      BY <2>0
    <2>2. n \in Nat /\ (a = <<>> <=> n = 0)
      BY StepsAssumption, AdditionsFacts, Step \ Alive \subseteq Step
    <2>3. IsLoop(s) \/ st[s].loop = "no"
      BY <1>2, <1>3, <1>9 DEF IsLoop, Data
    <2>4. ASSUME NEW f, StartsAs(f, s),
                 \A x \in Step : /\ f[x].on_cancel = st[x].on_cancel
                                 /\ f[x].limit = st[x].limit
                                 /\ f[x].loop = st[x].loop
                                 /\ x # s => f[x].asked = st[x].asked,
                 Handler(s, f, a, w, t, end)
          PROVE  Run(s, f, n, a, w, t, end)
      BY <2>0, <2>2, <2>3, <2>4 DEF Run
    <2>5. CASE allocs' = Objects(s) /\ Handler(s, Started(s), a, w, t, end)
      <3>1. Run(s, Started(s), n, a, w, t, end)
        BY <1>2, <1>3, <2>4, <2>5, StartedAs
      <3>2. Runs(s)
        BY <3>1, RunIsRuns, Zenon
      <3>. QED
        BY <1>4, <2>5, <3>2
    <2>6. ASSUME NEW o \in Allocators(s), allocs' = Append(Objects(s), o),
                 Handler(s, Counted(Started(s), o), a, w, t, end)
          PROVE  R
      <3>1. o \in Step \cup {None} /\ Len(Objects(s)) < MaxAllocs
        <4>1. ~(Len(Objects(s)) >= MaxAllocs) /\ Len(Objects(s)) \in Nat
          BY <1>4, <2>6 DEF Allocators
        <4>2. o \in {s, None} \cup Alive
          BY <2>6 DEF Allocators
        <4>. QED
          BY <1>2, <1>3, <4>1, <4>2, StepsAssumption DEF Alive, Elements
      <3>2. Run(s, Counted(Started(s), o), n, a, w, t, end)
        BY <1>2, <1>3, <2>4, <2>6, <3>1, CountedStartedAs
      <3>3. allocs' \in Seq(Step \cup {None}) /\ Len(allocs') <= MaxAllocs
        <4>1. /\ Append(Objects(s), o) \in Seq(Step \cup {None})
              /\ Len(Append(Objects(s), o)) = Len(Objects(s)) + 1
          BY <1>4, <3>1
        <4>2. Len(Objects(s)) + 1 <= MaxAllocs
          BY <1>4, <3>1, StepsAssumption
        <4>. QED
          BY <2>6, <4>1, <4>2
      <3>4. Runs(s)
        BY <3>2, RunIsRuns, Zenon
      <3>. QED
        BY <3>3, <3>4
    <2>7. ASSUME NEW o \in Allocators(s),
                 allocs' = Append(Objects(s), o)
                 /\ Handler(s, Counted(Started(s), o), a, w, t, end)
          PROVE  R
      BY <2>6, <2>7, Zenon
    <2>. QED
      BY <2>1, <2>5, <2>7
  <1>10. \/ AwaitHandler(s) /\ st[s].loop # "no"
         \/ UserHandler(s) /\ st[s].loop \notin {"poll", "done"}
         \/ LoopEnds(s)
    BY DEF RunStep, s
  <1>. QED
    BY <1>7, <1>8, <1>9, <1>10

----------------------------------------------------------------------------
(* Each action keeps the invariant.                                         *)

LEMMA TreeIsTyped ==
    ASSUME TreeInv
    PROVE  /\ Typed(queue, st, Tip) /\ Tree(queue, st, Tip) /\ Tip \in Step \cup {None}
           /\ queue \in Seq(Step) /\ Len(queue) \in Nat /\ DOMAIN queue = 1 .. Len(queue)
           /\ st \in [Step -> Data] /\ Alive \subseteq Step
  <1>1. /\ queue \in Seq(Step) /\ st \in [Step -> Data] /\ Tip \in Step \cup {None}
        /\ Tree(queue, st, Tip)
    BY DEF TreeInv, Types, Tip
  <1>. QED
    BY <1>1, MarksAreTyped DEF Alive, Elements

\* schedule() keeps its types, a second handle included.
LEMMA ScheduleFacts ==
    ASSUME Types, Schedule
    PROVE  exec' \in BOOLEAN /\ fatal' \in {""} \cup InvalidCalls
  <1>1. exec \in BOOLEAN /\ in_exec \in BOOLEAN /\ fatal \in {""} \cup InvalidCalls
    BY DEF Types
  <1>2. CASE exec
    BY <1>1, <1>2 DEF Schedule, InvalidCalls
  <1>3. CASE ~exec
    BY <1>1, <1>3 DEF Schedule
  <1>. QED
    BY <1>2, <1>3

\* execute() keeps the tree.
LEMMA ExecuteKeeps == ASSUME TreeInv, Execute, Codes' = Codes PROVE TreeInv'
  <1>1. /\ pc = "idle" /\ top = None /\ queue = <<>> /\ st \in [Step -> Data]
        /\ ~in_exec /\ ~sched
    BY DEF Execute, TreeInv, Types, Walk, Bursting
  <1>2. PICK n \in 1 .. MaxSub : \E a \in Additions(n, Step) :
           queue' = Ids(a) /\ st' = Construct(st, None, a)
    BY DEF Execute
  <1>3. PICK a \in Additions(n, Step) : queue' = Ids(a) /\ st' = Construct(st, None, a)
    BY <1>2
  <1>4. n \in Nat \ {0}
    BY StepsAssumption
  <1>5. /\ queue' \in Seq(Step) /\ Len(queue') = n /\ Distinct(queue')
    BY <1>3, <1>4, AdditionsFacts
  <1>6. /\ st' \in [Step -> Data]
        /\ \A x \in Elements(queue') : st'[x].parent = None /\ ~st'[x].ran
    BY <1>1, <1>3, <1>4, ConstructFacts
  <1>7. Tree(queue', st', None)
    <2>1. /\ Typed(<<>>, st, None) /\ Tree(<<>>, st, None) /\ Elements(<<>>) = {}
          /\ <<>> \o queue' = queue' /\ StartOf(st, None) = Len(<<>>)
          /\ FrontOf(st, None) = Len(<<>>)
      <3>1. <<>> \in Seq(Step) /\ Len(<<>>) = 0 /\ DOMAIN <<>> = {}
        OBVIOUS
      <3>2. Typed(<<>>, st, None)
        BY <1>1, <3>1, MarksAreTyped
      <3>3. Elements(<<>>) = {}
        BY <3>1 DEF Elements
      <3>4. <<>> \o queue' = queue'
        BY <1>5
      <3>. QED
        BY <3>1, <3>2, <3>3, <3>4, TreeEmpty DEF StartOf, FrontOf
    <2>2. Typed(<<>> \o queue', st', None)
      BY <1>5, <1>6, <2>1, MarksAreTyped
    <2>3. Tree(<<>> \o queue', st', None)
      BY <1>5, <1>6, <2>1, <2>2, TreeExtended
    <2>. QED
      BY <2>1, <2>3
  <1>8. Types'
    BY <1>5, <1>6, ScheduleFacts DEF TreeInv, Types, Execute, loop
  <1>9. /\ pc' = "idle" /\ top' = None /\ UNCHANGED <<in_exec, sched>>
    BY <1>1 DEF Execute, loop
  <1>10. Walk'
    <2>1. FrontOf(st', top') = 0 /\ queue'[1] \in Elements(queue')
      BY <1>4, <1>5, <1>9 DEF FrontOf, Elements
    <2>. QED
      BY <1>1, <1>4, <1>5, <1>6, <1>9, <2>1
      DEF Walk, Ready, Climbing, Unwinding, Bursting
  <1>. QED
    BY <1>7, <1>8, <1>9, <1>10 DEF TreeInv, Tip

\* cancel() leaves an empty tree.
LEMMA CancelKeeps == ASSUME TreeInv, Cancel, Codes' = Codes PROVE TreeInv'
  <1>1. /\ st' \in [Step -> Data] /\ armed' \in [Timer -> Step \cup {None}]
        /\ allocs' \in Seq(Step \cup {None}) /\ Len(allocs') <= MaxAllocs
    <2>1. /\ st \in [Step -> Data] /\ armed \in [Timer -> Step \cup {None}]
          /\ allocs \in Seq(Step \cup {None}) /\ Len(allocs) <= MaxAllocs
          /\ Len(allocs) \in Nat /\ MaxAllocs \in Nat /\ Alive \subseteq Step
      <3>1. Alive \subseteq Step
        BY TreeIsTyped
      <3>2. /\ st \in [Step -> Data] /\ armed \in [Timer -> Step \cup {None}]
            /\ allocs \in Seq(Step \cup {None}) /\ Len(allocs) <= MaxAllocs
        BY DEF TreeInv, Types
      <3>. QED
        BY <3>1, <3>2, StepsAssumption
    <2>2. allocs' = Popped(Alive) /\ st' = Destroy(st, Alive) /\ armed' = Disarm(Alive)
      BY DEF Cancel
    <2>3. /\ Popped(Alive) \in Seq(Step \cup {None}) /\ Len(Popped(Alive)) \in Nat
          /\ Len(Popped(Alive)) <= Len(allocs)
      BY <2>1, PoppedType
    <2>. QED
      BY <2>1, <2>2, <2>3, DestroyFacts, DisarmFacts
  <1>2. /\ queue' = <<>> /\ top' = None /\ exec' = FALSE /\ pc' = "idle" /\ pc = "idle"
        /\ UNCHANGED <<error_code, in_exec, sched, burst, cur, request, fatal>>
    BY DEF Cancel, loop
  <1>3. Types'
    <2>1. <<>> \in Seq(Step)
      OBVIOUS
    <2>. QED
      BY <1>1, <1>2, <2>1 DEF TreeInv, Types
  <1>4. Tree(queue', st', Tip')
    BY <1>2, TreeEmpty DEF Tip
  <1>5. Walk'
    BY <1>2 DEF TreeInv, Walk, Ready, Climbing, Unwinding, Bursting
  <1>. QED
    BY <1>3, <1>4, <1>5 DEF TreeInv

\* The innermost step, without sub-steps, ends while the records become g.
LEMMA SucceedTree ==
    ASSUME TreeInv, pc = "idle", top # None, SubEmpty(top), NEW g \in [Step -> Data],
           \A x \in Step : g[x].parent = st[x].parent /\ g[x].start = st[x].start
                           /\ g[x].front = st[x].front /\ g[x].ran = st[x].ran
    PROVE  /\ Tree(queue, g, top) /\ Tree(queue, g, st[top].parent)
           /\ st[top].parent \in Step \cup {None}
           /\ FrontOf(g, st[top].parent) < Len(queue)
           /\ g[queue[FrontOf(g, st[top].parent) + 1]].ran
  <1>1. /\ Typed(queue, st, top) /\ Tree(queue, st, top) /\ top \in Step
        /\ queue \in Seq(Step)
    BY TreeIsTyped DEF Tip
  <1>2. Typed(queue, g, top)
    BY <1>1, MarksAreTyped
  <1>3. Tree(queue, g, top)
    BY <1>1, <1>2, TreeMoved
  <1>4. g[top].start = Len(queue)
    BY <1>1, <1>3 DEF Tree, TipFront, SubEmpty
  <1>5. g[top].parent = st[top].parent
    BY <1>1
  <1>. QED
    BY <1>2, <1>3, <1>4, <1>5, TreeUp

\* An answered wait leaves a record.
LEMMA NotAsked == ASSUME NEW r \in Data PROVE [r EXCEPT !.asked = FALSE] \in Data
  BY DEF Data

\* Answering a wait changes nothing else of the records.
LEMMA AskedFacts ==
    ASSUME TreeInv, NEW s \in Step, st' = [st EXCEPT ![s].asked = FALSE]
    PROVE  /\ st' \in [Step -> Data]
           /\ \A x \in Step :
                 /\ st'[x].parent = st[x].parent /\ st'[x].start = st[x].start
                 /\ st'[x].front = st[x].front /\ st'[x].ran = st[x].ran
                 /\ st'[x].loop = st[x].loop /\ st'[x].limit = st[x].limit
                 /\ st'[x].allocs = st[x].allocs /\ st'[x].on_cancel = st[x].on_cancel
                 /\ x # s => st'[x] = st[x]
           /\ ~st'[s].asked
  <1>1. st \in [Step -> Data]
    BY DEF TreeInv, Types
  <1>2. /\ st'[s] = [st[s] EXCEPT !.asked = FALSE] /\ st[s] \in Data
        /\ \A x \in Step \ {s} : st'[x] = st[x]
    BY <1>1
  <1>3. st'[s] \in Data
    BY <1>2, NotAsked
  <1>4. st' \in [Step -> Data]
    BY <1>1, <1>2, <1>3
  <1>. QED
    BY <1>2, <1>4 DEF Data

\* The wait of the innermost step ends, by success() or by an error.
LEMMA EndOfWait ==
    ASSUME TreeInv, pc = "idle", top # None, SubEmpty(top), Codes' = Codes,
           st' \in [Step -> Data],
           \A x \in Step : st'[x].parent = st[x].parent /\ st'[x].start = st[x].start
                           /\ st'[x].front = st[x].front /\ st'[x].ran = st[x].ran,
           \/ Succeed(top) /\ UNCHANGED error_code
           \/ Raise(top, "Error") /\ UNCHANGED armed,
           request' \in Step \cup {None},
           UNCHANGED <<queue, allocs, top, exec, loop, fatal>>
    PROVE  TreeInv'
  <1>1. /\ Tree(queue, st', top) /\ Tree(queue, st', st[top].parent)
        /\ st[top].parent \in Step \cup {None}
        /\ FrontOf(st', st[top].parent) < Len(queue)
        /\ st'[queue[FrontOf(st', st[top].parent) + 1]].ran
    BY SucceedTree
  <1>2. Types'
    <2>1. armed' \in [Timer -> Step \cup {None}]
      <3>1. st \in [Step -> Data] /\ armed \in [Timer -> Step \cup {None}]
        BY DEF TreeInv, Types
      <3>2. Disarm({top}) \in [Timer -> Step \cup {None}]
        BY <3>1, DisarmFacts
      <3>. QED
        BY <3>1, <3>2 DEF Succeed
    <2>2. /\ error_code' \in {"", "Timeout"} \cup Codes /\ cur' \in Step \cup {None}
          /\ pc' \in {"climb", "unwind"}
      BY <1>1 DEF TreeInv, Types, Succeed, Raise, Codes
    <2>. QED
      BY <2>1, <2>2 DEF TreeInv, Types, loop
  <1>3. CASE Succeed(top)
    BY <1>1, <1>2, <1>3
    DEF Succeed, TreeInv, Tip, Walk, Ready, Climbing, Unwinding, Bursting, loop
  <1>4. CASE Raise(top, "Error")
    BY <1>1, <1>2, <1>4
    DEF Raise, TreeInv, Tip, Walk, Ready, Climbing, Unwinding, Bursting, loop
  <1>. QED
    BY <1>3, <1>4

\* success() and error() from outside of a burst begin a walk from the innermost step.
LEMMA ExternalEventKeeps ==
    ASSUME TreeInv, ExternalEvent, Codes' = Codes PROVE TreeInv'
  <1>1. /\ pc = "idle" /\ top # None /\ SubEmpty(top) /\ top \in Step
        /\ st' = [st EXCEPT ![top].asked = FALSE]
    BY DEF ExternalEvent, Waiting, TreeInv, Types
  <1>2. request' \in Step \cup {None}
    BY DEF ExternalEvent, TreeInv, Types
  <1>3. /\ st' \in [Step -> Data]
        /\ \A x \in Step : st'[x].parent = st[x].parent /\ st'[x].start = st[x].start
                           /\ st'[x].front = st[x].front /\ st'[x].ran = st[x].ran
    BY <1>1, AskedFacts, ZenonT(40)
  <1>4. /\ \/ Succeed(top) /\ UNCHANGED error_code
           \/ Raise(top, "Error") /\ UNCHANGED armed
        /\ UNCHANGED <<queue, allocs, top, exec, loop, fatal>>
    BY DEF ExternalEvent
  <1>. QED
    BY <1>1, <1>2, <1>3, <1>4, EndOfWait

\* A call of another thread keeps the tree.
LEMMA ForeignCallKeeps ==
    ASSUME TreeInv, ForeignCall, Codes' = Codes PROVE TreeInv'
  <1>1. /\ top \in Step /\ st' = [st EXCEPT ![top].asked = FALSE] /\ request' = top
        /\ UNCHANGED <<queue, allocs, armed, top, error_code, exec, in_exec, sched,
                       burst, pc, cur, fatal>>
    BY DEF ForeignCall, Waiting, TreeInv, Types, loop
  <1>2. /\ st' \in [Step -> Data]
        /\ \A x \in Step : st'[x].parent = st[x].parent /\ st'[x].start = st[x].start
                           /\ st'[x].front = st[x].front /\ st'[x].ran = st[x].ran
                           /\ st'[x].loop = st[x].loop
    BY <1>1, AskedFacts, Zenon
  <1>3. Types'
    BY <1>1, <1>2 DEF TreeInv, Types
  <1>4. Typed(queue, st, Tip) /\ Tree(queue, st, Tip) /\ Tip' = Tip
        /\ Tip \in Step \cup {None} /\ queue' = queue /\ queue \in Seq(Step)
    BY <1>1, TreeIsTyped DEF Tip
  <1>5. Typed(queue, st', Tip)
    BY <1>2, <1>4, MarksAreTyped
  <1>6. Tree(queue, st', Tip)
    BY <1>2, <1>4, <1>5, TreeMoved
  <1>7. Walk'
    <2>1. \A x \in Step \cup {None} : FrontOf(st', x) = FrontOf(st, x)
      BY <1>2 DEF FrontOf
    <2>2. \A i \in 1 .. Len(queue) : /\ st'[queue[i]].ran = st[queue[i]].ran
                                     /\ Repeats(queue[i])' <=> Repeats(queue[i])
      BY <1>1, <1>2, TreeIsTyped DEF Repeats
    <2>3. FrontOf(st, top) \in Nat /\ FrontOf(st, cur) \in Nat
      BY TreeIsTyped DEF FrontOf, TreeInv, Types, Data
    <2>4. Len(queue) \in Nat /\ top \in Step \cup {None} /\ cur \in Step \cup {None}
      BY TreeIsTyped DEF TreeInv, Types
    <2>5. Ready'
      <3>1. ASSUME (pc = "exec" /\ sched) \/ (pc = "idle" /\ exec), queue # <<>>
            PROVE  /\ FrontOf(st, top) < Len(queue)
                   /\ LET s == queue[FrontOf(st, top) + 1] IN st[s].ran => Repeats(s)
        BY <3>1 DEF TreeInv, Walk, Ready
      <3>2. FrontOf(st', top') = FrontOf(st, top) /\ queue' = queue
        BY <1>1, <2>1, <2>4
      <3>3. ASSUME (pc = "exec" /\ sched) \/ (pc = "idle" /\ exec), queue # <<>>
            PROVE  /\ FrontOf(st', top') < Len(queue')
                   /\ st'[queue'[FrontOf(st', top') + 1]].ran
                        => Repeats(queue[FrontOf(st, top) + 1])'
        <4>1. FrontOf(st, top) + 1 \in 1 .. Len(queue)
          BY <2>3, <2>4, <3>1, <3>3
        <4>. QED
          BY <2>2, <3>1, <3>2, <3>3, <4>1
      <3>. QED
        BY <1>1, <3>3 DEF Ready
    <2>6. Climbing'
      <3>1. FrontOf(st', cur') = FrontOf(st, cur) /\ queue' = queue
        BY <1>1, <2>1, <2>4
      <3>2. ASSUME pc = "climb"
            PROVE  FrontOf(st, cur) + 1 \in 1 .. Len(queue)
                   /\ st[queue[FrontOf(st, cur) + 1]].ran
        BY <2>3, <2>4, <3>2 DEF TreeInv, Walk, Climbing
      <3>. QED
        BY <1>1, <2>2, <2>3, <2>4, <3>1, <3>2 DEF Climbing
    <2>. QED
      BY <1>1, <2>5, <2>6 DEF TreeInv, Walk, Unwinding, Bursting
  <1>. QED
    BY <1>3, <1>4, <1>6, <1>7 DEF TreeInv

\* The task of another thread begins the walk that the call asked for.
LEMMA ForeignTaskKeeps ==
    ASSUME TreeInv, ForeignTask, Codes' = Codes PROVE TreeInv'
  <1>1. /\ pc = "idle" /\ request # None /\ request' = None
        /\ UNCHANGED <<queue, st, allocs, top, exec, loop>>
    BY DEF ForeignTask
  <1>2. CASE request = top /\ SubEmpty(request)
    <2>1. /\ \/ Succeed(top) /\ UNCHANGED error_code
             \/ Raise(top, "Error") /\ UNCHANGED armed
          /\ UNCHANGED fatal
      BY <1>2 DEF ForeignTask
    <2>2. /\ top # None /\ SubEmpty(top) /\ st' = st /\ st' \in [Step -> Data]
          /\ request' \in Step \cup {None}
      BY <1>1, <1>2 DEF TreeInv, Types
    <2>. QED
      BY <1>1, <2>1, <2>2, EndOfWait
  <1>3. CASE ~(request = top /\ SubEmpty(request))
    <2>1. /\ fatal' = "success() or error() out of order"
          /\ UNCHANGED <<armed, error_code, cur, pc>>
      BY <1>3 DEF ForeignTask
    <2>2. Types'
      BY <1>1, <2>1 DEF TreeInv, Types, loop, InvalidCalls
    <2>3. Tip' = Tip /\ Walk'
      BY <1>1, <2>1
      DEF TreeInv, Tip, Walk, Ready, Climbing, Unwinding, Bursting, Repeats, loop
    <2>. QED
      BY <1>1, <2>2, <2>3 DEF TreeInv
  <1>. QED
    BY <1>2, <1>3

\* A timer begins to unwind from the innermost step.
LEMMA TimerFireKeeps ==
    ASSUME TreeInv, NEW t \in Timer, TimerFire(t), Codes' = Codes PROVE TreeInv'
  <1>1. /\ pc = "idle" /\ armed[t] # None /\ armed' = [armed EXCEPT ![t] = None]
        /\ UNCHANGED <<queue, st, allocs, top, exec, loop, request>>
    BY DEF TimerFire
  <1>2. armed' \in [Timer -> Step \cup {None}] /\ fatal' \in {""} \cup InvalidCalls
    BY DEF TimerFire, TreeInv, Types, InvalidCalls
  <1>3. CASE armed[t] = top
    <2>1. /\ error_code' = "Timeout" /\ cur' = top /\ pc' = "unwind"
      BY <1>3 DEF TimerFire, Raise
    <2>2. Types'
      BY <1>1, <1>2, <2>1 DEF TreeInv, Types, loop
    <2>3. Tip = top /\ Tip' = top /\ Walk'
      BY <1>1, <2>1
      DEF TreeInv, Tip, Walk, Ready, Climbing, Unwinding, Bursting, loop
    <2>. QED
      BY <1>1, <2>2, <2>3 DEF TreeInv
  <1>4. CASE armed[t] # top
    <2>1. UNCHANGED <<error_code, cur, pc>>
      BY <1>4 DEF TimerFire
    <2>2. Types'
      BY <1>1, <1>2, <2>1 DEF TreeInv, Types, loop
    <2>3. Tip' = Tip /\ Walk'
      BY <1>1, <2>1
      DEF TreeInv, Tip, Walk, Ready, Climbing, Unwinding, Bursting, Repeats, loop
    <2>. QED
      BY <1>1, <2>2, <2>3 DEF TreeInv
  <1>. QED
    BY <1>3, <1>4

\* A burst begins where the flow rested.
LEMMA BeginBurstKeeps ==
    ASSUME TreeInv, BeginBurst, Codes' = Codes PROVE TreeInv'
  <1>1. /\ pc = "idle" /\ exec /\ exec' = FALSE /\ in_exec' = TRUE /\ sched' = TRUE
        /\ burst' = BurstSize /\ pc' = "exec"
        /\ UNCHANGED <<queue, st, allocs, armed, top, error_code, cur, request, fatal>>
    BY DEF BeginBurst, flow
  <1>2. Types'
    <2>1. burst' \in 0 .. BurstSize
      BY <1>1, StepsAssumption
    <2>. QED
      BY <1>1, <2>1 DEF TreeInv, Types
  <1>3. Tip' = Tip /\ Walk'
    BY <1>1 DEF TreeInv, Tip, Walk, Ready, Climbing, Unwinding, Bursting, Repeats
  <1>. QED
    BY <1>1, <1>2, <1>3 DEF TreeInv

\* A burst ends between two steps.
LEMMA EndBurstKeeps ==
    ASSUME TreeInv, EndBurst, Codes' = Codes PROVE TreeInv'
  <1>1. /\ pc = "exec" /\ in_exec' = FALSE /\ pc' = "idle" /\ sched' = FALSE
        /\ burst' = 0 /\ (exec' => sched /\ queue # <<>>) /\ exec' \in BOOLEAN
        /\ UNCHANGED <<queue, st, allocs, armed, top, error_code, cur, request, fatal>>
    BY DEF EndBurst, flow, TreeInv, Types
  <1>2. Types'
    <2>1. burst' \in 0 .. BurstSize
      BY <1>1, StepsAssumption
    <2>. QED
      BY <1>1, <2>1 DEF TreeInv, Types
  <1>3. Tip' = Tip /\ Walk'
    BY <1>1 DEF TreeInv, Tip, Walk, Ready, Climbing, Unwinding, Bursting, Repeats
  <1>. QED
    BY <1>1, <1>2, <1>3 DEF TreeInv

\* A round of execute_handler() keeps the tree.
LEMMA RunStepKeeps ==
    ASSUME TreeInv, RunStep, Codes' = Codes PROVE TreeInv'
  <1> DEFINE s == NextStep
  <1>1. /\ pc = "exec" /\ MoreToRun /\ top' = s /\ burst' = burst - 1
        /\ UNCHANGED <<exec, in_exec, request, fatal>>
    BY DEF RunStep, BurstLeft
  <1>2. /\ FrontOf(st, top) < Len(queue) /\ s \in Step
        /\ s = queue[FrontOf(st, top) + 1] /\ s \in Alive
    BY <1>1, NextIsThere
  <1>3. Runs(s) /\ allocs' \in Seq(Step \cup {None}) /\ Len(allocs') <= MaxAllocs
    BY RunStepRuns
  <1> HIDE DEF s
  <1>4. PICK f, n, a, w, t, end : Run(s, f, n, a, w, t, end)
    BY <1>3 DEF Runs
  <1>5. /\ StartsAs(f, s) /\ n \in Nat /\ a \in Additions(n, Step \ Alive)
        /\ w \in BOOLEAN /\ t \in Timer \cup {None}
        /\ end \in {"return", "success"} \cup Codes /\ Handler(s, f, a, w, t, end)
    BY <1>4, Zenon DEF Run
  <1>6. Starts(s, f)
    BY <1>2, <1>5 DEF Starts
  <1>7. /\ queue' \in Seq(Step) /\ st' \in [Step -> Data]
        /\ armed' \in [Timer -> Step \cup {None}]
        /\ cur' \in Step \cup {None} /\ sched' \in BOOLEAN
        /\ error_code' \in {"", "Timeout"} \cup Codes
        /\ pc' \in {"exec", "climb", "unwind"}
        /\ Tree(queue', st', Tip') /\ Walk'
    <2>1. pc = "exec" /\ UNCHANGED <<exec, in_exec>>
      BY <1>1
    <2>2. HandlerKeeps
      BY <1>1, <1>2, <1>5, <1>6, <2>1, HandlerSound, Zenon
    <2>. QED
      BY <2>2 DEF HandlerKeeps
  <1>8. burst' \in 0 .. BurstSize
    <2>1. burst \in 0 .. BurstSize
      BY DEF TreeInv, Types
    <2>2. burst > 0 /\ burst' = burst - 1
      BY <1>1 DEF MoreToRun
    <2>3. BurstSize \in Nat
      BY StepsAssumption
    <2>. QED
      BY <2>1, <2>2, <2>3
  <1>9. Types'
    BY <1>1, <1>2, <1>3, <1>7, <1>8 DEF TreeInv, Types
  <1>. QED
    BY <1>7, <1>9 DEF TreeInv

\* While the loops walk up: what is left of the queue without the sub-steps of
\* the step, and those.
LEMMA LevelFacts ==
    ASSUME TreeInv, Tip = cur, cur # None
    PROVE  /\ KeepsPath(queue, st, cur, st[cur].start, Kept) /\ Kept \in Seq(Step)
           /\ Len(Kept) = st[cur].start /\ st[cur].start \in Nat /\ cur \in Elements(Kept)
           /\ Elements(Kept) \subseteq Step /\ Distinct(Kept)
           /\ Subs(cur) \subseteq Step /\ cur \in Step /\ cur \notin Subs(cur)
           /\ Elements(Kept) \cap Subs(cur) = {}
           /\ st[cur].parent \in Step \cup {None}
  <1>1. /\ Typed(queue, st, cur) /\ Tree(queue, st, cur) /\ cur \in Step
        /\ queue \in Seq(Step) /\ Len(queue) \in Nat /\ DOMAIN queue = 1 .. Len(queue)
        /\ st \in [Step -> Data] /\ st[cur].start \in Nat
        /\ st[cur].parent \in Step \cup {None}
    BY TreeIsTyped DEF Data
  <1>2. KeepsPath(queue, st, cur, st[cur].start, Kept)
    BY <1>1, KeptPath DEF Kept
  <1>3. /\ st[cur].start \in 0 .. Len(queue) /\ Len(Kept) = st[cur].start
        /\ Kept \in Seq(Step) /\ DOMAIN Kept = 1 .. st[cur].start
        /\ \A i \in 1 .. st[cur].start : Kept[i] = queue[i]
        /\ cur \in Elements(Kept) /\ Distinct(Kept)
    BY <1>1, <1>2 DEF KeepsPath, Path
  <1>4. Subs(cur) \subseteq Step /\ Elements(Kept) \subseteq Step
    BY <1>1, <1>3 DEF Subs, Elements
  <1>5. Elements(Kept) \cap Subs(cur) = {}
    <2> SUFFICES ASSUME NEW x \in Elements(Kept), x \in Subs(cur) PROVE FALSE
      OBVIOUS
    <2>1. PICK i \in 1 .. st[cur].start : x = queue[i]
      BY <1>3 DEF Elements
    <2>2. PICK j \in st[cur].start + 1 .. Len(queue) : x = queue[j]
      BY DEF Subs
    <2>3. i \in DOMAIN queue /\ j \in DOMAIN queue /\ i # j
      BY <1>1, <1>3
    <2>. QED
      BY <1>1, <2>1, <2>2, <2>3 DEF Tree, Distinct
  <1>. QED
    BY <1>1, <1>2, <1>3, <1>4, <1>5

\* The innermost step is left while the records become g: the types and the tree
\* of what remains, and where its parent points to.
LEMMA LevelLeft ==
    ASSUME TreeInv, Tip = cur, cur # None, NEW g \in [Step -> Data],
           \A x \in Elements(Kept) : g[x].parent = st[x].parent /\ g[x].ran = st[x].ran,
           \A x \in Elements(Kept) \ {cur} :
               g[x].start = st[x].start /\ g[x].front = st[x].front
    PROVE  /\ Tree(Kept, g, st[cur].parent)
           /\ FrontOf(g, st[cur].parent) < Len(Kept)
           /\ g[Kept[FrontOf(g, st[cur].parent) + 1]].ran
  <1>1. /\ Typed(queue, st, cur) /\ Tree(queue, st, cur)
        /\ KeepsPath(queue, st, cur, st[cur].start, Kept)
        /\ Kept \in Seq(Step) /\ st[cur].parent \in Step \cup {None}
    BY TreeIsTyped, LevelFacts
  <1>2. Typed(Kept, g, st[cur].parent)
    BY <1>1, MarksAreTyped
  <1>3. Tree(Kept, g, st[cur].parent)
    BY <1>1, <1>2, TreeLeft, Zenon
  <1>4. PointsTo(Kept, g, st[cur].parent, cur)
    BY <1>1, <1>2, TreeLeft, Zenon
  <1>5. FrontOf(g, st[cur].parent) \in Nat
    BY <1>1 DEF FrontOf, Data
  <1>. QED
    BY <1>1, <1>3, <1>4, <1>5 DEF PointsTo

\* What the engine frees for the steps D.
LEMMA FreedTypes ==
    ASSUME TreeInv, NEW D, D \subseteq Step, NEW E, armed' = Disarm(E),
           allocs' = Popped(D)
    PROVE  /\ armed' \in [Timer -> Step \cup {None}]
           /\ allocs' \in Seq(Step \cup {None}) /\ Len(allocs') <= MaxAllocs
  <1>1. /\ st \in [Step -> Data] /\ armed \in [Timer -> Step \cup {None}]
        /\ allocs \in Seq(Step \cup {None}) /\ Len(allocs) <= MaxAllocs
        /\ MaxAllocs \in Nat
    BY StepsAssumption DEF TreeInv, Types
  <1>2. /\ Popped(D) \in Seq(Step \cup {None}) /\ Len(Popped(D)) <= Len(allocs)
    BY <1>1, PoppedType
  <1>3. Len(allocs) \in Nat /\ Len(Popped(D)) \in Nat
    BY <1>1, <1>2
  <1>4. Disarm(E) \in [Timer -> Step \cup {None}]
    BY <1>1, DisarmFacts
  <1>. QED
    BY <1>1, <1>2, <1>3, <1>4

\* Moving the front leaves a record.
LEMMA FrontSet == ASSUME NEW r \in Data, NEW n \in Nat
                  PROVE  [r EXCEPT !.front = n] \in Data
  BY DEF Data

\* The records f with the front of p at n.
LEMMA FrontSetFacts ==
    ASSUME NEW f \in [Step -> Data], NEW p \in Step, NEW n \in Nat, NEW g,
           g = [f EXCEPT ![p].front = n]
    PROVE  /\ g \in [Step -> Data] /\ g[p].front = n
           /\ \A x \in Step : /\ g[x].parent = f[x].parent /\ g[x].start = f[x].start
                              /\ g[x].ran = f[x].ran /\ g[x].loop = f[x].loop
                              /\ g[x].limit = f[x].limit /\ g[x].allocs = f[x].allocs
                              /\ g[x].asked = f[x].asked
                              /\ g[x].on_cancel = f[x].on_cancel
           /\ \A x \in Step \ {p} : g[x] = f[x]
  <1>1. /\ g[p] = [f[p] EXCEPT !.front = n] /\ f[p] \in Data
        /\ \A x \in Step \ {p} : g[x] = f[x]
    OBVIOUS
  <1>2. g[p] \in Data
    BY <1>1, FrontSet
  <1>3. g \in [Step -> Data]
    BY <1>1, <1>2
  <1>. QED
    BY <1>1, <1>3 DEF Data

\* One level of handle_success_sync() destroys a finished level and moves one up.
LEMMA ClimbKeeps == ASSUME TreeInv, Climb, Codes' = Codes PROVE TreeInv'
  <1> DEFINE n == Shifted(cur)
             s == queue[st[cur].front + 1]
  <1>1. /\ pc = "climb" /\ cur # None /\ Tip = cur
        /\ UNCHANGED <<error_code, in_exec, sched, burst, request>>
    BY DEF Climb, Tip, loop
  <1>2. /\ Typed(queue, st, cur) /\ Tree(queue, st, cur) /\ cur \in Step
        /\ queue \in Seq(Step) /\ Len(queue) \in Nat /\ DOMAIN queue = 1 .. Len(queue)
        /\ st \in [Step -> Data] /\ st[cur].front \in Nat /\ FrontOf(st, cur) = st[cur].front
    BY <1>1, TreeIsTyped DEF Data, FrontOf
  <1>3. /\ st[cur].front < Len(queue) /\ s \in Step /\ st[s].ran
    BY <1>1, <1>2 DEF TreeInv, Walk, Climbing
  <1>4. /\ n \in Nat /\ n = IF Repeats(s) THEN st[cur].front ELSE st[cur].front + 1
    BY <1>2 DEF Shifted
  <1> HIDE DEF n
  <1>5. CASE n # Len(queue)
    <2>1. /\ st' = [st EXCEPT ![cur].front = n] /\ top' = cur /\ Schedule /\ Return
          /\ UNCHANGED <<queue, allocs, armed, cur>>
      BY <1>5 DEF Climb, n
    <2>2. /\ st' \in [Step -> Data] /\ st'[cur].front = n
          /\ \A x \in Step : /\ st'[x].parent = st[x].parent /\ st'[x].start = st[x].start
                             /\ st'[x].ran = st[x].ran /\ st'[x].loop = st[x].loop
          /\ \A x \in Step \ {cur} : st'[x] = st[x]
      <3> DEFINE g == [st EXCEPT ![cur].front = n]
      <3>0. g = [st EXCEPT ![cur].front = n]
        OBVIOUS
      <3> HIDE DEF g
      <3>1. /\ g \in [Step -> Data] /\ g[cur].front = n
            /\ \A x \in Step : /\ g[x].parent = st[x].parent /\ g[x].start = st[x].start
                               /\ g[x].ran = st[x].ran /\ g[x].loop = st[x].loop
                               /\ g[x].limit = st[x].limit /\ g[x].allocs = st[x].allocs
                               /\ g[x].asked = st[x].asked
                               /\ g[x].on_cancel = st[x].on_cancel
            /\ \A x \in Step \ {cur} : g[x] = st[x]
        BY <1>2, <1>4, <3>0, FrontSetFacts
      <3>. QED
        BY <2>1, <3>0, <3>1
    <2>3. Typed(queue, st', cur)
      BY <1>2, <2>2, MarksAreTyped
    <2>4. Tree(queue, st', cur)
      <3>1. \/ st'[cur].front = st[cur].front
            \/ /\ st'[cur].front = st[cur].front + 1 /\ st'[cur].front < Len(queue)
               /\ st[queue[st'[cur].front]].ran
        BY <1>2, <1>3, <1>4, <1>5, <2>2
      <3>. QED
        BY <1>2, <2>2, <2>3, <3>1, TreeMoved
    <2>5. pc' \in {"idle", "exec"} /\ (pc' = "exec" <=> in_exec)
      BY <2>1 DEF Return
    <2>6. Types'
      BY <1>1, <1>2, <2>1, <2>2, <2>5, ScheduleFacts DEF TreeInv, Types
    <2>7. Tip' = cur
      BY <2>1, <2>5 DEF Tip
    <2>8. /\ n < Len(queue) /\ FrontOf(st', cur) = n
          /\ LET r == queue[n + 1] IN st'[r].ran => Repeats(r)
      <3>1. n < Len(queue) /\ FrontOf(st', cur) = n /\ n + 1 \in DOMAIN queue
        BY <1>1, <1>2, <1>3, <1>4, <1>5, <2>2 DEF FrontOf
      <3>2. CASE Repeats(s)
        BY <1>4, <3>1, <3>2
      <3>3. CASE ~Repeats(s)
        <4>1. \A i \in DOMAIN queue : i > FrontOf(st, cur) + 1 => ~st[queue[i]].ran
          BY <1>2, RestIsNew
        <4>2. n + 1 > FrontOf(st, cur) + 1
          BY <1>2, <1>4, <3>3
        <4>3. ~st[queue[n + 1]].ran
          BY <3>1, <4>1, <4>2
        <4>. QED
          BY <1>2, <2>2, <3>1, <4>3
      <3>. QED
        BY <3>1, <3>2, <3>3
    <2>9. Ready'
      <3>1. \A r \in Step : Repeats(r) => st'[r].loop \in {"go", "poll"}
        BY <2>2 DEF Repeats
      <3>2. queue[n + 1] \in Step
        BY <1>2, <1>4, <2>8
      <3>3. top' = cur /\ queue' = queue
        BY <2>1
      <3>4. st'[queue[n + 1]].ran => st'[queue[n + 1]].loop \in {"go", "poll"}
        BY <2>8, <3>1, <3>2
      <3>5. FrontOf(st', cur) = n /\ n < Len(queue)
        BY <2>8
      <3>. QED
        BY <3>3, <3>4, <3>5 DEF Ready, Repeats
    <2>10. Walk'
      BY <1>1, <2>5, <2>9 DEF TreeInv, Walk, Climbing, Unwinding, Bursting
    <2>. QED
      BY <2>1, <2>4, <2>6, <2>7, <2>10 DEF TreeInv
  <1>6. CASE n = Len(queue)
    <2> DEFINE f == Destroy(st, Subs(cur))
    <2>1. /\ queue' = Kept /\ st' = [f EXCEPT ![cur].front = n]
          /\ armed' = Disarm(Subs(cur)) /\ allocs' = Popped(Subs(cur))
          /\ cur' = st[cur].parent /\ UNCHANGED <<top, exec, pc, fatal>>
      BY <1>6 DEF Climb, n, Kept
    <2>2. /\ Subs(cur) \subseteq Step /\ Elements(Kept) \subseteq Step
          /\ Elements(Kept) \cap Subs(cur) = {} /\ Kept \in Seq(Step)
          /\ st[cur].parent \in Step \cup {None} /\ cur \notin Subs(cur)
      BY <1>1, LevelFacts
    <2>3. f \in [Step -> Data] /\ \A x \in Elements(Kept) : f[x] = st[x]
      BY <1>2, <2>2, DestroyFacts
    <2> HIDE DEF f
    <2>4. /\ st' \in [Step -> Data]
          /\ \A x \in Step : /\ st'[x].parent = f[x].parent /\ st'[x].ran = f[x].ran
                             /\ st'[x].start = f[x].start
          /\ \A x \in Step \ {cur} : st'[x] = f[x]
      <3>1. st' = [f EXCEPT ![cur].front = n] /\ cur \in Step /\ n \in Nat
        BY <1>2, <1>4, <2>1
      <3>. QED
        BY <2>3, <3>1, FrontSetFacts
    <2>5. /\ Tree(Kept, st', st[cur].parent)
          /\ FrontOf(st', st[cur].parent) < Len(Kept)
          /\ st'[Kept[FrontOf(st', st[cur].parent) + 1]].ran
      <3>1. /\ \A x \in Elements(Kept) : st'[x].parent = st[x].parent
                                         /\ st'[x].ran = st[x].ran
            /\ \A x \in Elements(Kept) \ {cur} : st'[x].start = st[x].start
                                                 /\ st'[x].front = st[x].front
        BY <2>2, <2>3, <2>4
      <3>. QED
        BY <1>1, <2>4, <3>1, LevelLeft
    <2>6. Types'
      <3>1. /\ armed' \in [Timer -> Step \cup {None}]
            /\ allocs' \in Seq(Step \cup {None}) /\ Len(allocs') <= MaxAllocs
        BY <2>1, <2>2, FreedTypes
      <3>. QED
        BY <1>1, <2>1, <2>2, <2>4, <3>1 DEF TreeInv, Types
    <2>7. Tip' = st[cur].parent /\ pc' = "climb"
      BY <1>1, <2>1 DEF Tip
    <2>8. Walk'
      BY <1>1, <2>1, <2>5, <2>7
      DEF TreeInv, Walk, Ready, Climbing, Unwinding, Bursting
    <2>. QED
      BY <2>1, <2>5, <2>6, <2>7, <2>8 DEF TreeInv
  <1>. QED
    BY <1>5, <1>6

\* The root level moves on to its next step or ends the flow.
LEMMA ClimbRootKeeps == ASSUME TreeInv, ClimbRoot, Codes' = Codes PROVE TreeInv'
  <1>1. /\ pc = "climb" /\ cur = None /\ Tip = None /\ top' = None /\ Return
        /\ queue' # <<>> => Schedule
        /\ queue' = <<>> => UNCHANGED <<exec, fatal>>
        /\ UNCHANGED <<error_code, in_exec, sched, burst, cur, request>>
    BY DEF ClimbRoot, Tip, loop
  <1>2. /\ Typed(queue, st, None) /\ Tree(queue, st, None)
        /\ queue \in Seq(Step) /\ Len(queue) \in Nat /\ DOMAIN queue = 1 .. Len(queue)
        /\ st \in [Step -> Data] /\ FrontOf(st, None) = 0
    BY <1>1, TreeIsTyped DEF FrontOf
  <1>3. 0 < Len(queue) /\ queue # <<>> /\ Head(queue) = queue[1] /\ queue[1] \in Step
    BY <1>1, <1>2 DEF TreeInv, Walk, Climbing
  <1>4. pc' \in {"idle", "exec"} /\ (pc' = "exec" <=> in_exec)
    BY <1>1 DEF Return
  <1>5. exec' \in BOOLEAN /\ fatal' \in {""} \cup InvalidCalls
    BY <1>1, ScheduleFacts DEF TreeInv, Types
  <1>6. /\ queue' \in Seq(Step) /\ st' \in [Step -> Data] /\ Tree(queue', st', None)
        /\ armed' \in [Timer -> Step \cup {None}]
        /\ allocs' \in Seq(Step \cup {None}) /\ Len(allocs') <= MaxAllocs
        /\ queue' # <<>> => (st'[queue'[1]].ran => st'[queue'[1]].loop \in {"go", "poll"})
    <2>1. CASE Repeats(Head(queue))
      <3>1. UNCHANGED <<queue, st, allocs, armed>>
        BY <2>1 DEF ClimbRoot
      <3>2. st[queue[1]].loop \in {"go", "poll"}
        BY <1>3, <2>1 DEF Repeats
      <3>. QED
        BY <1>2, <3>1, <3>2 DEF TreeInv, Types
    <2>2. CASE ~Repeats(Head(queue))
      <3>1. /\ queue' = Tail(queue) /\ st' = Destroy(st, {queue[1]})
            /\ armed' = Disarm({queue[1]}) /\ allocs' = Popped({queue[1]})
        BY <1>3, <2>2 DEF ClimbRoot
      <3>2. /\ queue' \in Seq(Step) /\ Len(queue') = Len(queue) - 1
            /\ DOMAIN queue' = 1 .. Len(queue) - 1
            /\ \A i \in DOMAIN queue' : queue'[i] = queue[i + 1] /\ i + 1 \in DOMAIN queue
        BY <1>2, <1>3, <3>1
      <3>3. /\ st' \in [Step -> Data]
            /\ \A x \in Step \ {queue[1]} : st'[x] = st[x]
        BY <1>2, <3>1, DestroyFacts
      <3>4. \A x \in Elements(queue') : x \in Step /\ st'[x] = st[x]
        <4> SUFFICES ASSUME NEW i \in DOMAIN queue'
                     PROVE  queue'[i] \in Step /\ st'[queue'[i]] = st[queue'[i]]
          BY DEF Elements
        <4>1. queue'[i] = queue[i + 1] /\ i + 1 \in DOMAIN queue /\ i + 1 # 1
          BY <1>2, <3>2
        <4>2. 1 \in DOMAIN queue
          BY <1>2, <1>3
        <4>3. queue[i + 1] # queue[1]
          BY <1>2, <4>1, <4>2 DEF Tree, Distinct
        <4>. QED
          BY <1>2, <3>3, <4>1, <4>3
      <3>5. Tree(Tail(queue), st', None)
        <4>1. Tail(queue) = queue'
          BY <3>1
        <4>2. Typed(Tail(queue), st', None)
          BY <3>2, <3>3, <4>1, MarksAreTyped
        <4>3. \A x \in Elements(Tail(queue)) : st'[x].parent = st[x].parent
                                              /\ st'[x].ran = st[x].ran
          BY <3>4, <4>1
        <4>. QED
          BY <1>2, <1>3, <4>2, <4>3, TreeShifted
      <3>6. queue' # <<>> => ~st'[queue'[1]].ran
        <4> SUFFICES ASSUME queue' # <<>> PROVE ~st'[queue'[1]].ran
          OBVIOUS
        <4>1. 1 \in DOMAIN queue' /\ 2 \in DOMAIN queue /\ queue'[1] = queue[2]
              /\ 2 > FrontOf(st, None) + 1
          BY <1>2, <3>2
        <4>2. ~st[queue[2]].ran
          BY <1>2, <4>1, RestIsNew
        <4>. QED
          BY <3>4, <4>1, <4>2 DEF Elements
      <3>7. /\ armed' \in [Timer -> Step \cup {None}]
            /\ allocs' \in Seq(Step \cup {None}) /\ Len(allocs') <= MaxAllocs
        <4>1. /\ {queue[1]} \subseteq Step /\ armed' = Disarm({queue[1]})
              /\ allocs' = Popped({queue[1]})
          BY <1>3, <3>1
        <4>. QED
          BY <4>1, FreedTypes
      <3>8. Tree(queue', st', None)
        BY <3>1, <3>5
      <3>. QED
        BY <3>2, <3>3, <3>6, <3>7, <3>8
    <2>. QED
      BY <2>1, <2>2
  <1>7. Types'
    BY <1>1, <1>4, <1>5, <1>6 DEF TreeInv, Types
  <1>8. Ready'
    <2>1. FrontOf(st', top') = 0 /\ top' = None
      BY <1>1 DEF FrontOf
    <2>2. queue' # <<>> => 0 < Len(queue')
      BY <1>6
    <2>. QED
      BY <1>6, <2>1, <2>2 DEF Ready, Repeats
  <1>9. Walk'
    BY <1>1, <1>4, <1>8 DEF TreeInv, Walk, Climbing, Unwinding, Bursting
  <1>10. Tip' = None
    BY <1>1, <1>4 DEF Tip
  <1>. QED
    BY <1>6, <1>7, <1>9, <1>10 DEF TreeInv

\* Where the error finds a level: its sub-steps are destroyed, the step itself
\* keeps all but its front and its handlers.
LEMMA UnwoundFacts ==
    ASSUME TreeInv, Tip = cur, cur # None
    PROVE  /\ Unwound \in [Step -> Data]
           /\ \A x \in Elements(Kept) :
                 /\ Unwound[x].parent = st[x].parent /\ Unwound[x].ran = st[x].ran
                 /\ Unwound[x].start = st[x].start /\ Unwound[x].loop = st[x].loop
                 /\ Unwound[x].limit = st[x].limit /\ Unwound[x].allocs = st[x].allocs
                 /\ Unwound[x].asked = st[x].asked
           /\ \A x \in Elements(Kept) \ {cur} : Unwound[x] = st[x]
           /\ \A x \in Subs(cur) : Unwound[x] = Fresh
           /\ \A x \in Step \ (Subs(cur) \cup {cur}) : Unwound[x] = st[x]
           /\ Unwound[cur].front = st[cur].start /\ ~Unwound[cur].on_cancel
           /\ ~Unwound[cur].on_error
  <1> DEFINE f == Destroy(st, Subs(cur))
             u == [st[cur] EXCEPT !.front = st[cur].start, !.on_cancel = FALSE,
                                  !.on_error = FALSE]
  <1>1. /\ Elements(Kept) \subseteq Step /\ Elements(Kept) \cap Subs(cur) = {}
        /\ cur \in Elements(Kept) /\ Subs(cur) \subseteq Step
        /\ cur \in Step /\ cur \notin Subs(cur)
    BY LevelFacts
  <1>2. st \in [Step -> Data] /\ st[cur] \in Data
    BY <1>1, TreeIsTyped
  <1>3. /\ f \in [Step -> Data] /\ f[cur] = st[cur]
        /\ \A x \in Step : f[x] = IF x \in Subs(cur) THEN Fresh ELSE st[x]
    BY <1>1, <1>2, DestroyFacts
  <1>4. Unwound = [f EXCEPT ![cur] = u]
    BY <1>1, <1>2, <1>3 DEF Unwound
  <1>5. /\ u \in Data /\ u.parent = st[cur].parent /\ u.ran = st[cur].ran
        /\ u.start = st[cur].start /\ u.loop = st[cur].loop /\ u.limit = st[cur].limit
        /\ u.allocs = st[cur].allocs /\ u.asked = st[cur].asked
        /\ u.front = st[cur].start /\ u.on_cancel = FALSE /\ u.on_error = FALSE
    BY <1>2 DEF Data
  <1> HIDE DEF f, u
  <1>6. /\ Unwound \in [Step -> Data] /\ Unwound[cur] = u
        /\ \A x \in Step \ {cur} : Unwound[x] = f[x]
    BY <1>1, <1>3, <1>4, <1>5
  <1>. QED
    BY <1>1, <1>3, <1>5, <1>6

\* A step in another state of its loop is a record.
LEMMA LoopSet ==
    ASSUME NEW r \in Data, NEW l \in {"no", "go", "stop", "poll", "done"}
    PROVE  [r EXCEPT !.loop = l] \in Data
  BY DEF Data

\* g are the records f but for the loop state l of p.
OnlyLoop(f, p, l, g) ==
    /\ g \in [Step -> Data] /\ g[p].loop = l
    /\ \A x \in Step : /\ g[x].parent = f[x].parent /\ g[x].start = f[x].start
                       /\ g[x].ran = f[x].ran /\ g[x].front = f[x].front
                       /\ g[x].limit = f[x].limit /\ g[x].allocs = f[x].allocs
                       /\ g[x].asked = f[x].asked
                       /\ g[x].on_cancel = f[x].on_cancel
    /\ \A x \in Step \ {p} : g[x] = f[x]

\* A loop changes its own state only.
LEMMA LoopSetFacts ==
    ASSUME NEW f \in [Step -> Data], NEW p \in Step,
           NEW l \in {"no", "go", "stop", "poll", "done"}
    PROVE  OnlyLoop(f, p, l, [f EXCEPT ![p].loop = l])
  <1> DEFINE g == [f EXCEPT ![p].loop = l]
  <1>1. /\ g[p] = [f[p] EXCEPT !.loop = l] /\ f[p] \in Data
        /\ \A x \in Step \ {p} : g[x] = f[x]
    OBVIOUS
  <1>2. g[p] \in Data
    BY <1>1, LoopSet
  <1>3. g \in [Step -> Data]
    BY <1>1, <1>2
  <1> HIDE DEF g
  <1>4. OnlyLoop(f, p, l, g)
    BY <1>1, <1>3 DEF Data, OnlyLoop
  <1>. QED
    BY <1>4 DEF g

\* The records g the level leaves: those of Unwound but for a loop's own state.
LeavesAs(g) ==
    /\ g \in [Step -> Data]
    /\ \A x \in Elements(Kept) : g[x].parent = st[x].parent /\ g[x].ran = st[x].ran
                                 /\ g[x].start = st[x].start
    /\ \A x \in Elements(Kept) \ {cur} : g[x].front = st[x].front
    /\ g[cur].front = st[cur].start

\* Unwinding leaves a level by dropping all sub-steps of the failed step.
LEMMA UnwoundLeaves == ASSUME TreeInv, Tip = cur, cur # None PROVE LeavesAs(Unwound)
  BY UnwoundFacts, LevelFacts DEF LeavesAs

\* A loop that ends by break or continue leaves its level in the same way.
LEMMA LoopLeaves ==
    ASSUME TreeInv, Tip = cur, cur # None,
           NEW l \in {"no", "go", "stop", "poll", "done"}
    PROVE  LeavesAs([Unwound EXCEPT ![cur].loop = l])
  <1> DEFINE f == Unwound
             g == [f EXCEPT ![cur].loop = l]
  <1>1. LeavesAs(f)
    BY UnwoundLeaves
  <1>2. /\ f \in [Step -> Data] /\ cur \in Step /\ Elements(Kept) \subseteq Step
    BY UnwoundFacts, LevelFacts
  <1> HIDE DEF f
  <1>3. /\ g \in [Step -> Data]
        /\ \A x \in Step : /\ g[x].parent = f[x].parent
                           /\ g[x].start = f[x].start
                           /\ g[x].ran = f[x].ran /\ g[x].front = f[x].front
    <2>1. OnlyLoop(f, cur, l, g)
      BY <1>2, LoopSetFacts, Zenon
    <2> HIDE DEF g
    <2>. QED
      BY <2>1 DEF OnlyLoop
  <1> HIDE DEF g
  <1>4. LeavesAs(g)
    BY <1>1, <1>2, <1>3 DEF LeavesAs
  <1>. QED
    BY <1>4 DEF f, g

\* The level is left upwards.
LEMMA LeavesTree ==
    ASSUME TreeInv, Tip = cur, cur # None, NEW g, LeavesAs(g)
    PROVE  /\ Tree(Kept, g, st[cur].parent)
           /\ FrontOf(g, st[cur].parent) < Len(Kept)
           /\ g[Kept[FrontOf(g, st[cur].parent) + 1]].ran
  BY LevelLeft DEF LeavesAs

\* The step stays the innermost one, without sub-steps.
LEMMA CutTree ==
    ASSUME TreeInv, Tip = cur, cur # None, NEW g, LeavesAs(g)
    PROVE  /\ Tree(Kept, g, cur) /\ Len(Kept) = st[cur].start
           /\ g[cur].start = st[cur].start /\ Typed(Kept, g, cur)
  <1>1. /\ Typed(queue, st, cur) /\ Tree(queue, st, cur)
        /\ KeepsPath(queue, st, cur, st[cur].start, Kept)
        /\ Kept \in Seq(Step) /\ cur \in Step /\ cur \in Elements(Kept)
        /\ Len(Kept) = st[cur].start
    BY TreeIsTyped, LevelFacts
  <1>2. Typed(Kept, g, cur)
    BY <1>1, MarksAreTyped DEF LeavesAs
  <1>3. Tree(Kept, g, cur)
    <2>1. /\ \A x \in Elements(Kept) : g[x].parent = st[x].parent /\ g[x].ran = st[x].ran
                                       /\ g[x].start = st[x].start
          /\ \A x \in Elements(Kept) \ {cur} : g[x].front = st[x].front
          /\ g[cur].front = st[cur].start
      BY DEF LeavesAs
    <2>. QED
      BY <1>1, <1>2, <2>1, TreeCut
  <1>. QED
    BY <1>1, <1>2, <1>3 DEF LeavesAs

\* An on_error handler that calls success() keeps the tree.
LEMMA RecoverKeeps ==
    ASSUME TreeInv, Unwind, Recover(Unwound), Codes' = Codes PROVE TreeInv'
  <1>1. /\ pc = "unwind" /\ cur # None /\ Tip = cur
        /\ armed' = Disarm(Spent) /\ allocs' = Popped(Subs(cur))
        /\ UNCHANGED <<in_exec, sched, burst, request>>
    BY DEF Unwind, Tip, loop
  <1>2. /\ queue' = Kept /\ error_code' = "" /\ cur' = st[cur].parent /\ pc' = "climb"
        /\ UNCHANGED <<top, exec, fatal>>
    BY DEF Recover
  <1>3. LeavesAs(st')
    <2> DEFINE l == LoopAfter(Unwound[cur].loop, TRUE)
    <2>1. st' = [Unwound EXCEPT ![cur].loop = l]
      BY DEF Recover
    <2>2. l \in {"no", "go", "stop", "poll", "done"}
      <3>1. Unwound[cur].loop \in {"no", "go", "stop", "poll", "done"}
        BY <1>1, UnwoundFacts, LevelFacts DEF Data
      <3>. QED
        BY <3>1 DEF LoopAfter
    <2> HIDE DEF l
    <2>3. LeavesAs([Unwound EXCEPT ![cur].loop = l])
      BY <1>1, <2>2, LoopLeaves
    <2>. QED
      BY <2>1, <2>3
  <1>4. /\ Tree(Kept, st', st[cur].parent)
        /\ FrontOf(st', st[cur].parent) < Len(Kept)
        /\ st'[Kept[FrontOf(st', st[cur].parent) + 1]].ran
    BY <1>1, <1>3, LeavesTree
  <1>5. /\ Kept \in Seq(Step) /\ st[cur].parent \in Step \cup {None}
        /\ st' \in [Step -> Data] /\ Subs(cur) \subseteq Step
    BY <1>1, <1>3, LevelFacts DEF LeavesAs
  <1>6. /\ armed' \in [Timer -> Step \cup {None}]
        /\ allocs' \in Seq(Step \cup {None}) /\ Len(allocs') <= MaxAllocs
    BY <1>1, <1>5, FreedTypes
  <1>7. Types'
    BY <1>1, <1>2, <1>5, <1>6 DEF TreeInv, Types
  <1>8. Tip' = st[cur].parent
    BY <1>2 DEF Tip
  <1>9. Walk'
    BY <1>1, <1>2, <1>4 DEF TreeInv, Walk, Ready, Climbing, Unwinding, Bursting
  <1>. QED
    BY <1>2, <1>4, <1>7, <1>8, <1>9 DEF TreeInv

\* A level that is left to the next one, with the same error or another one.
LEMMA PassesOn ==
    ASSUME TreeInv, Unwind, LeavesAs(st'), Codes' = Codes, queue' = Kept,
           cur' = st[cur].parent, top' = st[cur].parent,
           error_code' \in {error_code} \cup (Codes \ {""}), UNCHANGED <<pc, exec, fatal>>
    PROVE  TreeInv'
  <1>1. /\ pc = "unwind" /\ cur # None /\ Tip = cur
        /\ armed' = Disarm(Spent) /\ allocs' = Popped(Subs(cur))
        /\ UNCHANGED <<in_exec, sched, burst, request>>
    BY DEF Unwind, Tip, loop
  <1>2. Tree(Kept, st', st[cur].parent)
    BY <1>1, LeavesTree
  <1>3. /\ Kept \in Seq(Step) /\ st[cur].parent \in Step \cup {None}
        /\ st' \in [Step -> Data] /\ Subs(cur) \subseteq Step
    BY <1>1, LevelFacts DEF LeavesAs
  <1>4. /\ armed' \in [Timer -> Step \cup {None}]
        /\ allocs' \in Seq(Step \cup {None}) /\ Len(allocs') <= MaxAllocs
    BY <1>1, <1>3, FreedTypes
  <1>5. Types'
    BY <1>1, <1>3, <1>4 DEF TreeInv, Types
  <1>6. Tip' = st[cur].parent
    BY <1>1 DEF Tip
  <1>7. error_code # ""
    BY <1>1 DEF TreeInv, Walk, Unwinding
  <1>8. Walk'
    BY <1>1, <1>7 DEF TreeInv, Walk, Ready, Climbing, Unwinding, Bursting
  <1>. QED
    BY <1>2, <1>5, <1>6, <1>8 DEF TreeInv

\* An on_error handler that returns lets the error go one level up.
LEMMA PropagateKeeps ==
    ASSUME TreeInv, Unwind, Propagate(Unwound), Codes' = Codes PROVE TreeInv'
  <1>1. pc = "unwind" /\ cur # None /\ Tip = cur
    BY DEF Unwind, Tip
  <1>2. LeavesAs(st')
    <2> DEFINE l == IF st[cur].on_error THEN LoopAfter(Unwound[cur].loop, FALSE)
                    ELSE Unwound[cur].loop
    <2>1. st' = [Unwound EXCEPT ![cur].loop = l]
      BY DEF Propagate
    <2>2. l \in {"no", "go", "stop", "poll", "done"}
      <3>1. Unwound[cur].loop \in {"no", "go", "stop", "poll", "done"}
        BY <1>1, UnwoundFacts, LevelFacts DEF Data
      <3>. QED
        BY <3>1 DEF LoopAfter
    <2> HIDE DEF l
    <2>3. LeavesAs([Unwound EXCEPT ![cur].loop = l])
      BY <1>1, <2>2, LoopLeaves
    <2>. QED
      BY <2>1, <2>3
  <1>3. /\ queue' = Kept /\ cur' = st[cur].parent /\ top' = st[cur].parent
        /\ error_code' \in {error_code} \cup (Codes \ {""})
        /\ UNCHANGED <<pc, exec, fatal>>
    BY DEF Propagate
  <1>. QED
    BY <1>2, <1>3, PassesOn

\* An on_error handler that calls error() goes up with another code.
LEMMA OverrideKeeps ==
    ASSUME TreeInv, Unwind, Override(Unwound), Codes' = Codes PROVE TreeInv'
  <1>1. /\ pc = "unwind" /\ cur # None /\ Tip = cur
        /\ armed' = Disarm(Spent) /\ allocs' = Popped(Subs(cur))
        /\ UNCHANGED <<in_exec, sched, burst, request>>
    BY DEF Unwind, Tip, loop
  <1>2. queue' = Kept /\ st' = Unwound /\ UNCHANGED <<pc, exec>>
    BY DEF Override
  <1>3. LeavesAs(st')
    BY <1>1, <1>2, UnwoundLeaves
  <1>4. CASE in_exec
    <2>1. /\ cur' = st[cur].parent /\ top' = st[cur].parent
          /\ error_code' \in {error_code} \cup (Codes \ {""})
          /\ UNCHANGED <<pc, exec, fatal>>
      BY <1>2, <1>4 DEF Override, Codes
    <2>. QED
      BY <1>2, <1>3, <2>1, PassesOn
  <1>5. CASE ~in_exec
    <2>1. fatal' = "use after destruction" /\ UNCHANGED <<error_code, cur, top>>
      BY <1>5 DEF Override
    <2>2. Tree(Kept, st', cur)
      BY <1>1, <1>3, CutTree
    <2>3. /\ Kept \in Seq(Step) /\ st' \in [Step -> Data] /\ Subs(cur) \subseteq Step
      BY <1>1, <1>3, LevelFacts DEF LeavesAs
    <2>4. /\ armed' \in [Timer -> Step \cup {None}]
          /\ allocs' \in Seq(Step \cup {None}) /\ Len(allocs') <= MaxAllocs
      BY <1>1, <2>3, FreedTypes
    <2>5. queue' \in Seq(Step) /\ st' \in [Step -> Data]
      BY <1>2, <2>3
    <2>6. fatal' \in {""} \cup InvalidCalls
      BY <2>1 DEF InvalidCalls
    <2>7. UNCHANGED <<pc, exec, error_code, cur, top, in_exec, sched, burst, request>>
      BY <1>1, <1>2, <2>1
    <2>8. Types'
      BY <2>4, <2>5, <2>6, <2>7 DEF TreeInv, Types
    <2>9. Tip' = cur /\ queue' = Kept
      BY <1>1, <1>2, <2>7 DEF Tip
    <2>10. Walk'
      <3>1. pc' = "unwind" /\ (sched => in_exec)
        BY <1>1, <2>7 DEF TreeInv, Types, Walk, Bursting
      <3>2. Unwinding'
        BY <1>1, <2>7 DEF TreeInv, Walk, Unwinding
      <3>3. Bursting'
        BY <2>7, <3>1 DEF Bursting
      <3>. QED
        BY <3>1, <3>2, <3>3 DEF Walk, Ready, Climbing
    <2>. QED
      BY <2>2, <2>8, <2>9, <2>10 DEF TreeInv
  <1>. QED
    BY <1>4, <1>5

\* An on_error handler that adds sub-steps has them run in place of the failed ones.
LEMMA SubstituteKeeps ==
    ASSUME TreeInv, Unwind, Substitute(Unwound), Codes' = Codes PROVE TreeInv'
  <1>1. /\ pc = "unwind" /\ cur # None /\ Tip = cur
        /\ armed' = Disarm(Spent) /\ allocs' = Popped(Subs(cur))
        /\ UNCHANGED <<in_exec, sched, burst, request>>
    BY DEF Unwind, Tip, loop
  <1>2. PICK n \in 1 .. MaxSub : \E a \in Additions(n, Step \ Elements(Kept)) :
           queue' = Kept \o Ids(a) /\ st' = Construct(Unwound, cur, a)
    BY DEF Substitute
  <1>3. PICK a \in Additions(n, Step \ Elements(Kept)) :
           queue' = Kept \o Ids(a) /\ st' = Construct(Unwound, cur, a)
    BY <1>2
  <1>4. error_code' = "" /\ Schedule /\ Return /\ UNCHANGED <<top, cur>>
    BY DEF Substitute
  <1>5. /\ n \in Nat \ {0} /\ Kept \in Seq(Step) /\ cur \in Step
        /\ Elements(Kept) \subseteq Step /\ Subs(cur) \subseteq Step
        /\ Len(Kept) = st[cur].start /\ st[cur].start \in Nat /\ cur \in Elements(Kept)
        /\ top = cur
    <2>1. n \in Nat \ {0}
      BY StepsAssumption
    <2>2. top = cur
      BY <1>1 DEF TreeInv, Walk, Unwinding
    <2>. QED
      BY <1>1, <2>1, <2>2, LevelFacts
  <1> DEFINE r == Ids(a)
             f == Unwound
  <1>6. /\ r \in Seq(Step) /\ Len(r) = n /\ Distinct(r)
        /\ Elements(r) \subseteq Step \ Elements(Kept)
    BY <1>5, AdditionsFacts, Step \ Elements(Kept) \subseteq Step
  <1>7. LeavesAs(f)
    BY <1>1, UnwoundLeaves
  <1>8. /\ Tree(Kept, f, cur) /\ Typed(Kept, f, cur) /\ f[cur].start = Len(Kept)
        /\ f[cur].front = Len(Kept) /\ f \in [Step -> Data]
    BY <1>1, <1>5, <1>7, CutTree DEF LeavesAs
  <1> HIDE DEF f
  <1>9. /\ st' \in [Step -> Data]
        /\ \A x \in Step \ Elements(r) : st'[x] = f[x]
        /\ \A x \in Elements(r) : st'[x].parent = cur /\ ~st'[x].ran
    <2>1. st' = Construct(f, cur, a) /\ n \in Nat
          /\ Step \ Elements(Kept) \subseteq Step /\ cur \in Step \cup {None}
      BY <1>3, <1>5 DEF f
    <2> DEFINE c == Construct(f, cur, a)
    <2>2. /\ c \in [Step -> Data]
          /\ \A x \in Step \ Elements(Ids(a)) : c[x] = f[x]
          /\ \A x \in Elements(Ids(a)) : c[x].parent = cur /\ ~c[x].ran
      BY <1>8, <2>1, ConstructFacts
    <2> HIDE DEF c
    <2>3. st' = c
      BY <2>1 DEF c
    <2>. QED
      BY <2>2, <2>3
  <1> HIDE DEF r
  <1>10. /\ queue' = Kept \o r /\ queue' \in Seq(Step)
         /\ Len(queue') = Len(Kept) + n /\ queue'[Len(Kept) + 1] \in Elements(r)
    <2>1. queue' = Kept \o r
      BY <1>3 DEF r
    <2>2. /\ Kept \o r \in Seq(Step) /\ Len(Kept \o r) = Len(Kept) + n
          /\ (Kept \o r)[Len(Kept) + 1] = r[1] /\ 1 \in DOMAIN r
      <3>1. \A i \in 1 .. Len(r) : (Kept \o r)[Len(Kept) + i] = r[i]
        <4>1. Kept \in Seq(Step) /\ r \in Seq(Step)
          BY <1>5, <1>6
        <4>. QED
          BY <4>1, Joined
      <3>2. Kept \o r \in Seq(Step) /\ Len(Kept \o r) = Len(Kept) + Len(r)
        BY <1>5, <1>6
      <3>3. 1 \in 1 .. Len(r) /\ 1 \in DOMAIN r
        BY <1>5, <1>6
      <3>. QED
        BY <1>6, <3>1, <3>2, <3>3
    <2>. QED
      BY <2>1, <2>2 DEF Elements
  <1>11. Tree(queue', st', cur)
    <2>1. /\ \A x \in Elements(Kept) \cup ({cur} \ {None}) :
                /\ st'[x].parent = f[x].parent /\ st'[x].start = f[x].start
                /\ st'[x].front = f[x].front /\ st'[x].ran = f[x].ran
          /\ Elements(Kept) \cap Elements(r) = {}
      BY <1>5, <1>6, <1>9
    <2>2. Typed(Kept \o r, st', cur)
      BY <1>5, <1>9, <1>10, MarksAreTyped
    <2>3. StartOf(f, cur) = Len(Kept) /\ FrontOf(f, cur) = Len(Kept)
      BY <1>1, <1>8 DEF StartOf, FrontOf
    <2>4. Tree(Kept \o r, st', cur)
      BY <1>6, <1>8, <1>9, <2>1, <2>2, <2>3, TreeExtended
    <2>. QED
      BY <1>10, <2>4
  <1>12. pc' \in {"idle", "exec"} /\ (pc' = "exec" <=> in_exec)
    BY <1>4 DEF Return
  <1>13. /\ armed' \in [Timer -> Step \cup {None}]
         /\ allocs' \in Seq(Step \cup {None}) /\ Len(allocs') <= MaxAllocs
    BY <1>1, <1>5, FreedTypes
  <1>14. exec' \in BOOLEAN /\ fatal' \in {""} \cup InvalidCalls
    BY <1>4, ScheduleFacts DEF TreeInv
  <1>15. queue' \in Seq(Step) /\ st' \in [Step -> Data]
    BY <1>9, <1>10
  <1>16. Types'
    BY <1>1, <1>4, <1>12, <1>13, <1>14, <1>15 DEF TreeInv, Types
  <1>17. Tip' = cur /\ top' = cur
    BY <1>4, <1>5, <1>12 DEF Tip
  <1>18. Ready'
    <2>1. FrontOf(st', cur) = Len(Kept)
      <3>1. cur \in Step \ Elements(r)
        BY <1>5, <1>6
      <3>2. st'[cur].front = Len(Kept)
        BY <1>8, <1>9, <3>1
      <3>. QED
        BY <1>1, <3>2 DEF FrontOf
    <2>2. Len(Kept) < Len(queue') /\ ~st'[queue'[Len(Kept) + 1]].ran
      <3>1. Len(queue') = Len(Kept) + n /\ queue'[Len(Kept) + 1] \in Elements(r)
        BY <1>10
      <3>. QED
        BY <1>5, <1>9, <3>1
    <2>. QED
      BY <1>17, <2>1, <2>2 DEF Ready
  <1>19. Walk'
    <2>1. /\ (pc' = "exec" => in_exec') /\ (pc' = "idle" => ~in_exec')
          /\ (~in_exec' => ~sched')
      BY <1>1, <1>12 DEF TreeInv, Walk, Bursting
    <2>. QED
      BY <1>12, <1>18, <2>1 DEF Walk, Climbing, Unwinding, Bursting
  <1>. QED
    BY <1>11, <1>16, <1>17, <1>19 DEF TreeInv

\* One level of handle_error_sync() keeps the tree.
LEMMA UnwindKeeps == ASSUME TreeInv, Unwind, Codes' = Codes PROVE TreeInv'
  BY RecoverKeeps, SubstituteKeeps, PropagateKeeps, OverrideKeeps, Zenon DEF Unwind

\* An error that nobody handled leaves an empty tree.
LEMMA UnwindRootKeeps ==
    ASSUME TreeInv, UnwindRoot, Codes' = Codes PROVE TreeInv'
  <1>1. /\ pc = "unwind" /\ cur = None /\ queue' = <<>> /\ st' = Destroy(st, Alive)
        /\ armed' = Disarm(Alive) /\ allocs' = Popped(Alive) /\ Return
        /\ UNCHANGED <<top, error_code, exec, in_exec, sched, burst, cur, request, fatal>>
    BY DEF UnwindRoot, loop
  <1>2. Alive \subseteq Step /\ st \in [Step -> Data] /\ top = None
    BY <1>1, TreeIsTyped DEF TreeInv, Walk, Unwinding
  <1>3. /\ armed' \in [Timer -> Step \cup {None}]
        /\ allocs' \in Seq(Step \cup {None}) /\ Len(allocs') <= MaxAllocs
    BY <1>1, <1>2, FreedTypes
  <1>4. st' \in [Step -> Data] /\ queue' \in Seq(Step)
    <2>1. <<>> \in Seq(Step)
      OBVIOUS
    <2>. QED
      BY <1>1, <1>2, <2>1, DestroyFacts
  <1>5. pc' \in {"idle", "exec"} /\ (pc' = "exec" <=> in_exec)
    BY <1>1 DEF Return
  <1>6. UNCHANGED <<top, error_code, exec, in_exec, sched, burst, cur, request, fatal>>
    BY <1>1
  <1>7. Types'
    BY <1>3, <1>4, <1>5, <1>6 DEF TreeInv, Types
  <1>8. Tree(queue', st', Tip')
    <2>1. Tip' = None /\ queue' = <<>>
      BY <1>1, <1>2, <1>5 DEF Tip
    <2>. QED
      BY <2>1, TreeEmpty
  <1>9. Walk'
    <2>1. queue' = <<>> /\ in_exec' = in_exec /\ sched' = sched
      BY <1>1
    <2>2. ~in_exec => ~sched
      BY DEF TreeInv, Walk, Bursting
    <2>. QED
      BY <1>5, <2>1, <2>2 DEF Walk, Ready, Climbing, Unwinding, Bursting
  <1>. QED
    BY <1>7, <1>8, <1>9 DEF TreeInv

\* A step in which nothing happens keeps the tree.
LEMMA StaysKeeps == ASSUME TreeInv, UNCHANGED vars PROVE TreeInv'
  <1>1. /\ UNCHANGED <<queue, st, allocs, armed, top, error_code, exec, in_exec, sched,
                       burst, pc, cur, request, fatal, allow>>
    BY DEF vars, flow, loop
  <1>2. Types'
    <2>1. Codes' = Codes
      BY <1>1 DEF Codes
    <2>. QED
      BY <1>1, <2>1, ZenonT(60) DEF TreeInv, Types
  <1>3. Tip' = Tip
    BY <1>1 DEF Tip
  <1>4. Walk'
    BY <1>1 DEF TreeInv, Walk, Ready, Climbing, Unwinding, Bursting, Repeats
  <1>. QED
    BY <1>1, <1>2, <1>3, <1>4 DEF TreeInv

\* The invariant holds of a new instance.
LEMMA TreeInit == ASSUME Init PROVE TreeInv
  <1>1. queue = <<>> /\ allocs = <<>> /\ Tip = None
    BY DEF Init, Tip
  <1>2. queue \in Seq(Step) /\ allocs \in Seq(Step \cup {None}) /\ Len(allocs) = 0
    BY <1>1
  <1>3. st \in [Step -> Data] /\ armed \in [Timer -> Step \cup {None}]
    BY FreshType DEF Init
  <1>4. burst \in 0 .. BurstSize /\ MaxAllocs \in Nat
    <2>1. burst = 0
      BY DEF Init
    <2>. QED
      BY <2>1, StepsAssumption
  <1>5. Types
    <2>1. /\ top = None /\ cur = None /\ exec = FALSE /\ in_exec = FALSE /\ sched = FALSE
          /\ error_code = "" /\ pc = "idle" /\ request = None /\ fatal = ""
      BY DEF Init
    <2>2. Len(allocs) <= MaxAllocs
      BY <1>2, <1>4
    <2>. QED
      BY <1>2, <1>3, <1>4, <2>1, <2>2, Zenon DEF Types
  <1>6. Walk
    BY DEF Init, Walk, Ready, Climbing, Unwinding, Bursting
  <1>. QED
    BY <1>1, <1>5, <1>6, TreeEmpty DEF TreeInv

\* Every step of the engine keeps the invariant.
LEMMA TreeStep == ASSUME TreeInv, [Next]_vars PROVE TreeInv'
  <1>1. CASE UNCHANGED vars
    BY <1>1, StaysKeeps
  <1>2. CASE Next
    <2>1. Codes' = Codes
      BY <1>2 DEF Next, Running, Codes
    <2>2. CASE Execute
      BY <2>1, <2>2, ExecuteKeeps
    <2>3. CASE Engine
      BY <2>1, <2>3, BeginBurstKeeps, RunStepKeeps, EndBurstKeeps, ClimbKeeps,
         ClimbRootKeeps, UnwindKeeps, UnwindRootKeeps, Zenon DEF Engine
    <2>4. ASSUME NEW t \in Timer, TimerFire(t) PROVE TreeInv'
      BY <2>1, <2>4, TimerFireKeeps
    <2>5. CASE ExternalEvent
      BY <2>1, <2>5, ExternalEventKeeps
    <2>6. CASE ForeignCall
      BY <2>1, <2>6, ForeignCallKeeps
    <2>7. CASE ForeignTask
      BY <2>1, <2>7, ForeignTaskKeeps
    <2>8. CASE Cancel
      BY <2>1, <2>8, CancelKeeps
    <2>. QED
      BY <1>2, <2>2, <2>3, <2>4, <2>5, <2>6, <2>7, <2>8, Zenon DEF Next
  <1>. QED
    BY <1>1, <1>2

\* The deque is a tree at all times, also in the middle of a walk: between
\* two levels of handle_success_sync() or of handle_error_sync(), and inside a burst.
THEOREM TreeAlways == Spec => []TreeInv
  BY TreeInit, TreeStep, PTL DEF Spec

----------------------------------------------------------------------------
(* What follows from it.                                                    *)

\* A list of distinct steps is no longer than there is memory for steps.
LEMMA DistinctFits ==
    ASSUME NEW q \in Seq(Step), Distinct(q)
    PROVE  Len(q) <= Cardinality(Step)
  <1>1. Len(q) \in Nat /\ DOMAIN q = 1 .. Len(q) /\ q \in [1 .. Len(q) -> Step]
    OBVIOUS
  <1>2. q \in Injection(1 .. Len(q), Step)
    BY <1>1 DEF Injection, IsInjective, Distinct
  <1>3. Cardinality(1 .. Len(q)) = Len(q)
    <2>1. 1 \in Int /\ Len(q) \in Int
      BY <1>1
    <2>. QED
      BY <1>1, <2>1, FS_Interval
  <1>4. Cardinality(1 .. Len(q)) <= Cardinality(Step)
    BY <1>2, StepsAssumption, FS_Injection
  <1>. QED
    BY <1>3, <1>4

\* A step is where the queue lists it.
LEMMA PositionIs ==
    ASSUME Distinct(queue), NEW i \in DOMAIN queue
    PROVE  Position(queue[i]) = i
  BY DEF Position, Distinct

\* The invariant includes the types.
LEMMA TypesHold == ASSUME TreeInv PROVE TypeOK
  <1>1. queue \in Seq(Step) /\ Distinct(queue)
    BY DEF TreeInv, Types, Tree
  <1>2. Len(queue) <= Cardinality(Step)
    BY <1>1, DistinctFits
  <1>3. Types
    BY DEF TreeInv
  <1>. QED
    BY <1>2, <1>3, Zenon DEF Types, TypeOK, Data

\* The level of a step that has sub-steps in the queue.
LEMMA LevelHolds ==
    ASSUME TreeInv, NEW s \in Alive, NEW p, p = st[s].parent, p # None
    PROVE  /\ p \in Alive /\ Position(p) <= st[p].start
           /\ st[p].start <= st[p].front /\ st[p].front < Len(queue)
           /\ \A i \in st[p].start + 1 .. Position(s) : st[queue[i]].parent = p
  <1>1. Typed(queue, st, Tip) /\ Tree(queue, st, Tip)
    BY TreeIsTyped
  <1>2. PICK j \in DOMAIN queue : s = queue[j]
    BY DEF Alive, Elements
  <1>3. Distinct(queue) /\ Position(s) = j
    BY <1>1, <1>2, PositionIs DEF Tree
  <1>4. /\ \E k \in DOMAIN queue : queue[k] = p /\ k <= st[p].start
        /\ st[p].start <= st[p].front /\ st[p].front < Len(queue)
        /\ \A i \in st[p].start + 1 .. j : st[queue[i]].parent = p
    BY <1>1, <1>2, LevelRun
  <1>5. PICK k \in DOMAIN queue : queue[k] = p /\ k <= st[p].start
    BY <1>4
  <1>6. Position(p) = k /\ p \in Alive
    BY <1>3, <1>5, PositionIs DEF Alive, Elements
  <1>. QED
    BY <1>3, <1>4, <1>5, <1>6

\* The type of every variable of the engine, for any memory and mix.
THEOREM TypesAreKept == Spec => []TypeOK
  BY TreeAlways, TypesHold, PTL

\* The one deque always holds a tree: the sub-steps of a step are a run after it,
\* its front is inside that run, and the innermost running step is the one its
\* parent's front points to, with the end of the queue as its sub-steps.
THEOREM QueueIsTree == Spec => []DequeIsTree
  <1>1. TreeInv => DequeIsTree
    <2> SUFFICES ASSUME TreeInv PROVE DequeIsTree
      OBVIOUS
    <2>1. /\ Typed(queue, st, Tip) /\ Tree(queue, st, Tip) /\ queue \in Seq(Step)
          /\ Len(queue) \in Nat /\ DOMAIN queue = 1 .. Len(queue)
      BY TreeIsTyped
    <2>2. TypeOK /\ Distinct(queue)
      BY <2>1, TypesHold DEF Tree
    <2>3. \A s \in Alive :
             LET p == st[s].parent IN
             p # None => /\ p \in Alive /\ Position(p) <= st[p].start
                         /\ st[p].start <= st[p].front /\ st[p].front < Len(queue)
                         /\ \A i \in st[p].start + 1 .. Position(s) :
                               st[queue[i]].parent = p
      BY LevelHolds
    <2>4. ASSUME pc \in {"idle", "exec"}, top # None
          PROVE  /\ top \in Alive /\ st[top].ran
                 /\ queue[IF st[top].parent = None THEN 1
                          ELSE st[st[top].parent].front + 1] = top
                 /\ \A i \in st[top].start + 1 .. Len(queue) :
                       st[queue[i]].parent = top
      <3>1. Tip = top /\ top \in Path(queue, st, Tip) /\ top \in Step
        BY <2>1, <2>4 DEF Tip, Path, Typed
      <3>2. /\ FrontOf(st, st[top].parent) + 1 \in DOMAIN queue
            /\ queue[FrontOf(st, st[top].parent) + 1] = top /\ st[top].ran
        BY <2>1, <3>1 DEF Tree, Levels
      <3>3. \A i \in DOMAIN queue : st[queue[i]].parent = top <=> i > st[top].start
        BY <2>1, <2>4, <3>1 DEF Tree, EndIsTip, StartOf
      <3>4. st[top].start \in Nat
        BY <2>1, <3>1 DEF Typed
      <3>5. top \in Alive
        BY <3>2 DEF Alive, Elements
      <3>6. queue[IF st[top].parent = None THEN 1 ELSE st[st[top].parent].front + 1] = top
        BY <3>2 DEF FrontOf
      <3>. QED
        BY <2>1, <3>2, <3>3, <3>4, <3>5, <3>6
    <2>. QED
      BY <2>2, <2>3, <2>4 DEF DequeIsTree
  <1>. QED
    BY <1>1, TreeAlways, PTL

\* The handlers of a level are called one after the other, each once unless it
\* loops or polls.
THEOREM HandlersRunInOrder == Spec => RunsInOrder
  <1>1. ASSUME TreeInv, RunStep PROVE InOrder
    <2>1. pc = "exec" /\ MoreToRun /\ top' = NextStep
      BY <1>1 DEF RunStep
    <2>2. /\ FrontOf(st, top) < Len(queue) /\ NextStep = queue[FrontOf(st, top) + 1]
          /\ st[NextStep].parent = top /\ (st[NextStep].ran => Repeats(NextStep))
      BY <1>1, <2>1, NextIsThere
    <2>3. /\ Typed(queue, st, top) /\ Tree(queue, st, top)
          /\ Len(queue) \in Nat /\ DOMAIN queue = 1 .. Len(queue)
      BY <1>1, <2>1, TreeIsTyped DEF Tip
    <2>4. FrontOf(st, top) + 1 \in DOMAIN queue
      BY <2>2, <2>3, NextIsChild
    <2>5. Position(NextStep) = FrontOf(st, top) + 1
      BY <2>2, <2>3, <2>4, PositionIs DEF Tree
    <2>6. ASSUME NEW s \in Alive, st[s].parent = top
          PROVE  /\ Position(s) < FrontOf(st, top) + 1 => st[s].ran
                 /\ Position(s) > FrontOf(st, top) + 1 => ~st[s].ran
      <3>1. PICK i \in DOMAIN queue : s = queue[i]
        BY DEF Alive, Elements
      <3>2. Position(s) = i
        BY <2>3, <3>1, PositionIs DEF Tree
      <3>. QED
        BY <2>3, <2>6, <3>1, <3>2 DEF Tree, Order
    <2>. QED
      BY <2>1, <2>2, <2>5, <2>6 DEF InOrder
  <1>2. TreeInv /\ [Next]_vars => [InOrder]_vars
    <2> SUFFICES ASSUME TreeInv, Next PROVE InOrder
      OBVIOUS
    <2>1. CASE RunStep
      BY <1>1, <2>1
    <2>2. CASE ~RunStep
      <3>1. ~(pc = "exec" /\ burst' # burst /\ in_exec')
        BY <2>2 DEF Next, Engine, Execute, BeginBurst, EndBurst, Climb, ClimbRoot, Unwind,
           UnwindRoot, TimerFire, ExternalEvent, ForeignCall, ForeignTask, Cancel, loop
      <3>. QED
        BY <3>1 DEF InOrder
    <2>. QED
      BY <2>1, <2>2
  <1>. QED
    BY <1>2, TreeAlways, PTL DEF Spec, RunsInOrder

----------------------------------------------------------------------------
(* The error code.  NoStaleError is not inductive: the engine must not come *)
(* back from an error to a queue that still has steps.                      *)

\* What the flow did with the code before: it was handled, or there is nothing
\* left to run.
Stale == error_code = "" \/ pc = "unwind" \/ queue = <<>>

\* What a handler does with the code, the schedule and the timers.
LEMMA RunCases ==
    ASSUME RunStep, NEW s, NEW f, NEW n, NEW a, NEW w, NEW t, NEW end,
           Run(s, f, n, a, w, t, end)
    PROVE  Outcome(s, f, a, w, t, end)
  BY HandlerCases, Zenon DEF Run

\* Without reuse, an error code survives a step of the engine only during the unwinding.
LEMMA StaleStep ==
    ASSUME TreeInv, "reuse" \notin allow, Stale, [Next]_vars PROVE Stale'
  <1>1. CASE UNCHANGED vars
    BY <1>1 DEF Stale, vars, flow
  <1>2. CASE RunStep
    <2>1. PICK f, n, a, w, t, end : Run(NextStep, f, n, a, w, t, end)
      BY <1>2, RunStepRuns DEF Runs
    <2>2. Outcome(NextStep, f, a, w, t, end)
      BY <1>2, <2>1, RunCases, Zenon
    <2>3. error_code' = error_code \/ pc' = "unwind"
      BY <2>2 DEF Outcome
    <2>4. error_code = ""
      BY <1>2 DEF RunStep, MoreToRun, Stale
    <2>. QED
      BY <2>3, <2>4 DEF Stale
  <1>3. CASE Climb \/ ClimbRoot
    <2>1. error_code' = error_code /\ pc = "climb"
      BY <1>3 DEF Climb, ClimbRoot
    <2>2. queue # <<>>
      <3>1. FrontOf(st, cur) < Len(queue) /\ FrontOf(st, cur) \in Nat
        <4>1. st \in [Step -> Data] /\ cur \in Step \cup {None}
          BY DEF TreeInv, Types
        <4>. QED
          BY <2>1, <4>1 DEF TreeInv, Walk, Climbing, FrontOf, Data
      <3>. QED
        BY <3>1
    <2>. QED
      BY <2>1, <2>2 DEF Stale
  <1>4. CASE Unwind
    BY <1>4 DEF Unwind, Recover, Substitute, Propagate, Override, Stale
  <1>5. CASE Next /\ ~(RunStep \/ Climb \/ ClimbRoot \/ Unwind)
    <2>1. CASE Execute
      BY <2>1 DEF Execute, Stale
    <2>2. CASE Cancel \/ UnwindRoot
      BY <2>2 DEF Cancel, UnwindRoot, Stale
    <2>3. CASE BeginBurst \/ EndBurst
      BY <2>3 DEF BeginBurst, EndBurst, flow, Stale
    <2>4. CASE ExternalEvent \/ ForeignCall \/ ForeignTask
      BY <2>4 DEF ExternalEvent, ForeignCall, ForeignTask, Succeed, Raise, Stale, Waiting,
         TreeInv, Tree, SubEmpty
    <2>5. ASSUME NEW t \in Timer, TimerFire(t) PROVE Stale'
      BY <2>5 DEF TimerFire, Raise, Stale
    <2>. QED
      BY <1>5, <2>1, <2>2, <2>3, <2>4, <2>5, Zenon DEF Next, Engine
  <1>. QED
    BY <1>1, <1>2, <1>3, <1>4, <1>5

\* Unless a flow is executed again after an error that nobody handled, no error
\* code is left over when a handler is about to run.
THEOREM NoCodeIsLeft ==
    ASSUME \A m \in Mixes : "reuse" \notin m
    PROVE  Spec => []NoStaleError
  <1> DEFINE Inv == TreeInv /\ allow \in Mixes /\ Stale
  <1>1. Init => Inv
    BY TreeInit DEF Init, Stale
  <1>2. Inv /\ [Next]_vars => Inv'
    <2> SUFFICES ASSUME Inv, [Next]_vars PROVE Inv'
      OBVIOUS
    <2>1. TreeInv'
      BY TreeStep
    <2>2. allow' = allow
      BY DEF Next, Running, vars
    <2>3. Stale'
      BY StaleStep
    <2>. QED
      BY <2>1, <2>2, <2>3
  <1>3. Inv => NoStaleError
    BY DEF Stale, NoStaleError
  <1>. QED
    BY <1>1, <1>2, <1>3, PTL DEF Spec

----------------------------------------------------------------------------
(* The records of the steps: a step that has not run waits for nothing and  *)
(* owns nothing, and a loop leaves its wait to its sub-steps.               *)

\* A step of the record x is not replaced.
Keeps(x) ==
    /\ st'[x].ran = st[x].ran /\ st'[x].limit = st[x].limit
    /\ st'[x].on_cancel => st[x].on_cancel
    /\ st'[x].asked => st[x].asked
    /\ st'[x].loop = "no" <=> st[x].loop = "no"

\* The record x is that of a new step, or of none.
IsNew(x) == /\ ~st'[x].ran /\ st'[x].limit = None /\ ~st'[x].on_cancel
            /\ ~st'[x].asked /\ st'[x].allocs = 0

\* Nothing else happens to a record, except to that of the step that runs.
Follows(x) == (Keeps(x) /\ st'[x].allocs = st[x].allocs) \/ IsNew(x)

\* A record that is reset is that of no step.
LEMMA FreshIsNew == ASSUME NEW x \in Step, st'[x] = Fresh PROVE Follows(x)
  BY DEF Fresh, IsNew, Follows

\* So does one that nobody touches.
LEMMA SameFollows == ASSUME NEW x, st'[x] = st[x] PROVE Follows(x)
  BY DEF Keeps, Follows

\* Answering a wait keeps what the records promise.
LEMMA AskedFollows ==
    ASSUME TreeInv, NEW s \in Step, st' = [st EXCEPT ![s].asked = FALSE], NEW x \in Step
    PROVE  Follows(x)
  <1>1. /\ st'[x].ran = st[x].ran /\ st'[x].limit = st[x].limit
        /\ st'[x].on_cancel = st[x].on_cancel /\ st'[x].loop = st[x].loop
        /\ st'[x].allocs = st[x].allocs
        /\ x # s => st'[x] = st[x]
        /\ ~st'[s].asked
    BY AskedFacts
  <1>. QED
    BY <1>1 DEF Keeps, Follows

\* Climbing keeps or destroys the records it meets, and restarts a loop.
LEMMA ClimbFollows == ASSUME TreeInv, Climb, NEW x \in Step PROVE Follows(x)
  <1> DEFINE n == Shifted(cur)
             f == Destroy(st, Subs(cur))
  <1>1. pc = "climb" /\ cur # None /\ Tip = cur
    BY DEF Climb, Tip
  <1>2. st \in [Step -> Data] /\ cur \in Step /\ n \in Nat
    <2>1. st \in [Step -> Data] /\ cur \in Step
      BY <1>1, TreeIsTyped, LevelFacts
    <2>. QED
      BY <2>1 DEF Shifted, Data
  <1>3. f \in [Step -> Data] /\ \A y \in Step : f[y] = IF y \in Subs(cur) THEN Fresh ELSE st[y]
    BY <1>2, DestroyFacts
  <1> HIDE DEF f, n
  <1>4. CASE st' = [st EXCEPT ![cur].front = n]
    <2>1. st'[x].ran = st[x].ran /\ st'[x].limit = st[x].limit
          /\ st'[x].on_cancel = st[x].on_cancel /\ st'[x].loop = st[x].loop
          /\ st'[x].allocs = st[x].allocs /\ st'[x].asked = st[x].asked
      BY <1>2, <1>4, FrontSetFacts
    <2>. QED
      BY <2>1 DEF Keeps, Follows
  <1>5. CASE st' = [f EXCEPT ![cur].front = n]
    <2>1. /\ st'[x].ran = f[x].ran /\ st'[x].limit = f[x].limit
          /\ st'[x].on_cancel = f[x].on_cancel /\ st'[x].loop = f[x].loop
          /\ st'[x].allocs = f[x].allocs /\ st'[x].asked = f[x].asked
      BY <1>2, <1>3, <1>5, FrontSetFacts
    <2>2. CASE x \in Subs(cur)
      <3>1. f[x] = Fresh
        BY <1>3, <2>2
      <3>. QED
        BY <2>1, <3>1 DEF Fresh, IsNew, Follows
    <2>3. CASE x \notin Subs(cur)
      <3>1. f[x] = st[x]
        BY <1>3, <2>3
      <3>. QED
        BY <2>1, <3>1 DEF Keeps, Follows
    <2>. QED
      BY <2>2, <2>3
  <1>. QED
    BY <1>4, <1>5 DEF Climb, f, n

\* Unwinding keeps or destroys the records it meets.
LEMMA UnwindFollows == ASSUME TreeInv, Unwind, NEW x \in Step PROVE Follows(x)
  <1> DEFINE f == Unwound
  <1>1. pc = "unwind" /\ cur # None /\ Tip = cur
    BY DEF Unwind, Tip
  <1>2. /\ cur \in Step /\ cur \in Elements(Kept) /\ cur \notin Subs(cur)
        /\ Elements(Kept) \subseteq Step
    BY <1>1, LevelFacts
  <1>3. /\ f \in [Step -> Data]
        /\ f[cur].ran = st[cur].ran /\ f[cur].loop = st[cur].loop
        /\ f[cur].limit = st[cur].limit /\ f[cur].allocs = st[cur].allocs
        /\ f[cur].asked = st[cur].asked /\ ~f[cur].on_cancel
        /\ x \in Subs(cur) => f[x] = Fresh
        /\ x \notin Subs(cur) \cup {cur} => f[x] = st[x]
    BY <1>1, <1>2, UnwoundFacts
  <1> HIDE DEF f
  <1>4. ASSUME NEW l \in {"no", "go", "stop", "poll", "done"},
               st' = [f EXCEPT ![cur].loop = l], l = "no" <=> st[cur].loop = "no"
        PROVE  Follows(x)
    <2>1. OnlyLoop(f, cur, l, st')
      <3>1. OnlyLoop(f, cur, l, [f EXCEPT ![cur].loop = l])
        BY <1>2, <1>3, LoopSetFacts
      <3>. QED
        BY <1>4, <3>1
    <2>2. /\ st'[x].ran = f[x].ran /\ st'[x].limit = f[x].limit
          /\ st'[x].allocs = f[x].allocs /\ st'[x].asked = f[x].asked
          /\ st'[x].on_cancel = f[x].on_cancel
          /\ x # cur => st'[x].loop = f[x].loop
          /\ st'[cur].loop = l
      BY <2>1 DEF OnlyLoop
    <2>3. CASE x = cur
      BY <1>3, <1>4, <2>2, <2>3 DEF Keeps, Follows
    <2>4. CASE x \in Subs(cur)
      <3>1. f[x] = Fresh
        BY <1>3, <2>4
      <3>. QED
        BY <2>2, <3>1 DEF Fresh, IsNew, Follows
    <2>5. CASE x \notin Subs(cur) \cup {cur}
      <3>1. f[x] = st[x] /\ x # cur
        BY <1>3, <2>5
      <3>. QED
        BY <2>2, <3>1 DEF Keeps, Follows
    <2>. QED
      BY <2>3, <2>4, <2>5
  <1>5. st[cur].loop \in {"no", "go", "stop", "poll", "done"}
    BY <1>2, TreeIsTyped DEF Data
  <1>6. CASE Recover(f)
    <2>1. st' = [f EXCEPT ![cur].loop = LoopAfter(f[cur].loop, TRUE)]
      BY <1>6 DEF Recover
    <2>. QED
      BY <1>3, <1>4, <1>5, <2>1 DEF LoopAfter
  <1>7. CASE Propagate(f)
    <2> DEFINE l == IF st[cur].on_error THEN LoopAfter(f[cur].loop, FALSE)
                    ELSE f[cur].loop
    <2>1. st' = [f EXCEPT ![cur].loop = l]
      BY <1>7 DEF Propagate
    <2>2. l \in {"no", "go", "stop", "poll", "done"} /\ (l = "no" <=> st[cur].loop = "no")
      BY <1>3, <1>5 DEF LoopAfter
    <2> HIDE DEF l
    <2>. QED
      BY <1>4, <2>1, <2>2
  <1>8. ASSUME st'[x] = f[x] PROVE Follows(x)
    BY <1>3, <1>8 DEF Fresh, IsNew, Keeps, Follows
  <1>9. CASE Override(f)
    BY <1>8, <1>9 DEF Override
  <1>10. CASE Substitute(f)
    <2>1. PICK n \in 1 .. MaxSub : \E a \in Additions(n, Step \ Elements(Kept)) :
             st' = Construct(f, cur, a)
      BY <1>10 DEF Substitute
    <2>2. PICK a \in Additions(n, Step \ Elements(Kept)) : st' = Construct(f, cur, a)
      BY <2>1
    <2>3. n \in Nat /\ Step \ Elements(Kept) \subseteq Step /\ cur \in Step \cup {None}
      BY <1>2, StepsAssumption
    <2>4. CASE x \in Elements(Ids(a))
      <3>1. LET c == Construct(f, cur, a)[x]
            IN  /\ ~c.on_cancel /\ c.limit = None /\ c.allocs = 0 /\ ~c.ran /\ ~c.asked
        BY <1>3, <2>3, <2>4, ConstructFacts
      <3>. QED
        BY <2>2, <3>1 DEF IsNew, Follows
    <2>5. CASE x \notin Elements(Ids(a))
      <3>1. Construct(f, cur, a)[x] = f[x]
        BY <1>3, <2>3, <2>5, ConstructFacts
      <3>. QED
        BY <1>8, <2>2, <3>1
    <2>. QED
      BY <2>4, <2>5
  <1>. QED
    BY <1>6, <1>7, <1>9, <1>10 DEF Unwind, f

\* Between two handlers a record is kept, freed or newly made.
LEMMA RecordsFollow ==
    ASSUME TreeInv, Next, ~RunStep, NEW x \in Step PROVE Follows(x)
  <1>1. CASE Execute
    <2>1. PICK n \in 1 .. MaxSub : \E a \in Additions(n, Step) :
             st' = Construct(st, None, a)
      BY <1>1 DEF Execute
    <2>2. PICK a \in Additions(n, Step) : st' = Construct(st, None, a)
      BY <2>1
    <2>3. n \in Nat /\ st \in [Step -> Data]
      BY StepsAssumption, TreeIsTyped
    <2>4. CASE x \in Elements(Ids(a))
      <3>1. LET c == Construct(st, None, a)[x]
            IN  /\ ~c.on_cancel /\ c.limit = None /\ c.allocs = 0 /\ ~c.ran /\ ~c.asked
        BY <2>3, <2>4, ConstructFacts
      <3>. QED
        BY <2>2, <3>1 DEF IsNew, Follows
    <2>5. CASE x \notin Elements(Ids(a))
      <3>1. Construct(st, None, a)[x] = st[x]
        BY <2>3, <2>5, ConstructFacts
      <3>. QED
        BY <2>2, <3>1, SameFollows
    <2>. QED
      BY <2>4, <2>5
  <1>2. CASE \E D : st' = Destroy(st, D)
    <2>1. PICK D : st' = Destroy(st, D)
      BY <1>2
    <2>2. st'[x] = Fresh \/ st'[x] = st[x]
      BY <2>1 DEF Destroy
    <2>. QED
      BY <2>2, FreshIsNew, SameFollows
  <1>3. CASE st' = st
    BY <1>3, SameFollows
  <1>4. CASE ExternalEvent \/ ForeignCall
    <2>1. st' = [st EXCEPT ![top].asked = FALSE] /\ top \in Step
      BY <1>4 DEF ExternalEvent, ForeignCall, Waiting, TreeInv, Types
    <2>. QED
      BY <2>1, AskedFollows
  <1>5. CASE Climb
    BY <1>5, ClimbFollows
  <1>6. CASE Unwind
    BY <1>6, UnwindFollows
  <1>7. CASE Cancel \/ UnwindRoot
    BY <1>2, <1>7 DEF Cancel, UnwindRoot
  <1>8. CASE ClimbRoot
    BY <1>2, <1>3, <1>8 DEF ClimbRoot
  <1>9. CASE ForeignTask \/ BeginBurst \/ EndBurst \/ \E t \in Timer : TimerFire(t)
    BY <1>3, <1>9 DEF ForeignTask, BeginBurst, EndBurst, TimerFire, flow
  <1>. QED
    BY <1>1, <1>4, <1>5, <1>6, <1>7, <1>8, <1>9, Zenon DEF Next, Engine

\* What the handler of s does to the records and the queue.
RunEffect(s, n, a, w, t, end) ==
    /\ s \in Step /\ s # None /\ s \in Alive /\ st[s].parent = top
    /\ n \in Nat /\ (a = <<>> <=> n = 0)
    /\ st'[s].parent = top /\ st'[s].ran
    /\ st'[s].start = Len(queue) /\ st'[s].front = Len(queue)
    /\ st'[s].loop = "no" <=> st[s].loop = "no"
    /\ st'[s].on_cancel = (st[s].on_cancel \/ w)
    /\ st'[s].limit = IF t = None THEN st[s].limit ELSE t
    /\ st'[s].asked = (end = "return" /\ a = <<>> /\ (w \/ t # None))
    /\ queue' \in Seq(Step) /\ Len(queue') = Len(queue) + n
    /\ st[s].ran => Repeats(s)
    /\ \A x \in Step \ {s} : Keeps(x) \/ IsNew(x)

\* A round of execute_handler() leaves the records as the handler left them.
LEMMA RunHandled ==
    ASSUME TreeInv, RunStep, NEW s, s = NextStep, NEW f, NEW n, NEW a, NEW w, NEW t,
           NEW end, Run(s, f, n, a, w, t, end)
    PROVE  Handled(s, f, a, w, t, end, st') /\ s \in Alive /\ s \in Step
  <1>1. pc = "exec" /\ MoreToRun
    BY DEF RunStep
  <1>2. s \in Alive /\ s \in Step /\ queue \in Seq(Step)
    BY <1>1, NextIsThere, TreeIsTyped
  <1>3. /\ f \in [Step -> Data] /\ n \in Nat /\ a \in Additions(n, Step \ Alive)
        /\ w \in BOOLEAN /\ t \in Timer \cup {None}
    BY DEF Run, StartsAs
  <1>4. st' = After(s, f, a, w, t, end)
    BY RunCases, Zenon DEF Outcome
  <1>5. Handled(s, f, a, w, t, end, st')
    BY <1>2, <1>3, <1>4, AfterFacts, Zenon
  <1>. QED
    BY <1>2, <1>5

\* What a round changes beside the records, by the way the handler ended.
LEMMA RunEffects ==
    ASSUME TreeInv, RunStep, NEW s, s = NextStep, NEW f, NEW n, NEW a, NEW w, NEW t,
           NEW end, Run(s, f, n, a, w, t, end)
    PROVE  RunEffect(s, n, a, w, t, end)
  <1>1. pc = "exec" /\ MoreToRun
    BY DEF RunStep
  <1>2. /\ s \in Step /\ st[s].parent = top /\ (st[s].ran => Repeats(s))
        /\ queue \in Seq(Step) /\ s # None
    BY <1>1, NextIsThere, TreeIsTyped, StepsAssumption
  <1>3. Handled(s, f, a, w, t, end, st') /\ s \in Alive
    BY RunHandled
  <1>4. /\ StartsAs(f, s) /\ n \in Nat /\ a \in Additions(n, Step \ Alive)
        /\ \A x \in Step : /\ f[x].on_cancel = st[x].on_cancel /\ f[x].limit = st[x].limit
                           /\ x # s => f[x].asked = st[x].asked /\ f[x].loop = st[x].loop
                           /\ f[x].loop = "no" <=> st[x].loop = "no"
    BY DEF Run
  <1>5. /\ queue' = queue \o Ids(a) /\ queue \o Ids(a) \in Seq(Step)
        /\ Len(queue \o Ids(a)) = Len(queue) + n
    <2>1. Outcome(s, f, a, w, t, end)
      BY RunCases, Zenon
    <2>2. queue \o Ids(a) \in Seq(Step) /\ Len(queue \o Ids(a)) = Len(queue) + n
      BY <1>2, <1>4, QueueGrows
    <2>. QED
      BY <2>1, <2>2 DEF Outcome
  <1>6. a = <<>> <=> n = 0
    BY <1>4, AdditionsFacts, Step \ Alive \subseteq Step
  <1>7. /\ st'[s].parent = top /\ st'[s].ran
        /\ st'[s].start = Len(queue) /\ st'[s].front = Len(queue)
        /\ st'[s].loop = "no" <=> st[s].loop = "no"
        /\ st'[s].on_cancel = (st[s].on_cancel \/ w)
        /\ st'[s].limit = IF t = None THEN st[s].limit ELSE t
        /\ st'[s].asked = (end = "return" /\ a = <<>> /\ (w \/ t # None))
    BY <1>2, <1>3, <1>4 DEF Handled, StartsAs
  <1>8. ASSUME NEW x \in Step \ {s} PROVE Keeps(x) \/ IsNew(x)
    <2>1. CASE x \in Elements(Ids(a))
      BY <1>3, <2>1 DEF Handled, IsNew
    <2>2. CASE x \notin Elements(Ids(a))
      <3>1. st'[x] = f[x]
        BY <1>3, <2>2 DEF Handled
      <3>. QED
        BY <1>4, <3>1 DEF Keeps, StartsAs
    <2>. QED
      BY <2>1, <2>2
  <1>. QED
    BY <1>2, <1>3, <1>4, <1>5, <1>6, <1>7, <1>8 DEF RunEffect

\* A step that has not run asked for nothing.
Untouched ==
    \A x \in Step : ~st[x].ran => ~st[x].on_cancel /\ st[x].limit = None /\ ~st[x].asked

\* A step that has not run has no on_cancel, no timeout and no wait.
LEMMA UntouchedStep == ASSUME TreeInv, Untouched, Next PROVE Untouched'
  <1>1. CASE RunStep
    <2> DEFINE s == NextStep
    <2>1. PICK f, n, a, w, t, end : Run(s, f, n, a, w, t, end)
      BY <1>1, RunStepRuns DEF Runs
    <2>2. RunEffect(s, n, a, w, t, end)
      BY <1>1, <2>1, RunEffects
    <2>3. st'[s].ran /\ \A x \in Step \ {s} : Keeps(x) \/ IsNew(x)
      BY <2>2 DEF RunEffect
    <2> HIDE DEF s
    <2>. QED
      BY <2>3 DEF Untouched, Keeps, IsNew
  <1>2. CASE ~RunStep
    <2>1. \A x \in Step : Follows(x)
      BY <1>2, RecordsFollow
    <2>. QED
      BY <2>1 DEF Follows, Untouched, Keeps, IsNew
  <1>. QED
    BY <1>1, <1>2

\* Without a wait in the loop step itself, a loop and await() never wait.
Unheld == \A x \in Step : st[x].loop # "no" => ~st[x].on_cancel

\* Unless a loop body itself waits, no loop step has an on_cancel.
LEMMA UnheldStep ==
    ASSUME TreeInv, Unheld, Next, "loop_wait" \notin allow PROVE Unheld'
  <1>1. CASE RunStep
    <2> DEFINE s == NextStep
    <2>1. PICK f, n, a, w, t, end : Run(s, f, n, a, w, t, end)
      BY <1>1, RunStepRuns DEF Runs
    <2>2. RunEffect(s, n, a, w, t, end)
      BY <1>1, <2>1, RunEffects
    <2>3. /\ \A x \in Step \ {s} : Keeps(x) \/ IsNew(x)
          /\ st'[s].loop = "no" <=> st[s].loop = "no"
          /\ st'[s].on_cancel = (st[s].on_cancel \/ w) /\ s \in Step
      BY <2>2 DEF RunEffect
    <2>4. w => st[s].loop = "no"
      BY <2>1 DEF Run
    <2> HIDE DEF s
    <2>. QED
      BY <2>3, <2>4 DEF Unheld, Keeps, IsNew
  <1>2. CASE ~RunStep
    <2>1. \A x \in Step : Follows(x)
      BY <1>2, RecordsFollow
    <2>. QED
      BY <2>1 DEF Follows, Unheld, Keeps, IsNew
  <1>. QED
    BY <1>1, <1>2

----------------------------------------------------------------------------
(* The timers, when no handler sets one and adds sub-steps: one is pending  *)
(* only while its step is the innermost one and the flow rests on it.       *)

Quiet ==
    \A t \in Timer : armed[t] # None =>
        /\ armed[t] = top /\ st[top].limit = t /\ st[top].start = Len(queue)
        /\ pc # "climb"
        /\ pc = "exec" => ~sched
        /\ pc = "idle" => ~exec

\* No timer is left when those of the innermost step are canceled.
LEMMA AllDisarmed ==
    ASSUME TreeInv, Quiet, NEW D, top # None => top \in D, armed' = Disarm(D)
    PROVE  \A t \in Timer : armed'[t] = None
  <1>1. st \in [Step -> Data] /\ armed \in [Timer -> Step \cup {None}]
    BY DEF TreeInv, Types
  <1> SUFFICES ASSUME NEW t \in Timer PROVE armed'[t] = None
    OBVIOUS
  <1>2. armed'[t] = IF armed[t] \in D /\ st[armed[t]].limit = t THEN None ELSE armed[t]
    BY <1>1, DisarmFacts
  <1>3. armed[t] # None => armed[t] = top /\ st[top].limit = t
    BY DEF Quiet
  <1>. QED
    BY <1>2, <1>3

\* A handler arms a timer only for the step that will be innermost.
LEMMA QuietRun ==
    ASSUME TreeInv, Quiet, RunStep, "outer_timeout" \notin allow PROVE Quiet'
  <1> DEFINE s == NextStep
  <1>1. PICK f, n, a, w, t, end : Run(s, f, n, a, w, t, end)
    BY RunStepRuns DEF Runs
  <1>2. RunEffect(s, n, a, w, t, end)
    BY <1>1, RunEffects
  <1>3. Outcome(s, f, a, w, t, end)
    BY <1>1, RunCases, Zenon
  <1>4. /\ t \in Timer \cup {None}
        /\ t # None => a = <<>>
    BY <1>1 DEF Run
  <1>5. top' = s /\ sched /\ pc = "exec"
    BY DEF RunStep, MoreToRun
  <1> HIDE DEF s
  <1>6. st \in [Step -> Data] /\ armed \in [Timer -> Step \cup {None}]
        /\ Len(queue) \in Nat
    BY TreeIsTyped DEF TreeInv, Types
  <1>7. \A u \in Timer : armed[u] = None
    BY <1>5 DEF Quiet
  <1>8. CASE armed' = Disarm({s}) \/ armed' = armed
    <2>1. \A u \in Timer : armed'[u] = None
      BY <1>6, <1>7, <1>8, DisarmFacts
    <2>. QED
      BY <2>1 DEF Quiet
  <1>9. CASE t # None /\ armed' = [armed EXCEPT ![t] = s]
    <2>1. \A u \in Timer : armed'[u] # None => u = t /\ armed'[u] = s
      BY <1>4, <1>6, <1>7, <1>9
    <2>2. st'[s].limit = t /\ st'[s].start = Len(queue) /\ Len(queue') = Len(queue)
      <3>1. /\ n = 0 /\ st'[s].limit = t /\ st'[s].start = Len(queue)
            /\ Len(queue') = Len(queue) + n
        <4>1. t # None /\ a = <<>>
          BY <1>4, <1>9
        <4>. QED
          BY <1>2, <4>1 DEF RunEffect
      <3>. QED
        BY <1>6, <3>1
    <2>3. \/ pc' = "unwind"
          \/ pc' = pc /\ ~sched'
      <3>1. a = <<>> /\ t # None /\ Blocks(s, f, a, w, t, end)
        <4>1. t # None /\ a = <<>>
          BY <1>4, <1>9
        <4>2. Blocks(s, f, a, w, t, end)
          BY <4>1, Zenon DEF Blocks
        <4>. QED
          BY <4>1, <4>2
      <3>2. \/ pc' = "unwind"
            \/ pc' = pc /\ sched' = (a # <<>>)
        BY <1>3, <3>1, Zenon DEF Outcome
      <3>. QED
        BY <3>1, <3>2
    <2>. QED
      BY <1>5, <2>1, <2>2, <2>3 DEF Quiet
  <1>. QED
    BY <1>3, <1>8, <1>9 DEF Outcome

\* Every step of the engine keeps the timers with the steps they are for.
LEMMA QuietStep ==
    ASSUME TreeInv, Quiet, [Next]_vars, "outer_timeout" \notin allow PROVE Quiet'
  <1>0. st \in [Step -> Data] /\ armed \in [Timer -> Step \cup {None}]
        /\ top \in Step \cup {None} /\ cur \in Step \cup {None}
    BY DEF TreeInv, Types
  <1>1. CASE UNCHANGED vars
    BY <1>1 DEF Quiet, vars, flow, loop
  <1>2. CASE RunStep
    BY <1>2, QuietRun
  <1>3. ASSUME \A t \in Timer : armed'[t] = None PROVE Quiet'
    BY <1>3 DEF Quiet
  <1>4. CASE Execute
    <2>1. top = None /\ armed' = armed
      BY <1>4 DEF Execute
    <2>. QED
      BY <1>3, <2>1 DEF Quiet
  <1>5. CASE Cancel
    <2>1. pc = "idle" /\ Tip = top
      BY <1>5 DEF Cancel, Tip
    <2>2. top # None => top \in Alive
      <3>1. Tree(queue, st, top) /\ Typed(queue, st, top)
        BY <2>1, TreeIsTyped
      <3>2. top # None => top \in Path(queue, st, top)
        BY DEF Path
      <3>. QED
        BY <3>1, <3>2 DEF Tree, Levels, Alive, Elements
    <2>. QED
      BY <1>3, <1>5, <2>2, AllDisarmed DEF Cancel
  <1>6. CASE UnwindRoot
    <2>1. top = None
      BY <1>6 DEF UnwindRoot, TreeInv, Walk, Unwinding
    <2>. QED
      BY <1>3, <1>6, <2>1, AllDisarmed DEF UnwindRoot
  <1>7. CASE Unwind
    <2>1. top = cur /\ cur \in Spent /\ armed' = Disarm(Spent)
      BY <1>7 DEF Unwind, TreeInv, Walk, Unwinding, Spent
    <2>. QED
      BY <1>3, <2>1, AllDisarmed
  <1>8. CASE Climb \/ ClimbRoot
    <2>1. pc = "climb"
      BY <1>8 DEF Climb, ClimbRoot
    <2>2. \A t \in Timer : armed[t] = None
      BY <2>1 DEF Quiet
    <2>3. armed' = armed \/ \E D : armed' = Disarm(D)
      BY <1>8 DEF Climb, ClimbRoot
    <2>. QED
      BY <1>0, <1>3, <2>2, <2>3 DEF Disarm
  <1>9. CASE BeginBurst
    <2>1. \A t \in Timer : armed'[t] = None
      BY <1>9 DEF BeginBurst, flow, Quiet
    <2>. QED
      BY <1>3, <2>1
  <1>10. CASE EndBurst
    BY <1>10 DEF EndBurst, flow, Quiet
  <1>11. CASE ForeignCall
    <2>1. /\ UNCHANGED <<queue, armed, top, exec, sched, pc>> /\ top \in Step
          /\ st' = [st EXCEPT ![top].asked = FALSE]
      BY <1>11, <1>0 DEF ForeignCall, Waiting, loop
    <2>2. st'[top].limit = st[top].limit /\ st'[top].start = st[top].start
      BY <2>1, AskedFacts
    <2>. QED
      BY <2>1, <2>2 DEF Quiet
  <1>12. ASSUME top # None, Succeed(top) PROVE Quiet'
    BY <1>3, <1>12, AllDisarmed DEF Succeed
  <1>13. ASSUME pc' = "unwind", UNCHANGED <<queue, top>>, top # None,
                \A t \in Timer : armed'[t] \in {armed[t], None},
                st'[top].limit = st[top].limit, st'[top].start = st[top].start
         PROVE  Quiet'
    BY <1>13 DEF Quiet
  <1>14. CASE ExternalEvent
    <2>1. /\ UNCHANGED <<queue, top>> /\ top \in Step /\ top # None
          /\ st' = [st EXCEPT ![top].asked = FALSE]
      BY <1>14, <1>0 DEF ExternalEvent, Waiting
    <2>2. st'[top].limit = st[top].limit /\ st'[top].start = st[top].start
      BY <2>1, AskedFacts
    <2>3. Succeed(top) \/ (Raise(top, "Error") /\ UNCHANGED armed)
      BY <1>14 DEF ExternalEvent
    <2>4. CASE Raise(top, "Error") /\ UNCHANGED armed
      <3>1. pc' = "unwind" /\ UNCHANGED <<queue, top>>
            /\ \A t \in Timer : armed'[t] \in {armed[t], None}
        BY <2>1, <2>4 DEF Raise
      <3>. QED
        BY <1>13, <2>1, <2>2, <3>1
    <2>. QED
      BY <1>12, <2>1, <2>3, <2>4
  <1>15. CASE ForeignTask
    <2>1. UNCHANGED <<queue, st, top, exec, sched>>
      BY <1>15 DEF ForeignTask, loop
    <2>2. CASE request = top /\ SubEmpty(request)
      <3>1. top # None /\ (Succeed(top) \/ (Raise(top, "Error") /\ UNCHANGED armed))
        BY <1>15, <2>2 DEF ForeignTask
      <3>2. CASE Raise(top, "Error") /\ UNCHANGED armed
        <4>1. pc' = "unwind" /\ UNCHANGED <<queue, top>> /\ top # None
              /\ \A t \in Timer : armed'[t] \in {armed[t], None}
              /\ st'[top].limit = st[top].limit /\ st'[top].start = st[top].start
          BY <2>1, <3>1, <3>2 DEF Raise
        <4>. QED
          BY <4>1 DEF Quiet
      <3>. QED
        BY <1>12, <3>1, <3>2
    <2>3. CASE ~(request = top /\ SubEmpty(request))
      <3>1. UNCHANGED <<queue, st, top, exec, sched, armed, pc>>
        BY <1>15, <2>1, <2>3 DEF ForeignTask
      <3>. QED
        BY <3>1 DEF Quiet
    <2>. QED
      BY <2>2, <2>3
  <1>16. ASSUME NEW t \in Timer, TimerFire(t) PROVE Quiet'
    <2>1. /\ UNCHANGED <<queue, st, top>> /\ armed[t] = top /\ top # None
          /\ armed' = [armed EXCEPT ![t] = None]
      BY <1>16 DEF TimerFire, Quiet
    <2>2. pc' = "unwind"
      BY <1>16, <2>1 DEF TimerFire, Raise
    <2>3. \A u \in Timer : armed'[u] \in {armed[u], None}
      BY <1>0, <2>1
    <2>. QED
      BY <1>13, <2>1, <2>2, <2>3
  <1>. QED
    BY <1>1, <1>2, <1>4, <1>5, <1>6, <1>7, <1>8, <1>9, <1>10, <1>11, <1>14, <1>15,
       <1>16, Zenon DEF Next, Engine

----------------------------------------------------------------------------
(* A flow rests only where its user told it to.                             *)

Blocked == (pc = "exec" /\ ~sched) \/ (pc = "idle" /\ ~exec)

\* NoStall, and the same when the burst is about to end for that reason.
Rests ==
    Blocked /\ queue # <<>> /\ fatal = "" =>
        top # None /\ (Waiting(top) \/ request = top)

\* A burst goes on when the loops of the engine return to it.
Scheduled == in_exec /\ pc \in {"climb", "unwind"} => sched

\* Inside a burst, a walk finds the burst set to go on.
LEMMA ScheduledStep == ASSUME TreeInv, Scheduled, [Next]_vars PROVE Scheduled'
  <1>1. CASE UNCHANGED vars
    BY <1>1 DEF Scheduled, vars, loop
  <1>2. CASE RunStep
    <2>1. PICK f, n, a, w, t, end : Run(NextStep, f, n, a, w, t, end)
      BY <1>2, RunStepRuns DEF Runs
    <2>2. Outcome(NextStep, f, a, w, t, end)
      BY <1>2, <2>1, RunCases, Zenon
    <2>3. sched /\ pc = "exec"
      BY <1>2 DEF RunStep, MoreToRun
    <2>4. sched' = sched \/ sched' = TRUE \/ pc' = pc
      BY <2>2 DEF Outcome
    <2>. QED
      BY <2>3, <2>4 DEF Scheduled
  <1>3. CASE BeginBurst \/ EndBurst \/ UnwindRoot
    BY <1>3 DEF BeginBurst, EndBurst, UnwindRoot, Return, Scheduled
  <1>4. CASE pc \in {"climb", "unwind"} /\ UNCHANGED <<in_exec, sched>>
    BY <1>4 DEF Scheduled
  <1>5. CASE Climb \/ ClimbRoot \/ Unwind
    BY <1>4, <1>5 DEF Climb, ClimbRoot, Unwind, loop
  <1>6. CASE pc = "idle" /\ UNCHANGED in_exec
    BY <1>6 DEF TreeInv, Walk, Bursting, Scheduled
  <1>7. CASE ForeignCall
    BY <1>7 DEF ForeignCall, loop, Scheduled
  <1>8. CASE Execute \/ ExternalEvent \/ ForeignTask \/ Cancel
             \/ \E t \in Timer : TimerFire(t)
    BY <1>6, <1>8 DEF Execute, ExternalEvent, ForeignTask, Cancel, TimerFire, loop
  <1>. QED
    BY <1>1, <1>2, <1>3, <1>5, <1>7, <1>8, Zenon DEF Next, Engine

\* Where the engine schedules an execution and returns, the flow goes on.
LEMMA GoesOn ==
    ASSUME TreeInv, Scheduled, pc \in {"climb", "unwind"}, Schedule, Return,
           UNCHANGED loop
    PROVE  Rests'
  <1>1. CASE in_exec
    BY <1>1 DEF Scheduled, Return, loop, Rests, Blocked
  <1>2. CASE ~in_exec
    BY <1>2 DEF Schedule, Return, Rests, Blocked
  <1>. QED
    BY <1>1, <1>2

\* A handler leaves the flow to an event only when it asked for one.
LEMMA RestsRun ==
    ASSUME TreeInv, Untouched, Unheld, Quiet, RunStep PROVE Rests'
  <1> DEFINE s == NextStep
  <1>1. PICK f, n, a, w, t, end : Run(s, f, n, a, w, t, end)
    BY RunStepRuns DEF Runs
  <1>2. RunEffect(s, n, a, w, t, end)
    BY <1>1, RunEffects
  <1>3. Outcome(s, f, a, w, t, end)
    BY <1>1, RunCases, Zenon
  <1>4. top' = s /\ sched /\ pc = "exec"
    BY DEF RunStep, MoreToRun
  <1>5. s \in Step /\ s # None /\ st \in [Step -> Data] /\ Len(queue) \in Nat
        /\ armed \in [Timer -> Step \cup {None}]
    BY <1>2, TreeIsTyped DEF RunEffect, TreeInv, Types
  <1> HIDE DEF s
  <1>6. CASE pc' \in {"climb", "unwind"}
    BY <1>6 DEF Rests, Blocked
  <1>7. CASE pc' = "exec" /\ sched'
    BY <1>7 DEF Rests, Blocked
  <1>8. CASE pc' = "exec" /\ a = <<>> /\ end = "return" /\ Blocks(s, f, a, w, t, end)
    <2>1. st[s].on_cancel => w
      <3>1. st[s].on_cancel => st[s].ran
        BY <1>5 DEF Untouched
      <3>2. st[s].ran => st[s].loop # "no"
        BY <1>2 DEF RunEffect, Repeats
      <3>. QED
        BY <1>5, <3>1, <3>2 DEF Unheld
    <2>2. ~Limited(s)
      <3>1. st[s].limit \in Timer \cup {None}
        BY <1>5 DEF Data
      <3>. QED
        BY <1>4, <1>5, <3>1 DEF Quiet, Limited
    <2>3. After(s, f, a, w, t, end)[s].on_cancel \/ t # None
      BY <1>8, <2>2 DEF Blocks
    <2>4. st' = After(s, f, a, w, t, end)
      BY <1>3, Zenon DEF Outcome
    <2>5. st'[s].on_cancel \/ t # None
      BY <2>3, <2>4, Zenon
    <2>6. w \/ t # None
      BY <1>2, <2>1, <2>5 DEF RunEffect
    <2>7. st'[s].asked /\ st'[s].front = Len(queue) /\ Len(queue') = Len(queue)
      <3>1. n = 0
        BY <1>2, <1>8 DEF RunEffect
      <3>2. Len(queue') = Len(queue) + n /\ st'[s].front = Len(queue)
        BY <1>2 DEF RunEffect
      <3>3. st'[s].asked
        BY <1>2, <1>8, <2>6 DEF RunEffect
      <3>. QED
        BY <1>5, <3>1, <3>2, <3>3
    <2>. QED
      BY <1>4, <1>5, <2>7 DEF Rests, Waiting, SubEmpty
  <1>9. \/ pc' \in {"climb", "unwind"}
        \/ /\ pc' = pc /\ sched' = (a # <<>>) /\ end = "return"
           /\ a # <<>> \/ Blocks(s, f, a, w, t, end)
    BY <1>3, Zenon DEF Outcome
  <1>. QED
    BY <1>4, <1>6, <1>7, <1>8, <1>9

\* Every step of the engine leaves the flow with a reason to go on.
LEMMA RestsStep ==
    ASSUME TreeInv, Untouched, Unheld, Quiet, Scheduled, Rests, [Next]_vars PROVE Rests'
  <1>1. CASE UNCHANGED vars
    BY <1>1 DEF vars, flow, loop, Rests, Blocked, Waiting, SubEmpty
  <1>2. CASE RunStep
    BY <1>2, RestsRun
  <1>3. ASSUME pc' \in {"climb", "unwind"} \/ queue' = <<>> \/ fatal' # "" PROVE Rests'
    BY <1>3 DEF Rests, Blocked
  <1>4. CASE Execute
    <2>1. ~exec /\ ~in_exec /\ pc' = "idle"
      BY <1>4 DEF Execute, TreeInv, Walk, Bursting
    <2>2. exec' = TRUE
      BY <1>4, <2>1 DEF Execute, Schedule
    <2>. QED
      BY <2>1, <2>2 DEF Rests, Blocked
  <1>5. CASE Cancel \/ UnwindRoot
    BY <1>3, <1>5 DEF Cancel, UnwindRoot
  <1>6. CASE ExternalEvent
    BY <1>3, <1>6 DEF ExternalEvent, Succeed, Raise
  <1>7. CASE ForeignTask
    BY <1>3, <1>7 DEF ForeignTask, Succeed, Raise
  <1>8. ASSUME NEW t \in Timer, TimerFire(t) PROVE Rests'
    BY <1>3, <1>8 DEF TimerFire, Raise
  <1>9. CASE ForeignCall
    BY <1>9 DEF ForeignCall, Waiting, Rests
  <1>10. CASE BeginBurst
    BY <1>10 DEF BeginBurst, Rests, Blocked
  <1>11. CASE EndBurst
    <2>1. /\ UNCHANGED <<queue, st, top, request, fatal>> /\ pc = "exec"
          /\ pc' = "idle" /\ exec' = (sched /\ queue # <<>>)
      BY <1>11 DEF EndBurst, flow
    <2>. QED
      BY <2>1 DEF Rests, Blocked, Waiting, SubEmpty
  <1>12. CASE Climb
    <2>1. pc = "climb" /\ UNCHANGED loop /\ (pc' = pc \/ (Schedule /\ Return))
      BY <1>12 DEF Climb
    <2>. QED
      BY <1>3, <2>1, GoesOn
  <1>13. CASE ClimbRoot
    <2>1. pc = "climb" /\ UNCHANGED loop /\ Return /\ (queue' = <<>> \/ Schedule)
      BY <1>13 DEF ClimbRoot
    <2>. QED
      BY <1>3, <2>1, GoesOn
  <1>14. CASE Unwind
    <2>1. pc = "unwind" /\ UNCHANGED loop
          /\ (pc' = "climb" \/ pc' = pc \/ (Schedule /\ Return))
      BY <1>14 DEF Unwind, Recover, Substitute, Propagate, Override
    <2>. QED
      BY <1>3, <2>1, GoesOn
  <1>. QED
    BY <1>1, <1>2, <1>4, <1>5, <1>6, <1>7, <1>8, <1>9, <1>10, <1>11, <1>12, <1>13,
       <1>14, Zenon DEF Next, Engine

\* The mixes in which a wait or a timeout belongs to the innermost step.
OwnWaits == \A m \in Mixes : m \cap {"outer_timeout", "loop_wait"} = {}

\* Unless a loop step itself waits, or a step sets a timeout and adds sub-steps, a
\* flow with steps left rests only where its innermost step asked to.
THEOREM FlowsDoNotStall == ASSUME OwnWaits PROVE Spec => []NoStall
  <1> DEFINE Inv == /\ TreeInv /\ allow \in Mixes /\ Untouched /\ Unheld /\ Quiet
                    /\ Scheduled /\ Rests
  <1>1. Init => Inv
    <2> SUFFICES ASSUME Init PROVE Inv
      OBVIOUS
    <2>1. \A x \in Step : st[x] = Fresh
      BY DEF Init
    <2>2. Untouched /\ Unheld
      BY <2>1 DEF Untouched, Unheld, Fresh
    <2>3. Quiet /\ Scheduled /\ Rests
      BY DEF Init, Quiet, Scheduled, Rests
    <2>. QED
      BY <2>2, <2>3, TreeInit DEF Init
  <1>2. Inv /\ [Next]_vars => Inv'
    <2> SUFFICES ASSUME Inv, [Next]_vars PROVE Inv'
      OBVIOUS
    <2>1. "outer_timeout" \notin allow /\ "loop_wait" \notin allow
      BY DEF OwnWaits
    <2>2. TreeInv'
      BY TreeStep
    <2>3. allow' = allow
      BY DEF Next, Running, vars
    <2>4. Untouched' /\ Unheld'
      <3>1. CASE UNCHANGED vars
        BY <3>1 DEF vars, flow, Untouched, Unheld
      <3>2. CASE Next
        BY <2>1, <3>2, UntouchedStep, UnheldStep
      <3>. QED
        BY <3>1, <3>2
    <2>5. Quiet' /\ Scheduled' /\ Rests'
      BY <2>1, QuietStep, ScheduledStep, RestsStep
    <2>. QED
      BY <2>2, <2>3, <2>4, <2>5
  <1>3. Inv => NoStall
    BY DEF Rests, Blocked, NoStall
  <1>. QED
    BY <1>1, <1>2, <1>3, PTL DEF Spec

----------------------------------------------------------------------------
(* The library runs into no invalid call of its own.                        *)

\* A contract of the mix m.  A timeout belongs to the innermost step, an on_error
\* handler run by a timer does not call error(); and what another thread calls is
\* not overtaken by a timer, by cancel() or by the next execute().
Contract(m) ==
    /\ m \cap {"outer_timeout", "late_override"} = {}
    /\ "foreign" \in m => m \cap {"timeout", "cancel", "reuse"} = {}

\* While another thread may call, only a flow at rest has a step that waits, ...
Asked ==
    "foreign" \in allow =>
        \A x \in Step : st[x].asked => x = top /\ Blocked /\ SubEmpty(x)

\* ... and it still rests there when the call is executed.
Requested ==
    request # None => /\ request = top /\ Blocked /\ SubEmpty(top)
                      /\ ~st[top].asked /\ "foreign" \in allow

Timed == \A t \in Timer : armed[t] # None => "timeout" \in allow

Orderly == /\ fatal = "" /\ (pc # "idle" => ~exec)
           /\ Asked /\ Requested /\ Timed

\* Timers are armed only in mixes with timeouts.
LEMMA TimedStep ==
    ASSUME TreeInv, Timed, [Next]_vars, "outer_timeout" \notin allow PROVE Timed'
  <1>0. /\ allow' = allow /\ st \in [Step -> Data]
        /\ armed \in [Timer -> Step \cup {None}]
    BY DEF TreeInv, Types, Next, Running, vars
  <1>1. CASE armed' = armed \/ \E D : armed' = Disarm(D)
    BY <1>0, <1>1 DEF Timed, Disarm
  <1>2. CASE RunStep
    <2>1. PICK f, n, a, w, t, end : Run(NextStep, f, n, a, w, t, end)
      BY <1>2, RunStepRuns DEF Runs
    <2>2. Outcome(NextStep, f, a, w, t, end)
      BY <1>2, <2>1, RunCases, Zenon
    <2>3. armed' = Disarm({NextStep}) \/ armed' = armed
          \/ (t # None /\ armed' = [armed EXCEPT ![t] = NextStep])
      BY <2>2, Zenon DEF Outcome
    <2>4. t # None => "timeout" \in allow
      BY <2>1 DEF Run
    <2>. QED
      BY <1>0, <1>1, <2>3, <2>4 DEF Timed
  <1>3. ASSUME NEW t \in Timer, TimerFire(t) PROVE Timed'
    <2>1. armed' = [armed EXCEPT ![t] = None]
      BY <1>3 DEF TimerFire
    <2>. QED
      BY <1>0, <2>1 DEF Timed
  <1>4. CASE Execute \/ BeginBurst \/ EndBurst \/ ForeignCall \/ UNCHANGED vars
    BY <1>1, <1>4 DEF Execute, BeginBurst, EndBurst, ForeignCall, vars, flow
  <1>5. CASE Cancel \/ UnwindRoot \/ Unwind
    BY <1>1, <1>5 DEF Cancel, UnwindRoot, Unwind
  <1>6. CASE Climb \/ ClimbRoot
    BY <1>1, <1>6 DEF Climb, ClimbRoot
  <1>7. CASE ExternalEvent \/ ForeignTask
    BY <1>1, <1>7 DEF ExternalEvent, ForeignTask, Succeed
  <1>. QED
    BY <1>2, <1>3, <1>4, <1>5, <1>6, <1>7, Zenon DEF Next, Engine

\* While the flow runs, nobody has asked or called, and a step of the engine
\* leaves it so.
LEMMA NobodyCalls ==
    ASSUME TreeInv, Asked, Requested, ~Blocked, Next, ~RunStep
    PROVE  Asked' /\ Requested'
  <1>1. allow' = allow
    BY DEF Next, Running
  <1>2. "foreign" \in allow => \A x \in Step : ~st[x].asked
    BY DEF Asked
  <1>3. request = None
    BY DEF Requested
  <1>4. ~ForeignCall
    BY <1>2 DEF ForeignCall, Waiting, TreeInv, Types
  <1>5. request' = None
    BY <1>3, <1>4, Zenon DEF Next, Engine, Execute, BeginBurst, RunStep, EndBurst, Climb,
       ClimbRoot, Unwind, UnwindRoot, TimerFire, ExternalEvent, ForeignTask, Cancel
  <1>6. "foreign" \in allow => \A x \in Step : ~st'[x].asked
    <2>1. \A x \in Step : Follows(x)
      BY RecordsFollow
    <2>. QED
      BY <1>2, <2>1 DEF Follows, Keeps, IsNew
  <1>. QED
    BY <1>1, <1>5, <1>6 DEF Asked, Requested

\* After a handler, only the innermost step may be awaited.
LEMMA OrderlyRun ==
    ASSUME TreeInv, Quiet, Orderly, Contract(allow), "reuse" \notin allow => Stale, Next, RunStep
    PROVE  Asked' /\ Requested'
  <1> DEFINE s == NextStep
  <1>1. PICK f, n, a, w, t, end : Run(s, f, n, a, w, t, end)
    BY RunStepRuns DEF Runs
  <1>2. RunEffect(s, n, a, w, t, end)
    BY <1>1, RunEffects
  <1>3. Outcome(s, f, a, w, t, end)
    BY <1>1, RunCases, Zenon
  <1>4. top' = s /\ sched /\ pc = "exec" /\ queue # <<>> /\ request' = request
        /\ allow' = allow
    BY DEF RunStep, MoreToRun, Next, Running
  <1>5. t # None => "timeout" \in allow
    <2>1. "outer_timeout" \notin allow
      BY DEF Contract
    <2>. QED
      BY <1>1, <2>1, Zenon DEF Run
  <1> HIDE DEF s
  <1>6. Requested'
    BY <1>4 DEF Orderly, Requested, Blocked
  <1>7. ASSUME "foreign" \in allow, NEW x \in Step, st'[x].asked
        PROVE  x = s /\ Blocked' /\ SubEmpty(x)'
    <2>1. ~st[x].asked
      BY <1>4, <1>7 DEF Orderly, Asked, Blocked
    <2>2. x = s
      BY <1>2, <1>7, <2>1 DEF RunEffect, Keeps, IsNew
    <2>3. end = "return" /\ a = <<>> /\ (w \/ t # None)
      BY <1>2, <1>7, <2>2 DEF RunEffect
    <2>4. w /\ error_code = ""
      BY <1>4, <1>5, <1>7, <2>3 DEF Contract, Stale
    <2>5. Blocks(s, f, a, w, t, end)
      <3>1. st'[s].on_cancel
        BY <1>2, <2>4 DEF RunEffect
      <3>2. st' = After(s, f, a, w, t, end)
        BY <1>3, Zenon DEF Outcome
      <3>. QED
        BY <3>1, <3>2, Zenon DEF Blocks
    <2>6. pc' = pc /\ sched' = FALSE
      <3>1. pc' = pc /\ sched' = (a # <<>>)
        BY <1>3, <2>3, <2>4, <2>5 DEF Outcome
      <3>. QED
        BY <2>3, <3>1
    <2>7. st'[s].front = Len(queue) /\ Len(queue') = Len(queue)
      <3>1. n = 0 /\ Len(queue') = Len(queue) + n /\ st'[s].front = Len(queue)
            /\ Len(queue) \in Nat
        BY <1>2, <2>3, TreeIsTyped DEF RunEffect
      <3>. QED
        BY <3>1
    <2>. QED
      BY <1>4, <2>2, <2>6, <2>7 DEF Blocked, SubEmpty
  <1>. QED
    BY <1>4, <1>6, <1>7 DEF Asked

\* With nothing scheduled, scheduling is valid.
LEMMA ScheduleIsValid ==
    ASSUME ~exec, Schedule, in_exec \in BOOLEAN, UNCHANGED in_exec,
           fatal = "", Return
    PROVE  fatal' = "" /\ (pc' # "idle" => ~exec')
  BY DEF Schedule, Return

\* The step that waits to be called has nothing to run.
LEMMA RestingStep ==
    ASSUME TreeInv, pc = "idle", top # None, SubEmpty(top) PROVE ~exec
  <1>1. st \in [Step -> Data] /\ top \in Step /\ Len(queue) \in Nat
    BY TreeIsTyped DEF TreeInv, Types
  <1>2. queue # <<>>
    <2>1. Tree(queue, st, top) /\ top \in Path(queue, st, top)
      BY DEF TreeInv, Tip, Path
    <2>2. top \in Alive
      BY <2>1 DEF Tree, Levels, Alive, Elements
    <2>. QED
      BY <2>2 DEF Alive, Elements
  <1>3. FrontOf(st, top) = Len(queue)
    BY DEF FrontOf, SubEmpty
  <1>. QED
    BY <1>1, <1>2, <1>3 DEF TreeInv, Walk, Ready

\* Under the contract every step of the engine stays free of invalid calls.
LEMMA OrderlyStep ==
    ASSUME TreeInv, Quiet, Orderly, Contract(allow), "reuse" \notin allow => Stale,
           [Next]_vars
    PROVE  Orderly'
  <1>1. CASE UNCHANGED vars
    BY <1>1 DEF vars, flow, loop, Orderly, Asked, Requested, Timed, Blocked, SubEmpty
  <1> SUFFICES ASSUME Next PROVE Orderly'
    BY <1>1
  <1>2. Timed' /\ allow' = allow
    BY TimedStep DEF Orderly, Contract, Next, Running
  <1>3. in_exec \in BOOLEAN /\ fatal = "" /\ top \in Step \cup {None} /\ None \notin Step
        /\ (pc # "idle" => ~exec) /\ Asked /\ Requested
    BY StepsAssumption DEF TreeInv, Types, Orderly
  <1>4. ASSUME ~Blocked, ~RunStep, fatal' = "" /\ (pc' # "idle" => ~exec') PROVE Orderly'
    BY <1>2, <1>3, <1>4, NobodyCalls DEF Orderly
  <1>5. CASE RunStep
    <2>1. fatal' = "" /\ ~exec'
      BY <1>3, <1>5 DEF RunStep
    <2>. QED
      BY <1>2, <1>5, <2>1, OrderlyRun DEF Orderly
  <1>6. ASSUME pc \in {"climb", "unwind"}, UNCHANGED in_exec,
               \/ Schedule /\ Return
               \/ UNCHANGED <<exec, fatal>>
        PROVE  Orderly'
    <2>1. fatal' = "" /\ (pc' # "idle" => ~exec')
      <3>1. CASE Schedule /\ Return
        BY <1>3, <1>6, <3>1, ScheduleIsValid
      <3>2. CASE UNCHANGED <<exec, fatal>>
        BY <1>3, <1>6, <3>2
      <3>. QED
        BY <1>6, <3>1, <3>2
    <2>2. ~Blocked /\ ~RunStep
      BY <1>6 DEF Blocked, RunStep
    <2>. QED
      BY <1>4, <2>1, <2>2
  <1>7. CASE Climb \/ UnwindRoot
    BY <1>6, <1>7 DEF Climb, UnwindRoot, loop
  <1>8. CASE ClimbRoot
    <2>1. pc = "climb" /\ UNCHANGED in_exec /\ Return
          /\ (Schedule \/ UNCHANGED <<exec, fatal>>)
      BY <1>8 DEF ClimbRoot, loop
    <2>. QED
      BY <1>6, <2>1
  <1>9. CASE Unwind
    <2>1. pc = "unwind" /\ UNCHANGED in_exec
      BY <1>9 DEF Unwind, loop
    <2>2. (Schedule /\ Return) \/ UNCHANGED <<exec, fatal>>
      BY <1>9 DEF Unwind, Recover, Substitute, Propagate, Override, Contract
    <2>. QED
      BY <1>6, <2>1, <2>2
  <1>10. CASE BeginBurst
    <2>1. ~Blocked /\ ~RunStep /\ fatal' = "" /\ ~exec'
      BY <1>3, <1>10 DEF BeginBurst, Blocked, RunStep
    <2>. QED
      BY <1>4, <2>1
  <1>11. CASE EndBurst
    <2>1. /\ UNCHANGED <<queue, st, top, request, fatal>>
          /\ pc = "exec" /\ pc' = "idle" /\ (exec' => sched)
      BY <1>11 DEF EndBurst, flow
    <2>2. Blocked => Blocked'
      BY <2>1 DEF Blocked
    <2>3. Asked' /\ Requested'
      BY <1>2, <1>3, <2>1, <2>2 DEF Asked, Requested, SubEmpty
    <2>. QED
      BY <1>2, <1>3, <2>1, <2>3 DEF Orderly
  <1>12. CASE Execute
    <2>1. /\ top = None /\ ~exec /\ pc = "idle" /\ Schedule /\ UNCHANGED <<top, pc, request>>
      BY <1>12 DEF Execute
    <2>2. fatal' = "" /\ pc' = "idle" /\ request' = None
      BY <1>3, <2>1 DEF Schedule, Requested
    <2>3. "foreign" \in allow => \A x \in Step : ~st'[x].asked
      <3>1. "foreign" \in allow => \A x \in Step : ~st[x].asked
        BY <1>3, <2>1 DEF Asked
      <3>2. \A x \in Step : Follows(x)
        BY <1>12, <2>1, RecordsFollow DEF RunStep
      <3>. QED
        BY <3>1, <3>2 DEF Follows, Keeps, IsNew
    <2>. QED
      BY <1>2, <2>2, <2>3 DEF Orderly, Asked, Requested
  <1>13. CASE Cancel
    <2>1. "foreign" \notin allow /\ UNCHANGED <<pc, request, fatal>> /\ pc = "idle"
      BY <1>13 DEF Cancel, Contract
    <2>2. request' = None
      BY <1>3, <2>1 DEF Requested
    <2>. QED
      BY <1>2, <1>3, <2>1, <2>2 DEF Orderly, Asked, Requested
  <1>14. ASSUME pc = "idle", top # None, SubEmpty(top), UNCHANGED <<exec, fatal>>,
                request' = None,
                "foreign" \in allow => \A x \in Step : ~st'[x].asked
         PROVE  Orderly'
    <2>1. ~exec
      BY <1>14, RestingStep
    <2>. QED
      BY <1>2, <1>3, <1>14, <2>1 DEF Orderly, Asked, Requested
  <1>15. CASE ExternalEvent
    <2>1. /\ pc = "idle" /\ top # None /\ SubEmpty(top) /\ st[top].asked /\ top \in Step
          /\ UNCHANGED <<exec, fatal, request>> /\ st' = [st EXCEPT ![top].asked = FALSE]
      BY <1>3, <1>15 DEF ExternalEvent, Waiting
    <2>2. request' = None
      BY <1>3, <2>1 DEF Requested
    <2>3. "foreign" \in allow => \A x \in Step : ~st'[x].asked
      <3>1. \A x \in Step : x # top => st'[x] = st[x]
        BY <2>1, AskedFacts
      <3>2. ~st'[top].asked
        BY <2>1, AskedFacts
      <3>. QED
        BY <1>3, <3>1, <3>2 DEF Asked
    <2>. QED
      BY <1>14, <2>1, <2>2, <2>3
  <1>16. CASE ForeignTask
    <2>1. request # None /\ request' = None /\ pc = "idle" /\ UNCHANGED <<st, exec>>
      BY <1>16 DEF ForeignTask
    <2>2. request = top /\ SubEmpty(top) /\ ~st[top].asked
      BY <1>3, <2>1 DEF Requested
    <2>3. UNCHANGED fatal
      BY <1>16, <2>2 DEF ForeignTask
    <2>4. "foreign" \in allow => \A x \in Step : ~st'[x].asked
      BY <1>3, <2>1, <2>2 DEF Asked
    <2>. QED
      BY <1>14, <2>1, <2>2, <2>3, <2>4
  <1>17. CASE ForeignCall
    <2>1. /\ top \in Step /\ st[top].asked /\ request' = top /\ "foreign" \in allow
          /\ UNCHANGED <<queue, top, exec, sched, pc, fatal>>
          /\ st' = [st EXCEPT ![top].asked = FALSE]
      BY <1>3, <1>17 DEF ForeignCall, Waiting, loop
    <2>2. Blocked /\ SubEmpty(top) /\ \A x \in Step : st[x].asked => x = top
      BY <1>3, <2>1 DEF Asked
    <2>3. /\ \A x \in Step : x # top => st'[x] = st[x]
          /\ ~st'[top].asked /\ st'[top].front = st[top].front
      BY <2>1, AskedFacts
    <2>4. Asked'
      BY <2>1, <2>2, <2>3 DEF Asked
    <2>5. Requested'
      BY <1>2, <2>1, <2>2, <2>3 DEF Requested, Blocked, SubEmpty
    <2>. QED
      BY <1>2, <1>3, <2>1, <2>4, <2>5 DEF Orderly
  <1>18. ASSUME NEW t \in Timer, TimerFire(t) PROVE Orderly'
    <2>1. pc = "idle" /\ armed[t] # None /\ armed[t] = top /\ ~exec
      BY <1>18 DEF TimerFire, Quiet
    <2>2. UNCHANGED <<exec, fatal, request>>
      BY <1>18, <2>1 DEF TimerFire
    <2>3. "foreign" \notin allow
      BY <2>1 DEF Orderly, Timed, Contract
    <2>4. request' = None
      BY <1>3, <2>2, <2>3 DEF Requested
    <2>. QED
      BY <1>2, <1>3, <2>1, <2>2, <2>3, <2>4 DEF Orderly, Asked, Requested
  <1>. QED
    BY <1>5, <1>7, <1>8, <1>9, <1>10, <1>11, <1>12, <1>13, <1>15, <1>16, <1>17, <1>18,
       Zenon DEF Next, Engine

\* Under the contract the library never reports an invalid call of its own and never
\* uses a destroyed step.
THEOREM CallsAreValid ==
    ASSUME \A m \in Mixes : Contract(m) PROVE Spec => []NoInvalidCall
  <1> DEFINE Inv == /\ TreeInv /\ allow \in Mixes /\ Quiet /\ Orderly
                    /\ "reuse" \notin allow => Stale
  <1>1. Init => Inv
    <2> SUFFICES ASSUME Init PROVE Inv
      OBVIOUS
    <2>1. \A x \in Step : st[x] = Fresh
      BY DEF Init
    <2>2. Asked
      BY <2>1 DEF Asked, Fresh
    <2>3. Quiet /\ Stale /\ Orderly
      BY <2>2 DEF Init, Quiet, Stale, Orderly, Requested, Timed
    <2>. QED
      BY <2>3, TreeInit DEF Init
  <1>2. Inv /\ [Next]_vars => Inv'
    <2> SUFFICES ASSUME Inv, [Next]_vars PROVE Inv'
      OBVIOUS
    <2>1. Contract(allow) /\ "outer_timeout" \notin allow
      BY DEF Contract
    <2>2. TreeInv'
      BY TreeStep
    <2>3. allow' = allow
      BY DEF Next, Running, vars
    <2>4. Quiet' /\ Orderly'
      BY <2>1, QuietStep, OrderlyStep
    <2>5. "reuse" \notin allow => Stale'
      BY StaleStep
    <2>. QED
      BY <2>2, <2>3, <2>4, <2>5
  <1>3. Inv => NoInvalidCall
    BY DEF Orderly, NoInvalidCall
  <1>. QED
    BY <1>1, <1>2, <1>3, PTL DEF Spec

----------------------------------------------------------------------------
(* The objects of stack(), when a handler allocates them only for its own   *)
(* step: they lie in the order of the queue, of each step as many as it     *)
(* counts, so that to free the last steps is to cut off the last objects.   *)

\* The objects of the steps D are as many as these count together.
LEMMA CountedObjects ==
    ASSUME NEW T, allocs \in Seq(T), NEW D,
           \A s \in D : Cardinality({i \in DOMAIN allocs : allocs[i] = s}) = st[s].allocs
    PROVE  Cardinality(UNION {{s} \X (1 .. st[s].allocs) : s \in D})
               = Cardinality({i \in DOMAIN allocs : allocs[i] \in D})
  <1> DEFINE at(s) == {i \in DOMAIN allocs : allocs[i] = s}
             objects == {i \in DOMAIN allocs : allocs[i] \in D}
             counted == UNION {{s} \X (1 .. st[s].allocs) : s \in D}
             H == [s \in D |-> CHOOSE h : h \in Bijection(1 .. st[s].allocs, at(s))]
             b == [c \in counted |-> H[c[1]][c[2]]]
  <1>1. IsFiniteSet(objects) /\ \A s \in D : IsFiniteSet(at(s))
    <2>1. Len(allocs) \in Int /\ 1 \in Int /\ DOMAIN allocs = 1 .. Len(allocs)
      OBVIOUS
    <2>2. IsFiniteSet(DOMAIN allocs)
      BY <2>1, FS_Interval
    <2>3. objects \subseteq DOMAIN allocs /\ \A s \in D : at(s) \subseteq DOMAIN allocs
      OBVIOUS
    <2>. QED
      BY <2>2, <2>3, FS_Subset
  <1>2. ASSUME NEW s \in D PROVE H[s] \in Bijection(1 .. st[s].allocs, at(s))
    <2>1. ExistsBijection(1 .. st[s].allocs, at(s))
      BY <1>1, FS_CardinalityType
    <2>. QED
      BY <2>1 DEF ExistsBijection
  <1>3. \A c : c \in counted <=> \E s \in D : \E k \in 1 .. st[s].allocs : c = <<s, k>>
    OBVIOUS
  <1>4. \A s \in D : \A k \in 1 .. st[s].allocs : b[<<s, k>>] = H[s][k]
    BY <1>3
  <1> HIDE DEF H, b, counted
  <1>5. ASSUME NEW s \in D
        PROVE  /\ \A k \in 1 .. st[s].allocs : H[s][k] \in at(s)
               /\ \A k, l \in 1 .. st[s].allocs : H[s][k] = H[s][l] => k = l
               /\ \A i \in at(s) : \E k \in 1 .. st[s].allocs : H[s][k] = i
    <2>1. H[s] \in Injection(1 .. st[s].allocs, at(s))
          /\ H[s] \in Surjection(1 .. st[s].allocs, at(s))
      BY <1>2 DEF Bijection
    <2>. QED
      BY <2>1 DEF Injection, Surjection, IsInjective
  <1>6. b \in [counted -> objects]
    <2>1. \A c \in counted : b[c] \in objects
      BY <1>3, <1>4, <1>5
    <2>. QED
      BY <2>1 DEF b
  <1>7. ASSUME NEW c \in counted, NEW d \in counted, b[c] = b[d] PROVE c = d
    <2>1. PICK s \in D : \E k \in 1 .. st[s].allocs : c = <<s, k>>
      BY <1>3
    <2>2. PICK k \in 1 .. st[s].allocs : c = <<s, k>>
      BY <2>1
    <2>3. PICK r \in D : \E l \in 1 .. st[r].allocs : d = <<r, l>>
      BY <1>3
    <2>4. PICK l \in 1 .. st[r].allocs : d = <<r, l>>
      BY <2>3
    <2>5. H[s][k] = H[r][l]
      BY <1>4, <1>7, <2>2, <2>4
    <2>6. H[s][k] \in at(s) /\ H[r][l] \in at(r)
      BY <1>5
    <2>7. s = r
      BY <2>5, <2>6
    <2>8. k = l
      BY <1>5, <2>5, <2>7
    <2>. QED
      BY <2>2, <2>4, <2>7, <2>8
  <1>8. ASSUME NEW i \in objects PROVE \E c \in counted : b[c] = i
    <2>1. allocs[i] \in D /\ i \in at(allocs[i])
      OBVIOUS
    <2>2. PICK k \in 1 .. st[allocs[i]].allocs : H[allocs[i]][k] = i
      BY <1>5, <2>1
    <2>3. <<allocs[i], k>> \in counted
      BY <1>3, <2>1
    <2>. QED
      BY <1>4, <2>1, <2>2, <2>3
  <1>9. b \in Bijection(counted, objects)
    BY <1>6, <1>7, <1>8, Fun_IsBij
  <1>10. ExistsBijection(objects, counted)
    BY <1>9, Fun_ExistsBijSymmetric DEF ExistsBijection
  <1>11. Cardinality(counted) = Cardinality(objects)
    BY <1>1, <1>10, FS_Bijection
  <1>. QED
    BY <1>11 DEF counted

\* r is o without its end, which are all the objects of the steps D.
Cut(o, r, D) ==
    /\ r \in Seq(Step \cup {None}) /\ Len(r) <= Len(o)
    /\ \A i \in DOMAIN r : r[i] = o[i]
    /\ \A i \in DOMAIN o : o[i] \in D <=> i > Len(r)

\* When the objects of D are the last ones, Popped(D) frees exactly these.
LEMMA PoppedCuts ==
    ASSUME allocs \in Seq(Step \cup {None}), NEW D,
           \A s \in D : Cardinality({i \in DOMAIN allocs : allocs[i] = s}) = st[s].allocs,
           \A i, j \in DOMAIN allocs : i <= j /\ allocs[i] \in D => allocs[j] \in D
    PROVE  Cut(allocs, Popped(D), D)
  <1> DEFINE n == Len(allocs)
             objects == {i \in DOMAIN allocs : allocs[i] \in D}
  <1>1. n \in Nat /\ DOMAIN allocs = 1 .. n
    OBVIOUS
  <1>2. PICK m \in 0 .. n : objects = m + 1 .. n
    <2>1. CASE objects = {}
      <3>1. n \in 0 .. n /\ n + 1 .. n = {}
        BY <1>1
      <3>. QED
        BY <2>1, <3>1
    <2>2. CASE objects # {}
      <3>1. objects \subseteq Nat
        BY <1>1
      <3>2. PICK k \in objects : \A i \in objects : k <= i
        BY <2>2, <3>1, LeastNumber
      <3>3. k \in 1 .. n /\ allocs[k] \in D
        BY <1>1
      <3>4. objects = k .. n
        BY <1>1, <3>2, <3>3
      <3>5. k - 1 \in 0 .. n /\ (k - 1) + 1 = k
        BY <1>1, <3>3
      <3>. QED
        BY <3>4, <3>5
    <2>. QED
      BY <2>1, <2>2
  <1>3. Cardinality(objects) = n - m
    <2>1. m + 1 \in Int /\ n \in Int /\ m \in Int
      BY <1>1
    <2>2. Cardinality(m + 1 .. n) = IF m + 1 > n THEN 0 ELSE n - (m + 1) + 1
      BY <2>1, FS_Interval
    <2>5. \A k \in Nat : \A j \in 0 .. k :
             (IF j + 1 > k THEN 0 ELSE k - (j + 1) + 1) = k - j
      OBVIOUS
    <2>3. (IF m + 1 > n THEN 0 ELSE n - (m + 1) + 1) = n - m
      BY <1>1, <2>5, m \in 0 .. n, Zenon
    <2>4. Cardinality(objects) = Cardinality(m + 1 .. n)
      BY <1>2
    <2>. QED
      BY <2>2, <2>3, <2>4
  <1>4. Popped(D) = SubSeq(allocs, 1, m)
    <2>1. Cardinality(UNION {{s} \X (1 .. st[s].allocs) : s \in D}) = n - m
      BY <1>3, CountedObjects
    <2>2. n - (n - m) = m
      BY <1>1
    <2>. QED
      BY <2>1, <2>2 DEF Popped
  <1> DEFINE r == SubSeq(allocs, 1, m)
  <1>5. r \in Seq(Step \cup {None}) /\ Len(r) = m /\ DOMAIN r = 1 .. m
        /\ \A i \in 1 .. m : r[i] = allocs[i]
    BY <1>1
  <1>6. \A i \in DOMAIN allocs : allocs[i] \in D <=> i > m
    <2>1. \A i \in 1 .. n : i \in objects <=> i > m
      BY <1>1, <1>2
    <2>. QED
      BY <1>1, <2>1
  <1> HIDE DEF r
  <1>7. Cut(allocs, r, D)
    BY <1>1, <1>5, <1>6 DEF Cut
  <1>. QED
    BY <1>4, <1>7 DEF r

\* The objects o of the steps of the queue q, with the records f.
Ordered(o, q) ==
    \A i, j \in DOMAIN o :
        i <= j => \E a, b \in DOMAIN q : a <= b /\ q[a] = o[i] /\ q[b] = o[j]

Counts(o, q, f) ==
    \A x \in Elements(q) : Cardinality({i \in DOMAIN o : o[i] = x}) = f[x].allocs

Owned(o, q, f) ==
    /\ o \in Seq(Step \cup {None}) /\ Ordered(o, q) /\ Counts(o, q, f)
    /\ \A x \in Elements(q) : ~f[x].ran => f[x].allocs = 0

\* The queue r and the records g are q and f without the steps D, in the same
\* order, with new steps that own nothing.
Retained(q, f, D, r, g) ==
    /\ \A a, b \in DOMAIN q :
          a <= b /\ q[a] \notin D /\ q[b] \notin D =>
              \E c, d \in DOMAIN r : c <= d /\ r[c] = q[a] /\ r[d] = q[b]
    /\ \A x \in Elements(r) :
          IF x \in Elements(q) \ D
          THEN g[x].allocs = f[x].allocs /\ (f[x].ran => g[x].ran)
          ELSE g[x].allocs = 0

\* Behind a step of D, only steps of D own objects.
Last(D) ==
    \A a, b \in DOMAIN queue :
        a <= b /\ queue[a] \in D => queue[b] \in D \/ st[queue[b]].allocs = 0

\* The owner of an object is a live step.
LEMMA OwnersListed ==
    ASSUME NEW o, NEW q, Ordered(o, q), NEW i \in DOMAIN o, o \in Seq(Step \cup {None})
    PROVE  o[i] \in Elements(q)
  <1>1. i <= i
    OBVIOUS
  <1>. QED
    BY <1>1 DEF Ordered, Elements

\* A step that counts no object owns none.
LEMMA OwnsNothing ==
    ASSUME NEW o \in Seq(Step \cup {None}), NEW q, NEW f, Counts(o, q, f),
           NEW x \in Elements(q), f[x].allocs = 0
    PROVE  \A i \in DOMAIN o : o[i] # x
  <1> DEFINE at == {i \in DOMAIN o : o[i] = x}
  <1>1. IsFiniteSet(DOMAIN o)
    <2>1. Len(o) \in Int /\ 1 \in Int /\ DOMAIN o = 1 .. Len(o)
      OBVIOUS
    <2>. QED
      BY <2>1, FS_Interval
  <1>2. IsFiniteSet(at)
    BY <1>1, FS_Subset, at \subseteq DOMAIN o
  <1>3. Cardinality(at) = 0
    BY DEF Counts
  <1>4. at = {}
    BY <1>2, <1>3, FS_EmptySet
  <1>. QED
    BY <1>4

\* If the objects of the destroyed steps are cut off, the others keep theirs.
LEMMA OwnedCut ==
    ASSUME NEW o, NEW q, NEW f, Owned(o, q, f), NEW r, NEW D, Cut(o, r, D),
           NEW p, NEW g, Retained(q, f, D, p, g)
    PROVE  Owned(r, p, g)
  <1>1. /\ o \in Seq(Step \cup {None}) /\ r \in Seq(Step \cup {None})
        /\ Len(r) \in Nat /\ Len(o) \in Nat /\ Len(r) <= Len(o)
        /\ DOMAIN r = 1 .. Len(r) /\ DOMAIN o = 1 .. Len(o)
        /\ \A i \in DOMAIN r : r[i] = o[i]
        /\ \A i \in DOMAIN o : o[i] \in D <=> i > Len(r)
    BY DEF Owned, Cut
  <1>2. \A i \in DOMAIN r : i \in DOMAIN o /\ r[i] \notin D
    BY <1>1
  <1>3. Ordered(r, p)
    <2> SUFFICES ASSUME NEW i \in DOMAIN r, NEW j \in DOMAIN r, i <= j
                 PROVE  \E c, d \in DOMAIN p : c <= d /\ p[c] = r[i] /\ p[d] = r[j]
      BY DEF Ordered
    <2>1. PICK a, b \in DOMAIN q : a <= b /\ q[a] = o[i] /\ q[b] = o[j]
      BY <1>2 DEF Owned, Ordered
    <2>2. q[a] \notin D /\ q[b] \notin D /\ q[a] = r[i] /\ q[b] = r[j]
      BY <1>1, <1>2, <2>1
    <2>3. \E c, d \in DOMAIN p : c <= d /\ p[c] = q[a] /\ p[d] = q[b]
      BY <2>1, <2>2 DEF Retained
    <2>. QED
      BY <2>2, <2>3
  <1>4. ASSUME NEW x \in Elements(p)
        PROVE  Cardinality({i \in DOMAIN r : r[i] = x}) = g[x].allocs
    <2>1. CASE x \in Elements(q) \ D
      <3>1. {i \in DOMAIN r : r[i] = x} = {i \in DOMAIN o : o[i] = x}
        BY <1>1, <2>1
      <3>2. Cardinality({i \in DOMAIN o : o[i] = x}) = f[x].allocs
        BY <2>1 DEF Owned, Counts
      <3>3. g[x].allocs = f[x].allocs
        BY <2>1 DEF Retained
      <3>. QED
        BY <3>1, <3>2, <3>3
    <2>2. CASE x \notin Elements(q) \ D
      <3>1. \A i \in DOMAIN r : r[i] \in Elements(q) \ D
        BY <1>1, <1>2, OwnersListed DEF Owned
      <3>2. {i \in DOMAIN r : r[i] = x} = {}
        BY <2>2, <3>1
      <3>3. g[x].allocs = 0
        BY <2>2 DEF Retained
      <3>. QED
        BY <3>2, <3>3, FS_EmptySet
    <2>. QED
      BY <2>1, <2>2
  <1>5. \A x \in Elements(p) : ~g[x].ran => g[x].allocs = 0
    BY DEF Owned, Retained
  <1>. QED
    BY <1>1, <1>3, <1>4, <1>5 DEF Owned, Counts

\* Nothing is freed.
LEMMA OwnedStays ==
    ASSUME NEW o, NEW q, NEW f, Owned(o, q, f), NEW p, NEW g, Retained(q, f, {}, p, g)
    PROVE  Owned(o, p, g)
  <1>1. Cut(o, o, {})
    BY DEF Cut, Owned
  <1>. QED
    BY <1>1, OwnedCut

\* The objects of the steps D are freed.
LEMMA OwnedPopped ==
    ASSUME TreeInv, Owned(allocs, queue, st), NEW D, D \subseteq Alive, Last(D),
           NEW p, NEW g, Retained(queue, st, D, p, g)
    PROVE  Owned(Popped(D), p, g)
  <1>1. /\ allocs \in Seq(Step \cup {None}) /\ Ordered(allocs, queue)
        /\ Counts(allocs, queue, st)
    BY DEF Owned
  <1>2. \A s \in D : Cardinality({i \in DOMAIN allocs : allocs[i] = s}) = st[s].allocs
    BY <1>1 DEF Counts, Alive
  <1>3. ASSUME NEW i \in DOMAIN allocs, NEW j \in DOMAIN allocs, i <= j, allocs[i] \in D
        PROVE  allocs[j] \in D
    <2>1. PICK a, b \in DOMAIN queue :
             a <= b /\ queue[a] = allocs[i] /\ queue[b] = allocs[j]
      BY <1>1, <1>3 DEF Ordered
    <2>2. CASE queue[b] \in D
      BY <2>1, <2>2
    <2>3. CASE st[queue[b]].allocs = 0
      <3>1. queue[b] \in Elements(queue)
        BY DEF Elements
      <3>. QED
        BY <1>1, <2>1, <2>3, <3>1, OwnsNothing
    <2>. QED
      BY <1>3, <2>1, <2>2, <2>3 DEF Last
  <1>4. Cut(allocs, Popped(D), D)
    BY <1>1, <1>2, <1>3, PoppedCuts
  <1>. QED
    BY <1>4, OwnedCut

\* The records g are st where the step s starts a run, as far as objects go.
RunRecords(g, s) ==
    /\ \A x \in Step \ {s} : g[x].allocs = st[x].allocs /\ g[x].ran = st[x].ran
    /\ g[s].ran /\ g[s].allocs = IF IsLoop(s) THEN 0 ELSE st[s].allocs

\* When a handler is called, the steps behind its own own nothing.
LEMMA RestOwnsNothing ==
    ASSUME TreeInv, Owned(allocs, queue, st), pc = "exec", MoreToRun,
           NEW b \in DOMAIN queue, b > FrontOf(st, top) + 1
    PROVE  st[queue[b]].allocs = 0 /\ ~st[queue[b]].ran
  <1>1. Typed(queue, st, top) /\ Tree(queue, st, top)
    BY TreeIsTyped DEF Tip
  <1>2. ~st[queue[b]].ran /\ queue[b] \in Elements(queue)
    BY <1>1, RestIsNew DEF Elements
  <1>. QED
    BY <1>2 DEF Owned

\* loop_handler() frees the objects of the last iteration.
LEMMA OwnedAtStart ==
    ASSUME TreeInv, Owned(allocs, queue, st), pc = "exec", MoreToRun,
           NEW s, s = NextStep, NEW g, RunRecords(g, s)
    PROVE  Owned(Objects(s), queue, g)
  <1>1. /\ FrontOf(st, top) < Len(queue) /\ s \in Step /\ s \in Alive
        /\ s = queue[FrontOf(st, top) + 1] /\ queue \in Seq(Step)
        /\ Distinct(queue) /\ FrontOf(st, top) \in Nat
    <2>1. Typed(queue, st, top) /\ Tree(queue, st, top)
      BY TreeIsTyped DEF Tip
    <2>. QED
      BY <2>1, NextIsThere DEF Tree, Typed, FrontOf
  <1>2. FrontOf(st, top) + 1 \in DOMAIN queue
    BY <1>1
  <1>3. \A x \in Elements(queue) : x \in Step
    BY <1>1 DEF Elements
  <1>4. CASE IsLoop(s)
    <2>1. Last({s})
      <3> SUFFICES ASSUME NEW a \in DOMAIN queue, NEW b \in DOMAIN queue, a <= b,
                          queue[a] = s, queue[b] # s
                   PROVE  st[queue[b]].allocs = 0
        BY DEF Last
      <3>1. a = FrontOf(st, top) + 1
        BY <1>1, <1>2 DEF Distinct
      <3>2. b > FrontOf(st, top) + 1
        BY <1>1, <3>1
      <3>. QED
        BY <3>2, RestOwnsNothing
    <2>2. Retained(queue, st, {s}, queue, g)
      <3>1. \A x \in Elements(queue) :
               IF x \in Elements(queue) \ {s}
               THEN g[x].allocs = st[x].allocs /\ (st[x].ran => g[x].ran)
               ELSE g[x].allocs = 0
        BY <1>3, <1>4 DEF RunRecords
      <3>. QED
        BY <3>1 DEF Retained
    <2>3. Owned(Popped({s}), queue, g)
      BY <1>1, <2>1, <2>2, OwnedPopped
    <2>. QED
      BY <1>4, <2>3 DEF Objects
  <1>5. CASE ~IsLoop(s)
    <2>1. Retained(queue, st, {}, queue, g)
      <3>1. \A x \in Elements(queue) :
               g[x].allocs = st[x].allocs /\ (st[x].ran => g[x].ran)
        BY <1>3, <1>5 DEF RunRecords
      <3>. QED
        BY <3>1 DEF Retained
    <2>2. Owned(allocs, queue, g)
      BY <2>1, OwnedStays
    <2>. QED
      BY <1>5, <2>2 DEF Objects
  <1>. QED
    BY <1>4, <1>5

\* stack() in the handler of s puts an object at the end.
LEMMA OwnedAppended ==
    ASSUME TreeInv, Owned(allocs, queue, st), pc = "exec", MoreToRun,
           NEW s, s = NextStep, NEW o, NEW g \in [Step -> Data], RunRecords(g, s),
           Owned(o, queue, g), NEW h, h[s].allocs = g[s].allocs + 1, h[s].ran,
           \A x \in Step \ {s} : h[x] = g[x]
    PROVE  Owned(Append(o, s), queue, h)
  <1>1. /\ FrontOf(st, top) < Len(queue) /\ s \in Step /\ s \in Alive
        /\ s = queue[FrontOf(st, top) + 1] /\ queue \in Seq(Step)
        /\ FrontOf(st, top) \in Nat /\ Distinct(queue)
    <2>1. Typed(queue, st, top) /\ Tree(queue, st, top)
      BY TreeIsTyped DEF Tip
    <2>. QED
      BY <2>1, NextIsThere DEF Tree, Typed, FrontOf
  <1> DEFINE k == FrontOf(st, top) + 1
             p == Append(o, s)
  <1>2. k \in DOMAIN queue /\ queue[k] = s
    BY <1>1
  <1>3. /\ o \in Seq(Step \cup {None}) /\ Len(o) \in Nat /\ DOMAIN o = 1 .. Len(o)
        /\ p \in Seq(Step \cup {None}) /\ DOMAIN p = 1 .. Len(o) + 1
        /\ \A i \in 1 .. Len(o) : p[i] = o[i]
        /\ p[Len(o) + 1] = s
    BY <1>1 DEF Owned
  <1> HIDE DEF k, p
  <1>4. ASSUME NEW i \in DOMAIN o PROVE \E a \in DOMAIN queue : a <= k /\ queue[a] = o[i]
    <2>1. i <= i
      BY <1>3
    <2>2. PICK a, b \in DOMAIN queue : a <= b /\ queue[a] = o[i] /\ queue[b] = o[i]
      BY <2>1 DEF Owned, Ordered
    <2>3. ~(a > k)
      <3> SUFFICES ASSUME a > k PROVE FALSE
        OBVIOUS
      <3>1. st[queue[a]].allocs = 0
        BY RestOwnsNothing DEF k
      <3>2. queue[a] # s /\ queue[a] \in Step /\ queue[a] \in Elements(queue)
        BY <1>1, <1>2 DEF Distinct, Elements
      <3>3. g[queue[a]].allocs = 0
        BY <3>1, <3>2 DEF RunRecords
      <3>. QED
        BY <1>3, <2>2, <3>2, <3>3, OwnsNothing DEF Owned
    <2>4. a \in Int /\ k \in Int
      BY <1>1, <1>2
    <2>. QED
      BY <2>2, <2>3, <2>4
  <1>5. Ordered(p, queue)
    <2> SUFFICES ASSUME NEW i \in DOMAIN p, NEW j \in DOMAIN p, i <= j
                 PROVE  \E a, b \in DOMAIN queue : a <= b /\ queue[a] = p[i] /\ queue[b] = p[j]
      BY DEF Ordered
    <2>1. CASE j \in 1 .. Len(o)
      <3>1. i \in DOMAIN o /\ j \in DOMAIN o /\ p[i] = o[i] /\ p[j] = o[j]
        BY <1>3, <2>1
      <3>. QED
        BY <3>1 DEF Owned, Ordered
    <2>2. CASE j = Len(o) + 1 /\ i \in 1 .. Len(o)
      <3>1. p[j] = queue[k] /\ p[i] = o[i] /\ i \in DOMAIN o
        BY <1>2, <1>3, <2>2
      <3>2. PICK a \in DOMAIN queue : a <= k /\ queue[a] = o[i]
        BY <1>4, <3>1
      <3>. QED
        BY <1>2, <3>1, <3>2
    <2>3. CASE j = Len(o) + 1 /\ i = Len(o) + 1
      <3>1. p[i] = queue[k] /\ p[j] = queue[k] /\ k <= k
        BY <1>1, <1>2, <1>3, <2>3
      <3>. QED
        BY <1>2, <3>1
    <2>. QED
      BY <1>3, <2>1, <2>2, <2>3
  <1>6. Counts(p, queue, h)
    <2> SUFFICES ASSUME NEW x \in Elements(queue)
                 PROVE  Cardinality({i \in DOMAIN p : p[i] = x}) = h[x].allocs
      BY DEF Counts
    <2>1. Cardinality({i \in DOMAIN o : o[i] = x}) = g[x].allocs /\ x \in Step
      <3>1. x \in Step
        BY <1>1 DEF Elements
      <3>2. Counts(o, queue, g)
        BY DEF Owned
      <3>. QED
        BY <3>1, <3>2 DEF Counts
    <2>2. CASE x # s
      <3>1. {i \in DOMAIN p : p[i] = x} = {i \in DOMAIN o : o[i] = x}
        BY <1>3, <2>2
      <3>. QED
        BY <2>1, <2>2, <3>1
    <2>3. CASE x = s
      <3> DEFINE at == {i \in DOMAIN o : o[i] = x}
      <3>1. {i \in DOMAIN p : p[i] = x} = at \cup {Len(o) + 1}
        BY <1>3, <2>3
      <3>2. Len(o) + 1 \notin at
        BY <1>3
      <3>3. IsFiniteSet(at)
        <4>1. 1 \in Int /\ Len(o) \in Int
          BY <1>3
        <4>2. IsFiniteSet(1 .. Len(o))
          BY <4>1, FS_Interval
        <4>. QED
          BY <1>3, <4>2, FS_Subset, at \subseteq 1 .. Len(o)
      <3>4. Cardinality(at \cup {Len(o) + 1}) = Cardinality(at) + 1
        BY <3>2, <3>3, FS_AddElement
      <3>. QED
        BY <2>1, <2>3, <3>1, <3>4
    <2>. QED
      BY <2>2, <2>3
  <1>7. \A x \in Elements(queue) : ~h[x].ran => h[x].allocs = 0
    <2>1. \A x \in Elements(queue) : x \in Step
      BY <1>1 DEF Elements
    <2>. QED
      BY <2>1 DEF Owned
  <1>. QED
    BY <1>3, <1>5, <1>6, <1>7 DEF Owned, p

\* The handler ends, having added sub-steps.
LEMMA OwnedHandled ==
    ASSUME queue \in Seq(Step), NEW s \in Alive, NEW f \in [Step -> Data], NEW n \in Nat,
           NEW a \in Additions(n, Step \ Alive), NEW w \in BOOLEAN,
           NEW t \in Timer \cup {None}, NEW end, Handler(s, f, a, w, t, end),
           NEW o, Owned(o, queue, f)
    PROVE  Owned(o, queue', st')
  <1>1. Handled(s, f, a, w, t, end, st') /\ queue' = queue \o Ids(a)
    <2>1. Outcome(s, f, a, w, t, end)
      BY HandlerCases
    <2>2. st' = After(s, f, a, w, t, end) /\ queue' = queue \o Ids(a)
      BY <2>1, Zenon DEF Outcome
    <2>. QED
      BY <2>2, AfterFacts
  <1>2. /\ Len(queue \o Ids(a)) = Len(queue) + n /\ queue \o Ids(a) \in Seq(Step)
        /\ \A i \in 1 .. Len(queue) : (queue \o Ids(a))[i] = queue[i]
        /\ \A i \in 1 .. n : (queue \o Ids(a))[Len(queue) + i] = Ids(a)[i]
    BY QueueGrows
  <1>3. Ids(a) \in Seq(Step) /\ DOMAIN Ids(a) = 1 .. n
        /\ Elements(Ids(a)) \subseteq Step \ Alive
    BY AdditionsFacts, Step \ Alive \subseteq Step
  <1> DEFINE q == queue \o Ids(a)
  <1>4. Len(queue) \in Nat /\ DOMAIN queue = 1 .. Len(queue) /\ q \in Seq(Step)
        /\ DOMAIN q = 1 .. Len(queue) + n /\ Alive \subseteq Step
    BY <1>2 DEF Alive, Elements
  <1>5. \A i \in DOMAIN queue : i \in DOMAIN q /\ q[i] = queue[i]
    BY <1>2, <1>4
  <1>6. \A x \in Elements(q) : x \in Alive \/ x \in Elements(Ids(a))
    <2> SUFFICES ASSUME NEW i \in DOMAIN q PROVE q[i] \in Alive \/ q[i] \in Elements(Ids(a))
      BY DEF Elements
    <2>1. CASE i <= Len(queue)
      <3>1. i \in DOMAIN queue /\ q[i] = queue[i]
        BY <1>2, <1>4, <2>1
      <3>. QED
        BY <3>1 DEF Alive, Elements
    <2>2. CASE i > Len(queue)
      <3>1. i - Len(queue) \in 1 .. n /\ Len(queue) + (i - Len(queue)) = i
        BY <1>4, <2>2
      <3>2. q[i] = Ids(a)[i - Len(queue)]
        BY <1>2, <3>1
      <3>. QED
        BY <1>3, <3>1, <3>2 DEF Elements
    <2>. QED
      BY <1>4, <2>1, <2>2
  <1>7. \A x \in Alive : st'[x].allocs = f[x].allocs /\ st'[x].ran = f[x].ran
    BY <1>1, <1>3, <1>4 DEF Handled
  <1>8. \A x \in Elements(Ids(a)) : st'[x].allocs = 0 /\ x \notin Alive
    BY <1>1, <1>3 DEF Handled
  <1> HIDE DEF q
  <1>9. Retained(queue, f, {}, q, st')
    <2>1. \A x \in Elements(q) :
             IF x \in Elements(queue) \ {}
             THEN st'[x].allocs = f[x].allocs /\ (f[x].ran => st'[x].ran)
             ELSE st'[x].allocs = 0
      BY <1>6, <1>7, <1>8 DEF Alive
    <2>2. \A c, d \in DOMAIN queue :
             c <= d => \E i, j \in DOMAIN q : i <= j /\ q[i] = queue[c] /\ q[j] = queue[d]
      BY <1>5
    <2>. QED
      BY <2>1, <2>2 DEF Retained
  <1>10. Owned(o, q, st')
    BY <1>9, OwnedStays
  <1>. QED
    BY <1>1, <1>10 DEF q

\* What a handler allocates belongs to the innermost running step.
LEMMA OwnedRun ==
    ASSUME TreeInv, Owned(allocs, queue, st), RunStep, "outer_stack" \notin allow
    PROVE  Owned(allocs', queue', st')
  <1> DEFINE s == NextStep
             g == Started(s)
  <1>1. pc = "exec" /\ MoreToRun
    BY DEF RunStep
  <1>2. s \in Alive /\ s \in Step
    BY <1>1, NextIsThere
  <1>3. queue \in Seq(Step) /\ st \in [Step -> Data]
    BY TreeIsTyped
  <1>4. g \in [Step -> Data] /\ RunRecords(g, s) /\ s = NextStep
    <2>1. /\ g \in [Step -> Data] /\ \A x \in Step \ {s} : g[x] = st[x]
          /\ g[s].ran /\ g[s].allocs = IF IsLoop(s) THEN 0 ELSE st[s].allocs
      BY <1>2, <1>3, StartedFacts
    <2>. QED
      BY <2>1 DEF RunRecords
  <1>5. None \in Timer \cup {None} /\ FALSE \in BOOLEAN /\ 0 \in Nat
        /\ <<>> \in Additions(0, Step \ Alive)
    BY NoAdditions
  <1> HIDE DEF s, g
  <1>6. Owned(Objects(s), queue, g)
    BY <1>1, <1>4, OwnedAtStart
  <1>7. ASSUME NEW l \in {"stop", "poll", "done"}, NEW end, allocs' = Objects(s),
               Handler(s, [g EXCEPT ![s].loop = l], <<>>, FALSE, None, end)
        PROVE  Owned(allocs', queue', st')
    <2> DEFINE f == [g EXCEPT ![s].loop = l]
    <2>1. /\ f[s] = [g[s] EXCEPT !.loop = l] /\ g[s] \in Data
          /\ \A x \in Step \ {s} : f[x] = g[x]
      BY <1>2, <1>4
    <2>2. f[s] \in Data /\ f[s].ran = g[s].ran /\ f[s].allocs = g[s].allocs
      BY <2>1, LoopSet DEF Data
    <2>3. f \in [Step -> Data]
      BY <1>2, <1>4, <2>1, <2>2
    <2>4. Handler(s, f, <<>>, FALSE, None, end)
      BY <1>7
    <2> HIDE DEF f
    <2>5. RunRecords(f, s)
      BY <1>4, <2>1, <2>2 DEF RunRecords
    <2>6. Owned(Objects(s), queue, f)
      BY <1>1, <1>4, <2>5, OwnedAtStart
    <2>7. Owned(Objects(s), queue', st')
      BY <1>2, <1>3, <1>5, <2>3, <2>4, <2>6, OwnedHandled
    <2>. QED
      BY <1>7, <2>7
  <1>8. CASE AwaitHandler(s) /\ st[s].loop \in {"poll", "done"}
    <2>1. PICK l \in {"poll", "done"}, end \in {"return", "Error"} :
             Handler(s, [g EXCEPT ![s].loop = l], <<>>, FALSE, None, end)
      BY <1>8 DEF AwaitHandler, g
    <2>2. allocs' = Objects(s)
      BY <1>8 DEF AwaitHandler, Objects, IsLoop
    <2>. QED
      BY <1>7, <2>1, <2>2
  <1>9. CASE LoopEnds(s)
    <2>1. allocs' = Objects(s)
          /\ Handler(s, [g EXCEPT ![s].loop = "stop"], <<>>, FALSE, None, "return")
      BY <1>9 DEF LoopEnds, g
    <2>. QED
      BY <1>7, <2>1
  <1>10. CASE UserHandler(s)
    <2>1. PICK n \in 0 .. MaxSub, w \in BOOLEAN, t \in {None} \cup Timer,
               end \in {"return", "success"} \cup Codes :
             \E a \in Additions(n, Step \ Alive) :
                \/ /\ allocs' = Objects(s)
                   /\ Handler(s, Started(s), a, w, t, end)
                \/ \E o \in Allocators(s) :
                      /\ allocs' = Append(Objects(s), o)
                      /\ Handler(s, Counted(Started(s), o), a, w, t, end)
      BY <1>10, Zenon DEF UserHandler
    <2>2. PICK a \in Additions(n, Step \ Alive) :
             \/ /\ allocs' = Objects(s)
                /\ Handler(s, Started(s), a, w, t, end)
             \/ \E o \in Allocators(s) :
                   /\ allocs' = Append(Objects(s), o)
                   /\ Handler(s, Counted(Started(s), o), a, w, t, end)
      BY <2>1
    <2>3. n \in Nat /\ w \in BOOLEAN /\ t \in Timer \cup {None}
      BY StepsAssumption
    <2>4. ASSUME NEW f \in [Step -> Data], Handler(s, f, a, w, t, end), NEW o,
                 Owned(o, queue, f), allocs' = o
          PROVE  Owned(allocs', queue', st')
      <3>1. Owned(o, queue', st')
        BY <1>2, <1>3, <2>3, <2>4, OwnedHandled
      <3>. QED
        BY <2>4, <3>1
    <2>5. CASE allocs' = Objects(s) /\ Handler(s, Started(s), a, w, t, end)
      BY <1>4, <1>6, <2>4, <2>5 DEF g
    <2>6. CASE /\ s \in Allocators(s) /\ allocs' = Append(Objects(s), s)
               /\ Handler(s, Counted(Started(s), s), a, w, t, end)
      <3> DEFINE h == [g EXCEPT ![s].allocs = @ + 1]
      <3>1. Counted(Started(s), s) = h
        BY <1>2, StepsAssumption DEF Counted, g
      <3>2. Handler(s, h, a, w, t, end)
        BY <2>6, <3>1
      <3>3. /\ h[s] = [g[s] EXCEPT !.allocs = g[s].allocs + 1] /\ g[s] \in Data
            /\ \A x \in Step \ {s} : h[x] = g[x]
        BY <1>2, <1>4
      <3>4. h[s] \in Data /\ h[s].ran = g[s].ran /\ h[s].allocs = g[s].allocs + 1
        BY <3>3 DEF Data
      <3>5. h \in [Step -> Data]
        BY <1>2, <1>4, <3>3, <3>4
      <3>6. g[s].ran
        BY <1>4 DEF RunRecords
      <3> HIDE DEF h
      <3>7. Owned(Append(Objects(s), s), queue, h)
        BY <1>1, <1>4, <1>6, <3>3, <3>4, <3>6, OwnedAppended
      <3>. QED
        BY <2>4, <2>6, <3>2, <3>5, <3>7
    <2>7. Allocators(s) \subseteq {s}
      BY DEF Allocators
    <2>. QED
      BY <2>2, <2>5, <2>6, <2>7
  <1>11. \/ AwaitHandler(s) /\ st[s].loop \in {"poll", "done"}
         \/ UserHandler(s) \/ LoopEnds(s)
    BY DEF RunStep, s
  <1>. QED
    BY <1>8, <1>9, <1>10, <1>11

\* A level's sub-steps are destroyed, in q the steps after Kept are new.
LEMMA LevelOwned ==
    ASSUME TreeInv, Owned(allocs, queue, st), Tip = cur, cur # None,
           NEW q \in Seq(Step), NEW g,
           \A i \in 1 .. Len(Kept) : i \in DOMAIN q /\ q[i] = Kept[i],
           \A x \in Elements(Kept) : g[x].allocs = st[x].allocs /\ g[x].ran = st[x].ran,
           \A x \in Elements(q) \ Elements(Kept) : g[x].allocs = 0
    PROVE  Owned(Popped(Subs(cur)), q, g)
  <1> DEFINE k == st[cur].start
  <1>1. /\ queue \in Seq(Step) /\ DOMAIN queue = 1 .. Len(queue) /\ Len(queue) \in Nat
        /\ Elements(Kept) \cap Subs(cur) = {} /\ k \in Nat /\ Len(Kept) = k
        /\ Kept \in Seq(Step) /\ k <= Len(queue)
    <2>1. Tree(queue, st, cur) /\ queue \in Seq(Step) /\ cur \in Path(queue, st, cur)
      BY TreeIsTyped DEF Path
    <2>2. k <= Len(queue)
      BY <2>1 DEF Tree, Levels
    <2>. QED
      BY <2>1, <2>2, LevelFacts
  <1> HIDE DEF k
  <1>2. DOMAIN Kept = 1 .. k /\ \A i \in 1 .. k : Kept[i] = queue[i]
    BY <1>1 DEF Kept, k
  <1>3. Subs(cur) = {queue[i] : i \in k + 1 .. Len(queue)}
    BY DEF Subs, k
  <1>4. Subs(cur) \subseteq Alive
    BY <1>1, <1>3 DEF Alive, Elements
  <1>5. ASSUME NEW a \in DOMAIN queue PROVE queue[a] \in Subs(cur) <=> a > k
    <2>1. a > k => queue[a] \in Subs(cur)
      BY <1>1, <1>3
    <2>2. a <= k => queue[a] \in Elements(Kept)
      BY <1>1, <1>2 DEF Elements
    <2>. QED
      BY <1>1, <2>1, <2>2
  <1>6. Last(Subs(cur))
    BY <1>1, <1>5 DEF Last
  <1>7. Elements(queue) \ Subs(cur) = Elements(Kept)
    <2>1. \A x \in Elements(queue) \ Subs(cur) : x \in Elements(Kept)
      BY <1>1, <1>2, <1>5 DEF Elements
    <2>2. \A x \in Elements(Kept) : x \in Elements(queue)
      BY <1>1, <1>2 DEF Elements
    <2>. QED
      BY <1>1, <2>1, <2>2
  <1>8. Retained(queue, st, Subs(cur), q, g)
    <2>1. ASSUME NEW a \in DOMAIN queue, NEW b \in DOMAIN queue, a <= b,
                 queue[a] \notin Subs(cur), queue[b] \notin Subs(cur)
          PROVE  \E c, d \in DOMAIN q : c <= d /\ q[c] = queue[a] /\ q[d] = queue[b]
      <3>1. a \in 1 .. k /\ b \in 1 .. k
        BY <1>1, <1>5, <2>1
      <3>2. a \in DOMAIN q /\ b \in DOMAIN q /\ q[a] = queue[a] /\ q[b] = queue[b]
        BY <1>1, <1>2, <3>1
      <3>. QED
        BY <2>1, <3>2
    <2>2. \A x \in Elements(q) :
             IF x \in Elements(queue) \ Subs(cur)
             THEN g[x].allocs = st[x].allocs /\ (st[x].ran => g[x].ran)
             ELSE g[x].allocs = 0
      BY <1>7
    <2>. QED
      BY <2>1, <2>2, Zenon DEF Retained
  <1>. QED
    BY <1>4, <1>6, <1>8, OwnedPopped

\* Climbing frees the objects of the levels it leaves.
LEMMA OwnedClimb ==
    ASSUME TreeInv, Owned(allocs, queue, st), Climb PROVE Owned(allocs', queue', st')
  <1> DEFINE n == Shifted(cur)
  <1>1. pc = "climb" /\ cur # None /\ Tip = cur /\ cur \in Step
    BY DEF Climb, Tip, TreeInv, Types
  <1>2. st \in [Step -> Data] /\ queue \in Seq(Step)
    BY TreeIsTyped
  <1>3. n \in Nat
    BY <1>1, <1>2 DEF Shifted, Data
  <1>4. CASE n # Len(queue)
    <2>1. st' = [st EXCEPT ![cur].front = n] /\ UNCHANGED <<queue, allocs>>
      BY <1>4 DEF Climb
    <2> HIDE DEF n
    <2>2. \A x \in Step : st'[x].allocs = st[x].allocs /\ st'[x].ran = st[x].ran
      BY <1>1, <1>2, <1>3, <2>1, FrontSetFacts
    <2>3. \A x \in Elements(queue) : x \in Step
      BY <1>2 DEF Elements
    <2>4. Retained(queue, st, {}, queue, st')
      BY <2>2, <2>3 DEF Retained
    <2>5. Owned(allocs, queue, st')
      BY <2>4, OwnedStays
    <2>. QED
      BY <2>1, <2>5
  <1>5. CASE n = Len(queue)
    <2> DEFINE f == Destroy(st, Subs(cur))
    <2>1. /\ queue' = Kept /\ allocs' = Popped(Subs(cur))
          /\ st' = [f EXCEPT ![cur].front = n]
      BY <1>5 DEF Climb, Kept
    <2> HIDE DEF n
    <2>2. /\ Elements(Kept) \subseteq Step /\ Elements(Kept) \cap Subs(cur) = {}
          /\ Kept \in Seq(Step) /\ DOMAIN Kept = 1 .. Len(Kept)
      BY <1>1, LevelFacts
    <2>3. f \in [Step -> Data] /\ \A x \in Elements(Kept) : f[x] = st[x]
      BY <1>2, <2>2, DestroyFacts
    <2> HIDE DEF f
    <2>4. \A x \in Step : st'[x].allocs = f[x].allocs /\ st'[x].ran = f[x].ran
      BY <1>1, <1>3, <2>1, <2>3, FrontSetFacts
    <2>5. Owned(Popped(Subs(cur)), Kept, st')
      BY <1>1, <2>2, <2>3, <2>4, LevelOwned
    <2>. QED
      BY <2>1, <2>5
  <1>. QED
    BY <1>4, <1>5

\* So does the root level.
LEMMA OwnedClimbRoot ==
    ASSUME TreeInv, Owned(allocs, queue, st), ClimbRoot PROVE Owned(allocs', queue', st')
  <1>1. pc = "climb" /\ cur = None /\ Tip = None
    BY DEF ClimbRoot, Tip
  <1>2. /\ Typed(queue, st, None) /\ Tree(queue, st, None) /\ Distinct(queue)
        /\ queue \in Seq(Step) /\ Len(queue) \in Nat /\ DOMAIN queue = 1 .. Len(queue)
        /\ st \in [Step -> Data] /\ FrontOf(st, None) = 0
    BY <1>1, TreeIsTyped DEF FrontOf, Tree
  <1>3. 0 < Len(queue) /\ queue # <<>> /\ Head(queue) = queue[1] /\ 1 \in DOMAIN queue
    BY <1>1, <1>2 DEF TreeInv, Walk, Climbing
  <1>4. CASE Repeats(Head(queue))
    BY <1>4 DEF ClimbRoot
  <1>5. CASE ~Repeats(Head(queue))
    <2>1. /\ queue' = Tail(queue) /\ st' = Destroy(st, {queue[1]})
          /\ allocs' = Popped({queue[1]})
      BY <1>3, <1>5 DEF ClimbRoot
    <2> DEFINE r == Tail(queue)
    <2>2. /\ r \in Seq(Step) /\ DOMAIN r = 1 .. Len(queue) - 1
          /\ \A i \in DOMAIN r : r[i] = queue[i + 1] /\ i + 1 \in DOMAIN queue
      BY <1>2, <1>3
    <2> HIDE DEF r
    <2>3. \A i \in DOMAIN queue : queue[i] = queue[1] <=> i = 1
      BY <1>2, <1>3 DEF Distinct
    <2>4. Last({queue[1]})
      <3> SUFFICES ASSUME NEW a \in DOMAIN queue, NEW b \in DOMAIN queue, a <= b,
                          queue[a] = queue[1], queue[b] # queue[1]
                   PROVE  st[queue[b]].allocs = 0
        BY DEF Last
      <3>1. b > FrontOf(st, None) + 1
        BY <1>2, <2>3
      <3>2. ~st[queue[b]].ran /\ queue[b] \in Elements(queue)
        BY <1>2, <3>1, RestIsNew DEF Elements
      <3>. QED
        BY <3>2 DEF Owned
    <2>5. \A x \in Elements(r) : x \in Elements(queue) \ {queue[1]} /\ st'[x] = st[x]
      <3> SUFFICES ASSUME NEW i \in DOMAIN r
                   PROVE  /\ r[i] \in Elements(queue) /\ r[i] # queue[1]
                          /\ st'[r[i]] = st[r[i]]
        BY DEF Elements
      <3>1. r[i] = queue[i + 1] /\ i + 1 \in DOMAIN queue /\ i + 1 # 1
        BY <1>2, <2>2
      <3>2. queue[i + 1] # queue[1] /\ queue[i + 1] \in Step
        BY <1>2, <2>3, <3>1
      <3>3. st'[queue[i + 1]] = st[queue[i + 1]]
        BY <1>2, <2>1, <3>2, DestroyFacts
      <3>. QED
        BY <3>1, <3>2, <3>3 DEF Elements
    <2>6. Retained(queue, st, {queue[1]}, r, st')
      <3>1. ASSUME NEW a \in DOMAIN queue, NEW b \in DOMAIN queue, a <= b,
                   queue[a] \notin {queue[1]}, queue[b] \notin {queue[1]}
            PROVE  \E c, d \in DOMAIN r : c <= d /\ r[c] = queue[a] /\ r[d] = queue[b]
        <4>1. a # 1 /\ b # 1
          BY <2>3, <3>1
        <4>2. /\ a - 1 \in DOMAIN r /\ b - 1 \in DOMAIN r /\ a - 1 <= b - 1
              /\ (a - 1) + 1 = a /\ (b - 1) + 1 = b
          BY <1>2, <2>2, <3>1, <4>1
        <4>3. r[a - 1] = queue[a] /\ r[b - 1] = queue[b]
          BY <2>2, <4>2
        <4>. QED
          BY <4>2, <4>3
      <3>2. \A x \in Elements(r) :
               IF x \in Elements(queue) \ {queue[1]}
               THEN st'[x].allocs = st[x].allocs /\ (st[x].ran => st'[x].ran)
               ELSE st'[x].allocs = 0
        BY <2>5
      <3>. QED
        BY <3>1, <3>2, Zenon DEF Retained
    <2>7. {queue[1]} \subseteq Alive
      BY <1>3 DEF Alive, Elements
    <2>8. Owned(Popped({queue[1]}), r, st')
      BY <2>4, <2>6, <2>7, OwnedPopped
    <2>. QED
      BY <2>1, <2>8 DEF r
  <1>. QED
    BY <1>4, <1>5

\* Unwinding frees the objects of the level it drops.
LEMMA OwnedUnwind ==
    ASSUME TreeInv, Owned(allocs, queue, st), Unwind PROVE Owned(allocs', queue', st')
  <1> DEFINE f == Unwound
  <1>1. pc = "unwind" /\ cur # None /\ Tip = cur /\ cur \in Step
        /\ allocs' = Popped(Subs(cur))
    BY DEF Unwind, Tip, TreeInv, Types
  <1>2. /\ f \in [Step -> Data]
        /\ \A x \in Elements(Kept) : f[x].allocs = st[x].allocs /\ f[x].ran = st[x].ran
    BY <1>1, UnwoundFacts
  <1>3. /\ Elements(Kept) \subseteq Step /\ Kept \in Seq(Step)
        /\ DOMAIN Kept = 1 .. Len(Kept) /\ Len(Kept) \in Nat
    BY <1>1, LevelFacts
  <1>4. f = Unwound
    OBVIOUS
  <1> HIDE DEF f
  <1>5. ASSUME queue' = Kept,
               \A x \in Step : st'[x].allocs = f[x].allocs /\ st'[x].ran = f[x].ran
        PROVE  Owned(allocs', queue', st')
    <2>1. \A i \in 1 .. Len(Kept) : i \in DOMAIN Kept /\ Kept[i] = Kept[i]
      BY <1>3
    <2>2. \A x \in Elements(Kept) : st'[x].allocs = st[x].allocs /\ st'[x].ran = st[x].ran
      BY <1>2, <1>3, <1>5
    <2>3. Owned(Popped(Subs(cur)), Kept, st')
      BY <1>1, <1>3, <2>1, <2>2, LevelOwned
    <2>. QED
      BY <1>1, <1>5, <2>3
  <1>6. ASSUME NEW l, st' = [f EXCEPT ![cur].loop = l], queue' = Kept
        PROVE  Owned(allocs', queue', st')
    <2>1. /\ st'[cur] = [f[cur] EXCEPT !.loop = l] /\ f[cur] \in Data
          /\ \A x \in Step \ {cur} : st'[x] = f[x]
      BY <1>1, <1>2, <1>6
    <2>2. st'[cur].allocs = f[cur].allocs /\ st'[cur].ran = f[cur].ran
      BY <2>1 DEF Data
    <2>. QED
      BY <1>5, <1>6, <2>1, <2>2
  <1>7. CASE Recover(f)
    BY <1>6, <1>7 DEF Recover
  <1>8. CASE Propagate(f)
    <2>1. st' = [f EXCEPT ![cur].loop =
                    IF st[cur].on_error THEN LoopAfter(f[cur].loop, FALSE)
                                        ELSE f[cur].loop] /\ queue' = Kept
      BY <1>8 DEF Propagate
    <2>. QED
      BY <1>6, <2>1
  <1>9. CASE Override(f)
    BY <1>5, <1>9 DEF Override
  <1>10. CASE Substitute(f)
    <2>1. PICK n \in 1 .. MaxSub : \E a \in Additions(n, Step \ Elements(Kept)) :
             queue' = Kept \o Ids(a) /\ st' = Construct(f, cur, a)
      BY <1>10 DEF Substitute
    <2>2. PICK a \in Additions(n, Step \ Elements(Kept)) :
             queue' = Kept \o Ids(a) /\ st' = Construct(f, cur, a)
      BY <2>1
    <2>3. n \in Nat /\ Step \ Elements(Kept) \subseteq Step
      BY StepsAssumption
    <2> DEFINE r == Ids(a)
               q == Kept \o r
    <2>4. r \in Seq(Step) /\ Len(r) = n /\ DOMAIN r = 1 .. n
          /\ Elements(r) \subseteq Step \ Elements(Kept)
      BY <2>3, AdditionsFacts
    <2>5. /\ \A x \in Step \ Elements(r) : st'[x] = f[x]
          /\ \A x \in Elements(r) : st'[x].allocs = 0
      <3>1. f \in [Step -> Data] /\ cur \in Step \cup {None}
        BY <1>1, <1>2
      <3>2. /\ \A x \in Step \ Elements(Ids(a)) : Construct(f, cur, a)[x] = f[x]
            /\ \A x \in Elements(Ids(a)) : Construct(f, cur, a)[x].allocs = 0
        BY <2>3, <3>1, ConstructFacts
      <3>. QED
        BY <2>2, <3>2
    <2> HIDE DEF r
    <2>6. /\ q \in Seq(Step) /\ Len(q) = Len(Kept) + n
          /\ \A i \in 1 .. Len(Kept) : q[i] = Kept[i]
          /\ \A i \in 1 .. n : q[Len(Kept) + i] = r[i]
      <3>1. /\ q \in Seq(Step) /\ Len(q) = Len(Kept) + Len(r)
            /\ \A i \in 1 .. Len(Kept) : q[i] = Kept[i]
            /\ \A i \in 1 .. Len(r) : q[Len(Kept) + i] = r[i]
        <4>1. Kept \in Seq(Step) /\ r \in Seq(Step)
          BY <1>3, <2>4
        <4>. QED
          BY <4>1, Joined
      <3>. QED
        BY <2>4, <3>1
    <2>7. queue' = q
      BY <2>2 DEF r
    <2> HIDE DEF q
    <2>8. \A i \in 1 .. Len(Kept) : i \in DOMAIN q /\ q[i] = Kept[i]
      BY <1>3, <2>3, <2>6
    <2>9. \A x \in Elements(q) : x \in Elements(Kept) \/ x \in Elements(r)
      <3> SUFFICES ASSUME NEW i \in DOMAIN q PROVE q[i] \in Elements(Kept) \cup Elements(r)
        BY DEF Elements
      <3>1. i \in 1 .. Len(Kept) + n
        BY <2>6
      <3>2. CASE i <= Len(Kept)
        BY <1>3, <2>6, <3>1, <3>2 DEF Elements
      <3>3. CASE i > Len(Kept)
        <4>1. i - Len(Kept) \in 1 .. n /\ Len(Kept) + (i - Len(Kept)) = i
          BY <1>3, <2>3, <3>1, <3>3
        <4>2. q[i] = r[i - Len(Kept)]
          BY <2>6, <4>1
        <4>. QED
          BY <2>4, <4>1, <4>2 DEF Elements
      <3>. QED
        BY <1>3, <2>3, <3>1, <3>2, <3>3
    <2>10. \A x \in Elements(Kept) : st'[x].allocs = st[x].allocs /\ st'[x].ran = st[x].ran
      BY <1>2, <1>3, <2>4, <2>5
    <2>11. \A x \in Elements(q) \ Elements(Kept) : st'[x].allocs = 0
      BY <2>5, <2>9
    <2>12. Owned(Popped(Subs(cur)), q, st')
      BY <1>1, <2>6, <2>8, <2>10, <2>11, LevelOwned
    <2>. QED
      BY <1>1, <2>7, <2>12
  <1>. QED
    BY <1>4, <1>7, <1>8, <1>9, <1>10 DEF Unwind

\* Every step of the engine keeps objects and counts together.
LEMMA OwnedStep ==
    ASSUME TreeInv, Owned(allocs, queue, st), [Next]_vars, "outer_stack" \notin allow
    PROVE  Owned(allocs', queue', st')
  <1>1. /\ st \in [Step -> Data] /\ queue \in Seq(Step)
        /\ \A x \in Elements(queue) : x \in Step
    BY TreeIsTyped DEF Elements
  <1>2. CASE UNCHANGED <<queue, st, allocs>>
    BY <1>2
  <1>3. CASE RunStep
    BY <1>3, OwnedRun
  <1>4. CASE Execute
    <2>1. PICK n \in 1 .. MaxSub : \E a \in Additions(n, Step) :
             queue' = Ids(a) /\ st' = Construct(st, None, a)
      BY <1>4 DEF Execute
    <2>2. PICK a \in Additions(n, Step) : queue' = Ids(a) /\ st' = Construct(st, None, a)
      BY <2>1
    <2>3. n \in Nat /\ allocs' = allocs /\ queue = <<>>
      <3>1. n \in Nat
        BY StepsAssumption
      <3>2. allocs' = allocs /\ queue = <<>>
        BY <1>4 DEF Execute
      <3>. QED
        BY <3>1, <3>2
    <2>4. \A x \in Elements(Ids(a)) : st'[x].allocs = 0
      BY <1>1, <2>2, <2>3, ConstructFacts
    <2>5. Retained(queue, st, {}, Ids(a), st')
      BY <2>3, <2>4 DEF Retained, Elements
    <2>6. Owned(allocs, Ids(a), st')
      BY <2>5, OwnedStays
    <2>. QED
      BY <2>2, <2>3, <2>6
  <1>5. CASE Cancel \/ UnwindRoot
    <2>1. queue' = <<>> /\ allocs' = Popped(Alive)
      BY <1>5 DEF Cancel, UnwindRoot
    <2>2. Last(Alive)
      BY DEF Last, Alive, Elements
    <2>3. Retained(queue, st, Alive, <<>>, st')
      <3>1. \A a \in DOMAIN queue : queue[a] \in Alive
        BY DEF Alive, Elements
      <3>2. Elements(<<>>) = {}
        BY DEF Elements
      <3>. QED
        BY <3>1, <3>2 DEF Retained
    <2>4. Owned(Popped(Alive), <<>>, st')
      BY <2>2, <2>3, OwnedPopped
    <2>. QED
      BY <2>1, <2>4
  <1>6. CASE ExternalEvent \/ ForeignCall
    <2>1. /\ st' = [st EXCEPT ![top].asked = FALSE] /\ top \in Step
          /\ UNCHANGED <<queue, allocs>>
      BY <1>6 DEF ExternalEvent, ForeignCall, Waiting, TreeInv, Types
    <2>2. \A x \in Step : st'[x].allocs = st[x].allocs /\ st'[x].ran = st[x].ran
      BY <2>1, AskedFacts
    <2>3. Retained(queue, st, {}, queue, st')
      BY <1>1, <2>2 DEF Retained
    <2>4. Owned(allocs, queue, st')
      BY <2>3, OwnedStays
    <2>. QED
      BY <2>1, <2>4
  <1>7. CASE Climb
    BY <1>7, OwnedClimb
  <1>8. CASE ClimbRoot
    BY <1>8, OwnedClimbRoot
  <1>9. CASE Unwind
    BY <1>9, OwnedUnwind
  <1>10. CASE BeginBurst \/ EndBurst \/ ForeignTask \/ UNCHANGED vars
    BY <1>2, <1>10 DEF BeginBurst, EndBurst, ForeignTask, vars, flow
  <1>11. ASSUME NEW t \in Timer, TimerFire(t) PROVE Owned(allocs', queue', st')
    BY <1>2, <1>11 DEF TimerFire
  <1>. QED
    BY <1>3, <1>4, <1>5, <1>6, <1>7, <1>8, <1>9, <1>10, <1>11, Zenon DEF Next, Engine

\* Unless a handler sets a timeout and adds sub-steps, or uses stack() of another
\* step, timers and objects go with their steps: none is freed early, none is left.
THEOREM ResourcesGoWithSteps ==
    ASSUME \A m \in Mixes : m \cap {"outer_timeout", "outer_stack"} = {}
    PROVE  Spec => []ResourcesFollowPath
  <1> DEFINE Inv == /\ TreeInv /\ allow \in Mixes /\ Quiet
                    /\ Owned(allocs, queue, st)
  <1>1. Init => Inv
    <2> SUFFICES ASSUME Init PROVE Inv
      OBVIOUS
    <2>1. Quiet
      BY DEF Init, Quiet
    <2>2. <<>> \in Seq(Step \cup {None}) /\ Elements(<<>>) = {} /\ DOMAIN <<>> = {}
      BY DEF Elements
    <2>3. Owned(<<>>, <<>>, st)
      BY <2>2 DEF Owned, Ordered, Counts
    <2>4. Owned(allocs, queue, st)
      BY <2>3 DEF Init
    <2>. QED
      BY <2>1, <2>4, TreeInit DEF Init
  <1>2. Inv /\ [Next]_vars => Inv'
    <2> SUFFICES ASSUME Inv, [Next]_vars PROVE Inv'
      OBVIOUS
    <2>1. "outer_timeout" \notin allow /\ "outer_stack" \notin allow
      OBVIOUS
    <2>2. TreeInv'
      BY TreeStep
    <2>3. allow' = allow
      BY DEF Next, Running, vars
    <2>4. Quiet' /\ Owned(allocs, queue, st)'
      BY <2>1, QuietStep, OwnedStep
    <2>. QED
      BY <2>2, <2>3, <2>4
  <1>3. Inv => ResourcesFollowPath
    <2> SUFFICES ASSUME Inv PROVE ResourcesFollowPath
      OBVIOUS
    <2>1. \A t \in Timer : armed[t] \in {None, top}
      BY DEF Quiet
    <2>2. ASSUME NEW s \in Step
          PROVE  Cardinality({i \in DOMAIN allocs : allocs[i] = s})
                     = IF s \in Alive THEN st[s].allocs ELSE 0
      <3>1. CASE s \in Alive
        BY <3>1 DEF Owned, Counts, Alive
      <3>2. CASE s \notin Alive
        <4>1. \A i \in DOMAIN allocs : allocs[i] \in Alive
          BY OwnersListed DEF Owned, Alive
        <4>2. {i \in DOMAIN allocs : allocs[i] = s} = {}
          BY <3>2, <4>1
        <4>. QED
          BY <3>2, <4>2, FS_EmptySet
      <3>. QED
        BY <3>1, <3>2
    <2>. QED
      BY <2>1, <2>2 DEF ResourcesFollowPath
  <1>. QED
    BY <1>1, <1>2, <1>3, PTL DEF Spec

=============================================================================
