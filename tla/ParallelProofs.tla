--------------------------- MODULE ParallelProofs ---------------------------
(* Proofs about parallel(), for every set of items and of error codes and   *)
(* either engine.                                                           *)
EXTENDS Parallel, TLAPS, FiniteSetTheorems

(* The final call is due when the last item is counted or the first one     *)
(* fails.  That neither happens twice, nor one after the other, needs more  *)
(* than the two properties say: the count is the number of ended items, and *)
(* after a failure no item is left that could end or fail (Joining).        *)

\* Client code launches at least one item, in an instance without an error left.
Disciplined == Allow \cap {"reuse", "empty"} = {}

EndedItems == {i \in items : item[i] = "ended"}

Resting ==
    phase \in {"none", "handled"} =>
        /\ calls = 0
        /\ \A i \in Item : item[i] \in {"free", "ended", "dead"}
        /\ error_code = "" /\ phase = "none" => items = {}

Queued ==
    phase = "queued" =>
        /\ calls = 0 /\ completed = 0 /\ error_code = "" /\ items # {}
        /\ \A i \in items : item[i] = "built"

Joining ==
    phase = "waiting" =>
        /\ items # {}
        /\ error_code = "" =>
              /\ completed = Cardinality(EndedItems)
              /\ \A i \in items : item[i] \in {"ready", "wait", "ended"}
              /\ calls = IF items = EndedItems THEN 1 ELSE 0
        /\ error_code # "" =>
              /\ \A i \in items : item[i] \in {"ended", "dead"}
              /\ calls = 1

Outside == \A i \in Item \ items : item[i] = "free"

\* Outside of a wait nobody is told that the step runs.
Told == outcome = "running" <=> phase = "waiting"

Inv == TypeOK /\ Resting /\ Queued /\ Joining /\ Outside /\ Told

\* The only arithmetic of the final call.
LEMMA OneCall == 0 + 1 = 1 /\ 1 - 1 = 0 /\ 0 # 1
  OBVIOUS

LEMMA InitInv ==
    ASSUME Init PROVE Inv
  BY ParallelAssumption DEF Init, Inv, TypeOK, ItemState, Resting, Queued,
     Joining, Outside, Told, EndedItems

\* There is never more than one call.
LEMMA AtMostOneCall ==
    ASSUME Inv PROVE calls \in {0, 1} /\ (calls > 0 <=> calls = 1)
  <1>1. calls = 0 \/ calls = 1
    BY DEF Inv, TypeOK, Resting, Queued, Joining
  <1> QED
    BY <1>1

\* An item that goes on does so while no other one has failed.
LEMMA WorkingItem ==
    ASSUME Inv, NEW i \in Item, i \in items, item[i] \in {"ready", "wait"}
    PROVE  /\ phase = "waiting" /\ error_code = "" /\ calls = 0
           /\ completed = Cardinality(EndedItems) /\ i \notin EndedItems
           /\ IsFiniteSet(items) /\ IsFiniteSet(EndedItems)
  <1>1. phase = "waiting"
    BY DEF Inv, TypeOK, Resting, Queued
  <1>2. error_code = "" /\ i \notin EndedItems
    BY <1>1 DEF Inv, Joining, EndedItems
  <1>3. IsFiniteSet(items) /\ IsFiniteSet(EndedItems)
    BY ParallelAssumption, FS_Subset DEF Inv, TypeOK, EndedItems
  <1> QED
    BY <1>1, <1>2, <1>3 DEF Inv, Joining

\* Ended() counts the item, and sees whether it was the last one.
LEMMA EndedInv ==
    ASSUME Inv, NEW i \in Item, i \in items, item[i] \in {"ready", "wait"},
           Ended(i), UNCHANGED <<engine, phase, items, outcome>>
    PROVE  Inv'
  <1>1. /\ phase = "waiting" /\ error_code = "" /\ calls = 0
        /\ completed = Cardinality(EndedItems) /\ i \notin EndedItems
        /\ IsFiniteSet(items) /\ IsFiniteSet(EndedItems)
    BY WorkingItem
  <1>2. item' = [item EXCEPT ![i] = "ended"] /\ item \in [Item -> ItemState]
    BY DEF Ended, Inv, TypeOK
  <1>u. engine' = engine /\ phase' = phase /\ items' = items
        /\ outcome' = outcome /\ error_code' = error_code
    BY DEF Ended
  <1>3. EndedItems' = EndedItems \cup {i} /\ EndedItems' \in SUBSET items
    BY <1>2, <1>u DEF EndedItems, Inv, TypeOK
  <1>4. completed' = Cardinality(EndedItems') /\ IsFiniteSet(EndedItems')
        /\ completed' \in Nat
    <2> DEFINE more == EndedItems \cup {i}
    <2>1. Cardinality(more) = Cardinality(EndedItems) + 1 /\ IsFiniteSet(more)
      BY <1>1, FS_AddElement
    <2>2. EndedItems' = more
      BY <1>3
    <2> HIDE DEF more
    <2>3. Cardinality(more) \in Nat
      BY <2>1, FS_CardinalityType
    <2>4. completed' = completed + 1
      BY DEF Ended
    <2> QED
      BY <1>1, <2>1, <2>2, <2>3, <2>4, Zenon
  <1>5. calls' = IF items' = EndedItems' THEN 1 ELSE 0
    <2>1. completed' = Cardinality(items) <=> items = EndedItems'
      BY <1>1, <1>3, <1>4, FS_Subset
    <2>2. CASE completed' = Cardinality(items)
      <3>1. calls' = calls + 1
        BY <1>u, <2>2, Zenon DEF Ended
      <3> QED
        BY <1>1, <1>u, <2>1, <2>2, <3>1, OneCall, Zenon
    <2>3. CASE completed' # Cardinality(items)
      BY <1>1, <1>u, <2>1, <2>3, Zenon DEF Ended
    <2> QED
      BY <2>2, <2>3
  <1>6. TypeOK'
    BY <1>1, <1>2, <1>4, <1>5, <1>u DEF Inv, TypeOK, ItemState
  <1>7. Joining'
    BY <1>1, <1>2, <1>4, <1>5, <1>u DEF Inv, Joining, TypeOK
  <1> QED
    BY <1>1, <1>2, <1>6, <1>7, <1>u DEF Inv, Resting, Queued, Outside, Told

LEMMA FailedInv ==
    ASSUME Inv, NEW i \in Item, i \in items, item[i] \in {"ready", "wait"},
           NEW code \in Code,
           Failed(i, code), UNCHANGED <<engine, phase, items, outcome>>
    PROVE  Inv'
  <1>1. phase = "waiting" /\ error_code = "" /\ calls = 0
    BY WorkingItem
  <1>2. /\ item' = [j \in Item |-> IF j = i \/ j \in Working
                                   THEN "dead" ELSE item[j]]
        /\ item \in [Item -> ItemState] /\ error_code' = code /\ code # ""
        /\ calls' = 1
    <2>1. code # ""
      BY ParallelAssumption
    <2>2. item \in [Item -> ItemState]
      BY DEF Inv, TypeOK
    <2> QED
      BY <1>1, <2>1, <2>2, OneCall, Zenon DEF Failed
  <1>u. engine' = engine /\ phase' = phase /\ items' = items
        /\ outcome' = outcome /\ completed' = completed
    BY DEF Failed
  <1>3. \A j \in items : item'[j] \in {"ended", "dead"}
    <2>1. \A j \in items : j \in Item /\ item[j] \in {"ready", "wait", "ended"}
      BY <1>1 DEF Inv, Joining, TypeOK
    <2> QED
      BY <1>2, <2>1 DEF Working
  <1>4. Joining'
    BY <1>1, <1>2, <1>3, <1>u DEF Joining, Inv
  <1>5. TypeOK' /\ Outside'
    <2>1. item' \in [Item -> ItemState]
      BY <1>2 DEF ItemState
    <2>2. \A j \in Item \ items : item'[j] = item[j]
      BY <1>2 DEF Working
    <2> QED
      BY <1>2, <1>u, <2>1, <2>2 DEF Inv, TypeOK, Outside
  <1> QED
    BY <1>1, <1>4, <1>5, <1>u DEF Inv, Resting, Queued, Told

LEMMA StepInv ==
    ASSUME Disciplined, Inv, [Next]_vars PROVE Inv'
  <1>1. ASSUME NEW S \in SUBSET Item, Build(S) PROVE Inv'
    <2>1. phase = "none" /\ error_code = "" /\ S # {} /\ items = {} /\ calls = 0
      BY <1>1 DEF Build, Inv, Resting, Disciplined
    <2> QED
      BY <1>1, <2>1 DEF Build, Inv, TypeOK, ItemState, Resting, Queued, Joining,
         Outside, Told
  <1>2. CASE Launch
    <2>1. phase = "queued" /\ error_code' = "" /\ calls' = 0 /\ completed' = 0
          /\ items' = items /\ items # {} /\ items \subseteq Item
      BY <1>2 DEF Launch, Inv, Queued, TypeOK
    <2>2. \A i \in items' : item'[i] = "ready"
      BY <1>2, <2>1 DEF Launch, Inv, Queued
    <2>3. EndedItems' = {}
      BY <2>2 DEF EndedItems
    <2>4. Joining'
      BY <2>1, <2>2, <2>3, FS_EmptySet DEF Joining
    <2> QED
      BY <1>2, <2>1, <2>2, <2>4 DEF Launch, Inv, TypeOK, ItemState, Resting,
         Queued, Outside, Told
  <1>3. ASSUME NEW i \in Item, RunItem(i) \/ ItemEvent(i) PROVE Inv'
    <2>1. i \in items /\ item[i] \in {"ready", "wait"}
          /\ UNCHANGED <<engine, phase, items, outcome>>
      BY <1>3 DEF RunItem, ItemEvent
    <2>2. CASE Ended(i)
      BY <2>1, <2>2, EndedInv
    <2>3. CASE \E code \in Code : Failed(i, code)
      BY <2>1, <2>3, FailedInv
    <2>4. ASSUME NEW s \in {"ready", "wait"}, item' = [item EXCEPT ![i] = s],
                 UNCHANGED <<completed, error_code, calls>>
          PROVE  Inv'
      <3>1. /\ phase = "waiting" /\ error_code = ""
            /\ item \in [Item -> ItemState] /\ items \subseteq Item
        BY <2>1, WorkingItem DEF Inv, TypeOK
      <3>u. engine' = engine /\ phase' = phase /\ items' = items
            /\ outcome' = outcome /\ completed' = completed
            /\ error_code' = error_code /\ calls' = calls
        BY <2>1, <2>4
      <3>2. /\ item'[i] = s /\ \A j \in Item : j # i => item'[j] = item[j]
            /\ item' \in [Item -> ItemState]
        BY <2>4, <3>1 DEF ItemState
      <3>3. EndedItems' = EndedItems
        <4>1. \A j \in items : item'[j] = "ended" <=> item[j] = "ended"
          BY <2>1, <3>1, <3>2
        <4> QED
          BY <3>u, <4>1 DEF EndedItems
      <3>4. \A j \in items : item'[j] \in {"ready", "wait", "ended"}
        BY <3>1, <3>2 DEF Inv, Joining
      <3>5. Joining'
        BY <3>1, <3>u, <3>3, <3>4 DEF Inv, Joining
      <3>6. Outside'
        BY <2>1, <3>1, <3>u, <3>2 DEF Inv, Outside
      <3> QED
        BY <3>1, <3>u, <3>2, <3>5, <3>6 DEF Inv, TypeOK, Resting, Queued, Told
    <2> QED
      BY <1>3, <2>2, <2>3, <2>4 DEF RunItem, ItemEvent
  <1>4. ASSUME phase' = "none", calls' = 0, Clear, error_code' \in {error_code, ""},
               outcome' \in Code \cup {"success", "canceled"} \/
                  (phase = "handled" /\ outcome' = outcome),
               engine' = engine, completed' = completed
        PROVE  Inv'
    BY <1>4, ParallelAssumption DEF Clear, Inv, TypeOK, ItemState, Resting,
       Queued, Joining, Outside, Told
  <1>5. CASE FinalSuccess
    <2>1. phase = "waiting" /\ calls' = 0
      BY <1>5, AtMostOneCall, OneCall, Zenon DEF FinalSuccess
    <2>2. /\ phase' = "none" /\ Clear /\ error_code' = error_code
          /\ outcome' = "success" /\ engine' = engine /\ completed' = completed
      BY <1>5 DEF FinalSuccess
    <2> QED
      BY <1>4, <2>1, <2>2
  <1>6. CASE FinalError
    <2>1. phase = "waiting" /\ error_code # "" /\ calls' = 0
          /\ outcome' = error_code /\ engine' = engine /\ completed' = completed
      BY <1>6, AtMostOneCall, OneCall, Zenon DEF FinalError
    <2>2. /\ \A i \in items : item[i] \in {"ended", "dead"}
          /\ error_code \in Code
      BY <2>1 DEF Inv, Joining, TypeOK
    <2>3. \A i \in Item : item[i] \in {"free", "ended", "dead"}
      BY <2>2 DEF Inv, Outside
    <2>4. CASE phase' = "none" /\ Clear /\ error_code' \in {error_code, ""}
      BY <1>4, <2>1, <2>2, <2>4
    <2>5. CASE phase' = "handled" /\ error_code' = "" /\ Clear
      BY <2>1, <2>2, <2>5, ParallelAssumption DEF Clear, Inv, TypeOK,
         ItemState, Resting, Queued, Joining, Outside, Told
    <2>6. CASE phase' = "handled" /\ error_code' = "" /\ UNCHANGED <<items, item>>
      <3>1. items' = items /\ item' = item
        BY <2>6
      <3> QED
        BY <2>1, <2>2, <2>3, <2>6, <3>1, ParallelAssumption DEF Inv, TypeOK,
           Resting, Queued, Joining, Outside, Told
    <2> QED
      BY <1>6, <2>4, <2>5, <2>6 DEF FinalError
  <1>7. CASE HandledRuns
    <2>1. phase = "handled" /\ calls' = calls /\ phase' = "none" /\ Clear
          /\ error_code' = error_code /\ outcome' = outcome
          /\ engine' = engine /\ completed' = completed
      BY <1>7 DEF HandledRuns
    <2>2. calls' = 0
      BY <2>1 DEF Inv, Resting
    <2> QED
      BY <1>4, <2>1, <2>2
  <1>8. CASE Cancel
    <2>1. /\ phase # "none" /\ phase' = "none" /\ outcome' = "canceled"
          /\ engine' = engine /\ completed' = completed
          /\ error_code' = error_code
      BY <1>8 DEF Cancel
    <2>2. calls > 0 => calls - 1 = 0
      BY AtMostOneCall, OneCall, Zenon
    <2>3. calls' = 0
      BY <1>8, <2>2, Zenon DEF Cancel
    <2>4. CASE Clear
      BY <1>4, <2>1, <2>3, <2>4
    <2>5. CASE UNCHANGED <<items, item>> /\ error_code # ""
      <3>1. items' = items /\ item' = item
        BY <2>5
      <3>2. phase \in {"waiting", "handled"}
        BY <2>1, <2>5 DEF Inv, TypeOK, Queued
      <3>3. \A i \in Item : item[i] \in {"free", "ended", "dead"}
        <4>1. CASE phase = "handled"
          BY <4>1 DEF Inv, Resting
        <4>2. CASE phase = "waiting"
          BY <2>5, <4>2 DEF Inv, Joining, Outside
        <4> QED
          BY <3>2, <4>1, <4>2
      <3> QED
        BY <2>1, <2>3, <2>5, <3>1, <3>3 DEF Inv, TypeOK, Resting, Queued,
           Joining, Outside, Told
    <2> QED
      BY <1>8, <2>4, <2>5 DEF Cancel
  <1>9. CASE UNCHANGED vars
    BY <1>9 DEF vars, Inv, TypeOK, Resting, Queued, Joining, Outside, Told,
       EndedItems
  <1> QED
    BY <1>1, <1>2, <1>3, <1>5, <1>6, <1>7, <1>8, <1>9 DEF Next

\* The invariant holds in every state of every execution.
THEOREM Invariance == Disciplined => (Spec => []Inv)
  <1> SUFFICES ASSUME Disciplined PROVE Spec => []Inv
    OBVIOUS
  <1>1. Init => Inv
    BY InitInv
  <1>2. Inv /\ [Next]_vars => Inv'
    BY StepInv
  <1> QED
    BY <1>1, <1>2, PTL DEF Spec

LEMMA InvImpliesDue == ASSUME Inv PROVE FinalCallIsDue
  <1>1. CASE phase = "waiting"
    <2>1. items \subseteq Item /\ (error_code = "" => (Working = {} <=> items = EndedItems))
      BY <1>1 DEF Inv, TypeOK, Joining, Working, EndedItems
    <2>2. error_code # "" => Working = {}
      BY <1>1 DEF Inv, Joining, Working
    <2> QED
      BY <1>1, <2>1, <2>2 DEF FinalCallIsDue, Inv, Joining
  <1>2. CASE phase # "waiting"
    BY <1>2 DEF FinalCallIsDue, Inv, TypeOK, Resting, Queued
  <1> QED
    BY <1>1, <1>2

\* While a parallel step waits, exactly one final call is due when no item works
\* any more, and none otherwise (sub-step completion and error).
THEOREM FinalCallAlwaysDue == Disciplined => (Spec => []FinalCallIsDue)
  BY Invariance, InvImpliesDue, PTL

\* After a failure, the end of the step or cancel(), no item goes on.
THEOREM NeverOrphans == Disciplined => (Spec => []NoOrphans)
  <1>1. Inv => NoOrphans
    BY DEF Inv, TypeOK, Resting, Joining, Outside, NoOrphans
  <1> QED
    BY <1>1, Invariance, PTL

(* Every step of parallel() is a step of ForkJoin, or none of its business. *)

LEMMA ItemJoins ==
    ASSUME Inv, NEW i \in Item, i \in items, item[i] \in {"ready", "wait"},
           UNCHANGED <<engine, phase, items, outcome>>,
           \/ Ended(i)
           \/ \E code \in Code : Failed(i, code)
           \/ /\ \E s \in {"ready", "wait"} : item' = [item EXCEPT ![i] = s]
              /\ UNCHANGED error_code
    PROVE  [Join!Next]_(Join!vars)
  <1>1. phase = "waiting" /\ error_code = "" /\ outcome = "running"
    BY WorkingItem DEF Inv, Told
  <1>2. phase' = "waiting" /\ items' = items /\ outcome' = "running"
    BY <1>1
  <1>3. item \in [Item -> ItemState] /\ items \subseteq Item
    BY DEF Inv, TypeOK
  <1>4. i \in working /\ working = Working /\ working' = Working'
        /\ result = "running"
    BY <1>1, <1>2 DEF working, Working, result
  <1>5. CASE Ended(i)
    <2>1. item' = [item EXCEPT ![i] = "ended"] /\ error_code' = error_code
      BY <1>5 DEF Ended
    <2>2. \A j \in items : item'[j] = IF j = i THEN "ended" ELSE item[j]
      BY <1>3, <2>1
    <2>3. Working' = Working \ {i}
      BY <1>2, <2>2 DEF Working
    <2>4. result' = result
      BY <1>1, <1>2, <1>4, <2>1 DEF result
    <2> QED
      BY <1>4, <2>3, <2>4 DEF Join!Next, Join!Done
  <1>6. ASSUME NEW code \in Code, Failed(i, code) PROVE Join!Fail(code)
    <2>1. item' = [j \in Item |-> IF j = i \/ j \in Working
                                  THEN "dead" ELSE item[j]]
          /\ error_code' = code /\ code # ""
      BY <1>6, ParallelAssumption DEF Failed
    <2>2. Working' = {}
      BY <1>2, <1>3, <2>1 DEF Working
    <2>3. result' = code
      BY <1>2, <2>1 DEF result
    <2> QED
      BY <1>4, <2>2, <2>3 DEF Join!Fail
  <1>7. ASSUME NEW s \in {"ready", "wait"}, item' = [item EXCEPT ![i] = s],
               error_code' = error_code
        PROVE  UNCHANGED Join!vars
    <2>1. \A j \in items : item'[j] = IF j = i THEN s ELSE item[j]
      BY <1>3, <1>7
    <2>2. Working' = Working
      BY <1>2, <2>1 DEF Working
    <2>3. result' = result
      BY <1>1, <1>2, <1>4, <1>7 DEF result
    <2> QED
      BY <1>4, <2>2, <2>3 DEF Join!vars
  <1> QED
    BY <1>5, <1>6, <1>7 DEF Join!Next

LEMMA StepJoins ==
    ASSUME Disciplined, Inv, [Next]_vars PROVE [Join!Next]_(Join!vars)
  <1>1. ASSUME NEW S \in SUBSET Item, Build(S) PROVE UNCHANGED Join!vars
    BY <1>1 DEF Build, Join!vars, working, result
  <1>2. CASE Launch
    <2>1. phase = "queued" /\ error_code = "" /\ outcome # "running"
          /\ items \subseteq Item
      BY <1>2 DEF Launch, Inv, TypeOK, Queued, Told
    <2>2. /\ phase' = "waiting" /\ error_code' = "" /\ outcome' = "running"
          /\ items' = items
      BY <1>2, <2>1 DEF Launch
    <2>3. working = {} /\ result # "running" /\ result' = "running"
          /\ working' \in SUBSET Item
      BY <2>1, <2>2 DEF working, result, Working
    <2> QED
      BY <2>3 DEF Join!Next, Join!Fork
  <1>3. ASSUME NEW i \in Item, RunItem(i) \/ ItemEvent(i)
        PROVE  [Join!Next]_(Join!vars)
    <2>1. i \in items /\ item[i] \in {"ready", "wait"}
          /\ UNCHANGED <<engine, phase, items, outcome>>
      BY <1>3 DEF RunItem, ItemEvent
    <2>2. \/ Ended(i)
          \/ \E code \in Code : Failed(i, code)
          \/ /\ \E s \in {"ready", "wait"} : item' = [item EXCEPT ![i] = s]
             /\ UNCHANGED error_code
      BY <1>3 DEF RunItem, ItemEvent
    <2> QED
      BY <2>1, <2>2, ItemJoins
  <1>4. CASE FinalSuccess
    <2>1. phase = "waiting" /\ error_code = "" /\ calls = 1
          /\ phase' = "none" /\ outcome' = "success"
      BY <1>4, AtMostOneCall, Zenon DEF FinalSuccess
    <2>2. working = {} /\ outcome = "running"
      <3>1. calls = IF Working = {} THEN 1 ELSE 0
        BY <2>1, InvImpliesDue DEF FinalCallIsDue
      <3>2. Working = {}
        BY <2>1, <3>1, OneCall, Zenon
      <3> QED
        BY <2>1, <3>2, Zenon DEF working, Inv, Told
    <2>3. result = "running" /\ result' = "success" /\ working' = {}
      BY <2>1, <2>2 DEF result, working
    <2> QED
      BY <2>2, <2>3 DEF Join!Next, Join!Join
  <1>5. CASE FinalError
    <2>1. phase = "waiting" /\ error_code # "" /\ phase' # "waiting"
          /\ outcome' = error_code
      BY <1>5, Zenon DEF FinalError
    <2>2. Working = {}
      BY <2>1 DEF Inv, Joining, Working
    <2> QED
      BY <2>1, <2>2 DEF Join!vars, working, result
  <1>6. CASE HandledRuns
    BY <1>6 DEF HandledRuns, Join!vars, working, result
  <1>7. CASE Cancel
    <2>1. phase' = "none" /\ outcome' = "canceled"
      BY <1>7, Zenon DEF Cancel
    <2>2. working' = {} /\ result' = "canceled"
      BY <2>1 DEF working, result
    <2> QED
      BY <2>2 DEF Join!Next, Join!Cancel
  <1>8. CASE UNCHANGED vars
    BY <1>8 DEF vars, Join!vars, working, Working, result
  <1> QED
    BY <1>1, <1>2, <1>3, <1>4, <1>5, <1>6, <1>7, <1>8 DEF Next

\* Both engines' parallel() implements the fork and join it promises: success is
\* reported only when every item is done, a failure only for an item that still
\* worked, and after either no item does anything.
THEOREM Implementation == Disciplined => (Spec => ImplementsForkJoin)
  <1> SUFFICES ASSUME Disciplined PROVE Spec => Join!Spec
    BY DEF ImplementsForkJoin
  <1>1. Init => Join!Init
    BY DEF Init, Join!Init, working, result
  <1>2. Inv /\ [Next]_vars => [Join!Next]_(Join!vars)
    BY StepJoins
  <1>3. Spec => []Inv
    BY Invariance
  <1> QED
    BY <1>1, <1>2, <1>3, PTL DEF Spec, Join!Spec

=============================================================================
