------------------------------- MODULE Lists -------------------------------
(* Lists of distinct things, appended and taken from the front: the nodes  *)
(* of immed_queue, the steps of a deque, and the pending flows of a        *)
(* synchronization object, whose unlock() takes a node out anywhere.       *)
EXTENDS Integers, Sequences

Elements(s) == {s[i] : i \in DOMAIN s}

\* Nothing is listed twice.
Distinct(s) == \A i, j \in DOMAIN s : s[i] = s[j] => i = j

\* s without f; the others keep their order.
Without(s, f) ==
    LET i == CHOOSE i \in DOMAIN s : s[i] = f
    IN  [j \in 1 .. Len(s) - 1 |-> s[IF j < i THEN j ELSE j + 1]]

=============================================================================
