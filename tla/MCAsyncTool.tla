---------------------------- MODULE MCAsyncTool ----------------------------
(* Model checking of AsyncTool.                                            *)
EXTENDS AsyncTool, TLC

\* Nodes, calls and threads are interchangeable.
Symmetry == Permutations(Node) \cup Permutations(Call) \cup Permutations(Thread)

\* What no later step reads is left out of the states TLC tells apart: the
\* callback of a dead node, the time of a node outside the deferred list, and
\* the history of a call that is over.
Only(f, S, default) == [x \in DOMAIN f |-> IF x \in S THEN f[x] ELSE default]

Live == {n \in Node : cookie[n] # 0} \cup {running}

LiveView ==
    <<lists, Only(callback, Live, NoCall), cookie, Only(when, deferUsed, 0),
      current_cookie, canceled, reactor, foreign, wait, clock, last_now, life,
      handles, status, Only(due, {c \in Call : status[c] = "pending"}, 0), epoch>>

=============================================================================
