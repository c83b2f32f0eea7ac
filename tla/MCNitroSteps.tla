---------------------------- MODULE MCNitroSteps ----------------------------
(* NitroSteps for TLC: what the user code of one instance does, by turns. *)
EXTENDS NitroSteps, TLC

CONSTANTS o1, o2

Mix(may, steps, extended) ==
    [may |-> may, steps |-> steps, extended |-> extended]

\* A mix of six steps fills the ring.
MCMixes == {Mix({"wait", "foreign", "cancel"}, 3, 1),
            Mix({"loop", "foreign", "timeout"}, 3, 1),
            Mix({"stack", "timeout", "cancel"}, 3, 1),
            Mix({"loop", "stack"}, 3, 2),
            Mix({"loop", "await", "cancel"}, 3, 2),
            Mix({"sync", "timeout"}, 4, 1),
            Mix({"sync"}, 5, 1),
            Mix({"sync", "cancel"}, 6, 1),
            Mix({"timeout"}, 6, 1)}

\* The sync objects are interchangeable.
Alike == Permutations(Object)

NestedMixes == {Mix({"sync"}, 8, 2)}

=============================================================================
