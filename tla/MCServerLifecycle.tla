------------------------- MODULE MCServerLifecycle -------------------------
(* Instances of ServerLifecycle for TLC. *)
EXTENDS ServerLifecycle, TLC

CONSTANTS c1, c2

OneCaller  == {c1}
TwoCallers == {c1, c2}

Everything == [c \in Callers |-> AllOps]
StartStop  == [c \in Callers |-> {"start", "stop"}]

Pattern == {"pattern"}

\* Callers with the same operations are interchangeable.
CallerSymmetry == Permutations(Callers)
=============================================================================
