------------------------- MODULE MCLifecycleLiveness -------------------------
(* Instances of LifecycleLiveness for TLC. *)
EXTENDS LifecycleLiveness

CONSTANTS c1, c2

TwoCallers == {c1, c2}

Everything == [c \in Callers |-> AllOps]

Pattern == {"pattern"}
=============================================================================
