------------------------- MODULE MCLifecycleHistory -------------------------
(* Instances of ServerLifecycle, with its history, for TLC. *)
EXTENDS LifecycleHistory

CONSTANT c1

OneCaller == {c1}

WebStart == [c \in Callers |-> {"webStart"}]
WebOps   == [c \in Callers |-> {"webStart", "stop"}]

Pattern   == {"pattern"}
Immediate == {"immediate"}
=============================================================================
