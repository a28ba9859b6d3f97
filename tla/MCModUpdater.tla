---------------------------- MODULE MCModUpdater ----------------------------
(* Instances of ModUpdater for TLC. *)
EXTENDS ModUpdater

\* A chain of dependencies, of which b needs the last from its second version on.
Chain == [p \in Projects |-> [v \in Versions |->
           IF p = "a" THEN <<"b">> ELSE IF p = "b" /\ v > 1 THEN <<"c">> ELSE <<>>]]

\* a supports the newer two versions, b only the second, c only the first.
Supporting == [p \in Projects |-> IF p = "a" THEN {2, 3} ELSE IF p = "b" THEN {2} ELSE {1}]

\* An operation that adds mods, and two that meet it.
Mixed == [r \in Ops |-> IF r = 1 THEN {"install", "import", "save", "conflicts", "remove"}
                        ELSE IF r = 2 THEN {"install", "apply", "update", "all", "resolve", "newest"}
                        ELSE {"check", "remove", "update", "conflicts", "newest"}]
=============================================================================
