-------------------------- MODULE MCServerUpdater --------------------------
(* Instances of ServerUpdater for TLC. *)
EXTENDS ServerUpdater

\* Two scheduled checks, one after the other, and a user's request that meets both.
Mixed == [r \in Reqs |-> IF r = 2 THEN {"update", "check"} ELSE {"auto"}]
=============================================================================
