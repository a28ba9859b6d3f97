------------------------------ MODULE MCBackups ------------------------------
(* Instances of Backups for TLC. *)
EXTENDS Backups

\* Two backups of the types that share most, and a third request of any kind.
ThenAny == [o \in Ops |-> IF o = 1 THEN {"full", "incremental"}
                         ELSE IF o = 2 THEN {"incremental", "reset"}
                         ELSE {"delete", "restore"}]
=============================================================================
