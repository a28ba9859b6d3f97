-------------------------- MODULE MCSteamOperations --------------------------
(* Instances of SteamOperations for TLC. *)
EXTENDS SteamOperations

\* Two requests of any kind, and a third that starts the server.
TwoAndAStart == [o \in Ops |-> IF o < 3 THEN AllKinds ELSE {"start", "update_start"}]
=============================================================================
