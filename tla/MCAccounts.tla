----------------------------- MODULE MCAccounts -----------------------------
(* Instances of Accounts for TLC. *)
EXTENDS Accounts

\* Any requests, in any order.
Mixed == [r \in Reqs |-> AllKinds]
=============================================================================
