----------------------------- MODULE LaunchGate -----------------------------
(***************************************************************************)
(* What ServerManager promises about the launching of one server           *)
(* (VERSION.md: "start_server protected by per-server async lock to        *)
(* prevent duplicate-start race condition"): one starter at a time is      *)
(* inside the gate, it enters only while no process is registered, and     *)
(* only the starter inside registers a process, a new one, in an empty     *)
(* slot.  Whoever drops the process may do so at any time.                 *)
(***************************************************************************)
EXTENDS Integers

CONSTANT Starters
VARIABLES
  slot,     \* the registered process, or 0
  starter,  \* the starter inside the gate, or 0
  spawned   \* number of processes registered so far

Init == slot = 0 /\ starter = 0 /\ spawned = 0

Enter(t) == starter = 0 /\ slot = 0 /\ starter' = t /\ UNCHANGED <<slot, spawned>>

Register == /\ starter # 0 /\ slot = 0
            /\ spawned' = spawned + 1 /\ slot' = spawned'
            /\ UNCHANGED starter

Leave == starter' = 0 /\ UNCHANGED <<slot, spawned>>
Drop  == slot' = 0 /\ UNCHANGED <<starter, spawned>>
Crash == slot' = 0 /\ starter' = 0 /\ UNCHANGED spawned

Next == (\E t \in Starters : Enter(t)) \/ Register \/ Leave \/ Drop \/ Crash

Spec == Init /\ [][Next]_<<slot, starter, spawned>>
=============================================================================
