-------------------------- MODULE LifecycleHistory --------------------------
(***************************************************************************)
(* ServerLifecycle with history variables: what was asked for, and how     *)
(* many launches were automatic.                                           *)
(***************************************************************************)
EXTENDS ServerLifecycle

VARIABLES
  wanted,   \* a start was asked for after the last stop that stopped the server
  auto,     \* launches made by crash-restart tasks
  epochs    \* times the crash counter went back to 0

historyVars == <<wanted, auto, epochs>>
hvars == <<vars, historyVars>>

Launches == launched' # launched

HInit == Init /\ wanted = FALSE /\ auto = 0 /\ epochs = 0

Record ==
  /\ wanted' = IF \/ \E c \in Callers : pc[c] # "acquire" /\ pc'[c] = "acquire"
                  \/ Launches /\ holder \in Callers
               THEN TRUE
               ELSE wanted /\ \A c \in Callers : ~(pc[c] = "stopDone" /\ pc'[c] # "stopDone")
  /\ auto' = IF Launches /\ holder \in Launch THEN auto + 1 ELSE auto
  /\ epochs' = IF count # 0 /\ count' = 0 THEN epochs + 1 ELSE epochs

HNext == Next /\ Record
HSpec == HInit /\ [][HNext]_hvars

-----------------------------------------------------------------------------
\* A stop that returned True is honoured: the crash-restart task launches
\* nothing until somebody asks for a start again.
StopIsHonoured == [][Launches /\ holder \in Launch => wanted]_hvars

\* Unattended launches are bounded: at most max_crash_restarts for each time the
\* counter started from zero (a user's stop or start, a stable window, a reboot).
CrashLoopBounded == auto <= MaxRestarts * (epochs + 1)

=============================================================================
