------------------------- MODULE LifecycleLiveness -------------------------
(***************************************************************************)
(* What ServerLifecycle must eventually do, when users make finitely many  *)
(* requests.                                                               *)
(***************************************************************************)
EXTENDS ServerLifecycle

CONSTANT MaxCalls   \* bound: requests in a behaviour
ASSUME CallsAssumption == MaxCalls \in Nat

VARIABLE calls      \* requests made so far
lvars == <<vars, calls>>

Calls == \E c \in Callers : pc[c] = "idle" /\ pc'[c] # "idle"

LInit == Init /\ calls = 0
LNext == Next /\ calls' = (IF Calls THEN calls + 1 ELSE calls) /\ calls' <= MaxCalls

\* What the manager itself does: the event loop resumes the tasks whose await is
\* over, one after the other, and SIGKILL ends a process.  Users owe no request,
\* a game server owes no exit, and a reboot is an accident.
ManagerStep ==
  /\ \/ \E t \in Tasks : Acquire(t) \/ StartStep(t)
     \/ \E c \in Callers : ViewStep(c) \/ StopStep(c) \/ StopFinish(c)
     \/ \E p \in Launch : \/ WatchWake(p) \/ WatchStep(p) \/ ReadyStep(p) \/ RestartCheck(p)
                          \/ proc[p] = "kill" /\ Exit(p)
  /\ UNCHANGED calls

\* Weak fairness of the manager as a whole is enough: it has finitely much to do
\* between two requests.
LSpec == LInit /\ [][LNext]_lvars /\ WF_lvars(ManagerStep)

\* No request and no crash restart waits for ever: whatever stops, starts,
\* cancellations and crashes overlap, each frees the lock and ends.
EveryTaskEnds == \A t \in Tasks : pc[t] # "idle" ~> pc[t] = "idle"

\* A stop that has marked the server STOPPING comes to its end, even when the
\* game server ignores the console command and SIGTERM.
StoppingIsTransient == status = "stopping" ~> status # "stopping"

=============================================================================
