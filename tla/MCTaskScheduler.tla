-------------------------- MODULE MCTaskScheduler --------------------------
(* Instances of TaskScheduler for TLC. *)
EXTENDS TaskScheduler

\* A user's task or a sync, one that meets it, and a third request that meets both.
Mixed == [r \in Reqs |-> IF r = 1 THEN {"create", "sync"}
                         ELSE IF r = 2 THEN {"create", "toggle", "sync"}
                         ELSE {"toggle", "remove", "sync"}]

\* The names of the tasks that there are or that are about to be.
Given == {name[t] : t \in rows} \cup UNION {{adding[r][i] : i \in DOMAIN adding[r]} : r \in Reqs}

\* Bound of the exploration: three requests about tasks while the server stands
\* still, or two, without a sync, about tasks that may start and stop it.
TasksOnly   == ~up /\ stray = "none" /\ (\A x \in Runs : run[x] = NoRun) /\ Given \cap {"start", "stop", "restart"} = {}
ServerTasks == (\A r \in Reqs : kind[r] # "sync") /\ pc[3] = "idle" /\ lastSync = None
                 /\ Given \cap UptimeNames = {}
OneConcern  == TasksOnly \/ ServerTasks
=============================================================================
