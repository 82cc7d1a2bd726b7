------------------------------ MODULE Restart ------------------------------
(***************************************************************************)
(* Saving a workflow of the core library and loading it in another         *)
(* process.  Between any two calls an application may save the workflow    *)
(* with DictionarySerializer, JSONSerializer or XmlSerializer; when the    *)
(* process has ended, by intention or not, it goes on from what was saved. *)
(*                                                                         *)
(* What is written of a task is its id, parent, children, state, triggered *)
(* flag, spec, last_state_change, data and internal_data; of the workflow, *)
(* its data, last_task and success, and the tree.  The rest is lost: the   *)
(* thread ids of the tasks, the pool they are drawn from, and the mutexes. *)
(***************************************************************************)
EXTENDS WorkflowProperties

\* serialize_task: the whole tree.
SavedTasks(T) == DOMAIN T

\* deserialize_task: a new Task takes its thread id from the pool, which a new
\* process starts with 0.
LoadedTree(T) == [t \in SavedTasks(T) |-> [T[t] EXCEPT !.thread = 0]]

Reload ==
    /\ Quiescent
    /\ tasks' = LoadedTree(tasks)
    /\ locks' = {}
    /\ threads' = 0
    /\ UNCHANGED <<calls, success, completions, counters>>

\* deserialize_workflow of a dictionary looks at the last_task of the new workflow,
\* which has none, and so never sets it.
DictRestart == Reload /\ last' = NoTask

\* The id of last_task is looked up as a text, under which no task is found: the
\* call raises, and only a workflow that has none can be loaded.
XmlRestart == last = NoTask /\ Reload /\ last' = NoTask

RestartNext == Next \/ DictRestart \/ XmlRestart

RestartSpec == Init /\ [][RestartNext]_vars

\* The same for an application that only goes back.
OrderlyRestartNext == OrderlyNext \/ DictRestart \/ XmlRestart
OrderlyRestartSpec == Init /\ [][OrderlyRestartNext]_vars
=============================================================================
