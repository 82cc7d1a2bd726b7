------------------------------ MODULE Workflow ------------------------------
(***************************************************************************)
(* The execution engine of the core library: Workflow, Task and the hooks  *)
(* of the TaskSpec classes.                                                *)
(*                                                                         *)
(* The engine is single threaded.  Between two calls of its public methods *)
(* the tree is at rest (calls = <<>>); a call is carried out step by step, *)
(* and what is left to do is the stack of frames calls, the topmost first. *)
(* A frame stands for a Python call that has been entered: the task it is  *)
(* for, and in todo the tasks its loop has still to visit.  The list a     *)
(* loop runs over is computed when the loop starts, as in the code, so it  *)
(* may name tasks that have been removed meanwhile.                        *)
(*                                                                         *)
(* An exception unwinds the whole stack and leaves the tree as it is.      *)
(*                                                                         *)
(* An action that would work on a removed task is disabled; that this      *)
(* never happens is the property PendingLive.  Only the walk over the tree *)
(* of update_waiting_tasks and a list of tasks to cancel may name removed  *)
(* tasks.                                                                  *)
(***************************************************************************)
EXTENDS Join

CONSTANTS
    MaxDepth,    \* bound: an ExclusiveChoice this deep takes its default, so loops end
    MaxResets,   \* bound: how often reset_from_task_id is called
    MaxCancels,  \* bound: how often Workflow.cancel is called from outside
    MaxFaults    \* bound: how often the code that a task runs fails

ASSUME BoundsAssumption ==
    MaxDepth \in Nat /\ MaxResets \in Nat /\ MaxCancels \in Nat /\ MaxFaults \in Nat

VARIABLES
    tasks,       \* the tree
    calls,       \* the stack of calls in progress
    locks,       \* the mutexes that are taken
    threads,     \* Task.thread_id_pool
    last,        \* last_task, the path of a task or NoTask
    success,     \* the success flag
    completions, \* how often completed_event has been called
    resets, cancels, faults  \* how often each has happened

vars == <<tasks, calls, locks, threads, last, success, completions,
          resets, cancels, faults>>
counters == <<resets, cancels, faults>>

NoTask == <<0>>  \* not the path of any task: slots count from 1

-----------------------------------------------------------------------------
(* Frames *)

Ops == {"predict", "hook", "cancel", "join", "complete", "children",
        "visit", "finish"}

Frame(op, t, todo) == [op |-> op, task |-> t, todo |-> todo, looked |-> 0, mask |-> {}]

\* _predict of the tasks S, called by the _predict of t or by another method of t.
PredictFrame(t, S, looked, mask) ==
    [op |-> "predict", task |-> t, todo |-> S, looked |-> looked, mask |-> mask]

\* TaskSpec._update: a predicted task is predicted again before its hook.
UpdateFrames(t) ==
    (IF In(tasks, t, PREDICTED) THEN <<PredictFrame(t, {t}, 0, PREDICTED)>> ELSE <<>>)
        \o <<Frame("hook", t, {})>>

Quiescent == calls = <<>>
Doing(op) == calls # <<>> /\ Head(calls).op = op
Top       == Head(calls)

\* The top frame returns; or it calls, and is left with S to do.
Return           == calls' = Tail(calls)
ReturnTo(frames) == calls' = frames \o Tail(calls)
CallWith(frames, S) ==
    calls' = frames \o (IF S = {} THEN <<>> ELSE <<[Top EXCEPT !.todo = S]>>) \o Tail(calls)

\* An exception.  It leaves a task whose _run_hook is still running in ERROR.
Raise ==
    /\ calls' = <<>>
    /\ tasks' = SetState(tasks, {calls[i].task : i \in {k \in DOMAIN calls :
                                                     calls[k].op = "complete"}}, "ERROR")

-----------------------------------------------------------------------------
(* Prediction *)

IsChoice(s)   == Kind(s) \in {"MultiChoice", "ExclusiveChoice"}
IsMultiple(s) == Kind(s) \in {"MultiInstance", "ThreadSplit"}

Conditional(s)   == Pick(Outputs(s), Net[s].cond)
Unconditional(s) == Pick(Outputs(s), Specs \ Net[s].cond)

\* The specs whose instances _predict_hook synchronizes with the children, n
\* being the number of instances that a multiple task has to create, and the
\* length of that list.
PredictedOutputs(s, n) ==
    IF IsChoice(s) THEN Unconditional(s)
    ELSE IF IsMultiple(s) THEN Repeat(Outputs(s), n)
         ELSE Outputs(s)

OutputCount(s, n) == (IF IsMultiple(s) THEN n ELSE 1) * Len(Outputs(s))

\* Mutant: what does not have to be guessed is definite.
PredictedState_Definite(T, t) ==
    IF IsChoice(T[t].spec) \/ IsMultiple(T[t].spec) THEN "LIKELY" ELSE "FUTURE"

\* The state that _predict_hook gives to the children of t.
PredictedState(T, t) ==
    IF IsChoice(T[t].spec)
    THEN IF In(T, t, {"MAYBE"}) THEN "MAYBE" ELSE "LIKELY"
    ELSE IF In(T, t, DEFINITE) THEN "FUTURE"
         ELSE IF IsMultiple(T[t].spec) THEN "LIKELY"
              ELSE T[t].state

\* _predict_hook; a choice adds its conditional outputs whatever is there.
PredictHook(T, t, n) ==
    LET s      == T[t].spec
        synced == SyncChildren(T, t, PredictedOutputs(s, n), OutputCount(s, n),
                               PredictedState(T, t))
    IN  IF IsChoice(s)
        THEN AddChildren(synced, t, Conditional(s), Len(Outputs(s)), "MAYBE")
        ELSE synced

HookRaises(T, t, n) ==
    SyncRaises(T, t, PredictedOutputs(T[t].spec, n), OutputCount(T[t].spec, n))

\* The children that _predict goes on with: it looks two levels ahead, and as
\* far as there are definite tasks.
PredictNext(T, t, looked, mask) ==
    IF In(T, t, DEFINITE) \/ looked + 1 < 2
    THEN {c \in Children(T, t) : In(T, c, mask)}
    ELSE {}

Predict ==
    /\ Doing("predict")
    /\ IF Top.todo = {} THEN Return /\ UNCHANGED tasks
       ELSE \E t \in Top.todo :
            LET hooked == In(tasks, t, Top.mask)
                n      == PredictedTimes(tasks[t].spec)
            IN  /\ IsFirst(t, Top.todo)
                /\ t \in DOMAIN tasks
                /\ IF hooked /\ HookRaises(tasks, t, n)
                   THEN Raise
                   ELSE \E T \in {IF hooked THEN PredictHook(tasks, t, n) ELSE tasks} :
                        LET next == PredictNext(T, t, Top.looked, Top.mask)
                        IN  /\ tasks' = T
                            /\ CallWith(IF next = {} THEN <<>>
                                        ELSE <<PredictFrame(t, next, Top.looked + 1, Top.mask)>>,
                                        Top.todo \ {t})
    /\ UNCHANGED <<locks, threads, last, success, completions, counters>>

-----------------------------------------------------------------------------
(* Update hooks: whether a task that has been reached may run now. *)

SetReady(t) == tasks' = Ready(tasks, t) /\ Return
SetWaiting(t) == tasks' = SetState(tasks, {t}, "WAITING") /\ Return

Unguarded == Kinds \ {"Join", "Gate", "AcquireMutex", "Execute"}

Hook(kinds) == /\ Doing("hook")
               /\ Top.task \in DOMAIN tasks
               /\ Kind(tasks[Top.task].spec) \in kinds

UpdateSimple ==
    /\ Hook(Unguarded)
    /\ SetReady(Top.task)
    /\ UNCHANGED <<locks, threads, last, success, completions, counters>>

\* A Transform runs its code in the update hook.
UpdateFails ==
    /\ Hook({"Transform"})
    /\ Net[tasks[Top.task].spec].fallible
    /\ faults < MaxFaults
    /\ Raise
    /\ faults' = faults + 1
    /\ UNCHANGED <<locks, threads, last, success, completions, resets, cancels>>

\* The external process has ended, or it has not.
UpdateExecute ==
    /\ Hook({"Execute"})
    /\ SetReady(Top.task) \/ SetWaiting(Top.task)
    /\ UNCHANGED <<locks, threads, last, success, completions, counters>>

GateOpen(t) ==
    \A i \in DOMAIN Net[tasks[t].spec].context :
        \A d \in Instances(tasks, t, Net[tasks[t].spec].context[i]) :
            In(tasks, d, {"COMPLETED"})

UpdateGate ==
    /\ Hook({"Gate"})
    /\ IF GateOpen(Top.task) THEN SetReady(Top.task) ELSE SetWaiting(Top.task)
    /\ UNCHANGED <<locks, threads, last, success, completions, counters>>

\* Mutants: the lock is tested, and not set; what is set is not what is tested.
UpdateAcquire_Test ==
    /\ Hook({"AcquireMutex"})
    /\ IF Net[tasks[Top.task].spec].mutex \in locks
       THEN SetWaiting(Top.task)
       ELSE SetReady(Top.task)
    /\ UNCHANGED <<locks, threads, last, success, completions, counters>>

UpdateAcquire_Name ==
    /\ Hook({"AcquireMutex"})
    /\ IF Net[tasks[Top.task].spec].mutex \in locks
       THEN SetWaiting(Top.task) /\ UNCHANGED locks
       ELSE SetReady(Top.task) /\ locks' = locks \union {tasks[Top.task].spec}
    /\ UNCHANGED <<threads, last, success, completions, counters>>

\* testandset: the lock is taken when the task becomes READY.
UpdateAcquire ==
    /\ Hook({"AcquireMutex"})
    /\ LET m == Net[tasks[Top.task].spec].mutex
       IN  IF m \in locks
           THEN SetWaiting(Top.task) /\ UNCHANGED locks
           ELSE SetReady(Top.task) /\ locks' = locks \union {m}
    /\ UNCHANGED <<threads, last, success, completions, counters>>

\* Join._update_hook: wait, raise, or start firing.  A READY join (its parent
\* is a ThreadStart) fires whatever its inputs, but has no list of waiting
\* tasks to cancel.
UpdateJoin ==
    /\ Hook({"Join"})
    /\ LET j    == Top.task
           s    == tasks[j].spec
           fire == <<Frame("join", j, {})>>
       IN  CASE In(tasks, j, FINISHED) ->
                    Return /\ UNCHANGED tasks
             [] In(tasks, j, {"READY"}) ->
                    IF Net[s].cancel THEN Raise ELSE ReturnTo(fire) /\ UNCHANGED tasks
             [] OTHER ->
                    IF SplitNotReached(tasks, j) THEN Raise
                    ELSE IF ~MayFire(tasks, j) THEN SetWaiting(j)
                    ELSE /\ ReturnTo((IF Net[s].cancel
                                      THEN [i \in DOMAIN WaitingTasks(tasks, j) |->
                                               Frame("cancel", j, WaitingTasks(tasks, j)[i])]
                                      ELSE <<>>) \o fire)
                         /\ UNCHANGED tasks
    /\ UNCHANGED <<locks, threads, last, success, completions, counters>>

\* task.cancel() of the next task of a list.  On a task that has been removed
\* it changes nothing in the tree.
CancelNext ==
    /\ Doing("cancel")
    /\ IF Top.todo = {} THEN Return /\ UNCHANGED tasks
       ELSE \E t \in Top.todo :
               /\ IsFirst(t, Top.todo)
               /\ CallWith(<<>>, Top.todo \ {t})
               /\ tasks' = IF t \in DOMAIN tasks THEN CancelBranch(tasks, t) ELSE tasks
    /\ UNCHANGED <<locks, threads, last, success, completions, counters>>

\* _do_join, then _ready.
JoinFires ==
    /\ Doing("join")
    /\ Top.task \in DOMAIN tasks
    /\ \E others \in {OtherInstances(tasks, Top.task)} :
          tasks' = Ready(DoJoin(tasks, others), Top.task)
    /\ Return
    /\ UNCHANGED <<locks, threads, last, success, completions, counters>>

-----------------------------------------------------------------------------
(* Completion *)

\* Mutants: nobody looks at the waiting tasks; the loop over the children ends
\* after the first.
CompleteTask_NoNotify ==
    /\ Doing("complete")
    /\ tasks' = SetState(tasks, {Top.task}, "COMPLETED")
    /\ ReturnTo(<<Frame("children", Top.task, Children(tasks, Top.task)),
                  Frame("finish", Top.task, {})>>)
    /\ UNCHANGED <<locks, threads, last, success, completions, counters>>

CompleteTask_FirstChild ==
    /\ Doing("complete")
    /\ LET children == Children(tasks, Top.task)
       IN  /\ tasks' = SetState(tasks, {Top.task}, "COMPLETED")
           /\ ReturnTo(<<Frame("children", Top.task, {c \in children : IsFirst(c, children)}),
                         Frame("visit", Top.task, {Root}),
                         Frame("finish", Top.task, {})>>)
    /\ UNCHANGED <<locks, threads, last, success, completions, counters>>

\* Task.complete: the state changes, then the children are updated, then
\* Workflow._task_completed_notify updates every waiting task.
CompleteTask ==
    /\ Doing("complete")
    /\ LET t == Top.task
       IN  /\ tasks' = SetState(tasks, {t}, "COMPLETED")
           /\ ReturnTo(<<Frame("children", t, Children(tasks, t)),
                         Frame("visit", t, {Root}),
                         Frame("finish", t, {})>>)
    /\ UNCHANGED <<locks, threads, last, success, completions, counters>>

\* _on_complete: the next child, unless it is finished.
ChildrenNext ==
    /\ Doing("children")
    /\ IF Top.todo = {} THEN Return
       ELSE \E c \in Top.todo :
               /\ IsFirst(c, Top.todo)
               /\ c \in DOMAIN tasks
               /\ CallWith(IF In(tasks, c, FINISHED) THEN <<>> ELSE UpdateFrames(c),
                           Top.todo \ {c})
    /\ UNCHANGED <<tasks, locks, threads, last, success, completions, counters>>

\* update_waiting_tasks: the next task of the TaskIterator.  Its children join
\* the list before it is updated, unless it is merely predicted.  A task that has
\* been removed meanwhile is passed over: the code would still update it if it
\* were WAITING, which takes a join inside a loop, what WorkflowSpec.validate
\* reports.
VisitNext ==
    /\ Doing("visit")
    /\ IF Top.todo = {} THEN Return
       ELSE \E t \in Top.todo :
               /\ IsFirst(t, Top.todo)
               /\ IF t \in DOMAIN tasks
                  THEN CallWith(IF In(tasks, t, {"WAITING"}) THEN UpdateFrames(t) ELSE <<>>,
                                (Top.todo \ {t})
                                    \union (IF In(tasks, t, PREDICTED) THEN {}
                                            ELSE Children(tasks, t)))
                  ELSE CallWith(<<>>, Top.todo \ {t})
    /\ UNCHANGED <<tasks, locks, threads, last, success, completions, counters>>

\* Mutant: the search for unfinished tasks starts at the task that has completed.
Finish_OwnBranch ==
    /\ Doing("finish")
    /\ completions' = IF Branch(tasks, Top.task) \intersect InState(tasks, NOT_FINISHED) = {}
                      THEN completions + 1
                      ELSE completions
    /\ last' = Top.task
    /\ Return
    /\ UNCHANGED <<tasks, locks, threads, success, counters>>

\* The rest of _task_completed_notify and of complete: completed_event has a
\* subscriber.
Finish ==
    /\ Doing("finish")
    /\ completions' = IF IsCompleted(tasks) THEN completions + 1 ELSE completions
    /\ last' = Top.task
    /\ Return
    /\ UNCHANGED <<tasks, locks, threads, success, counters>>

-----------------------------------------------------------------------------
(* Task.run of a READY task, between two calls *)

\* The kinds whose run hook just returns True.
Plain == {"Simple", "Join", "Gate", "AcquireMutex", "Execute", "Transform"}

Running(t, kinds) ==
    /\ Quiescent
    /\ t \in InState(tasks, {"READY"})
    /\ Kind(tasks[t].spec) \in kinds

\* The run hook has more to do before the task completes.
RunWith(t, frames) == calls' = frames \o <<Frame("complete", t, {})>>

\* The run hook raises: TaskSpec._run sets the state.
RunRaises(t) == tasks' = SetState(tasks, {t}, "ERROR") /\ UNCHANGED calls

\* The run hooks of choices and multiple tasks end with a prediction of the
\* children that they have just synchronized.
RunSplit(t, outs, n, looked) ==
    IF SyncRaises(tasks, t, outs, n)
    THEN RunRaises(t)
    ELSE /\ tasks' = SyncChildren(tasks, t, outs, n, "FUTURE")
         /\ RunWith(t, <<PredictFrame(t, InState(tasks', PREDICTED \union {"FUTURE"})
                                             \intersect Children(tasks', t),
                                      looked, PREDICTED \union {"FUTURE"})>>)

RunSimple(t) ==
    /\ Running(t, Plain)
    /\ RunWith(t, <<>>)
    /\ UNCHANGED <<tasks, locks, threads, last, success, completions, counters>>

\* The code of a task raises, or its run returns False.
RunFails(t) ==
    /\ Running(t, Plain)
    /\ Net[tasks[t].spec].fallible
    /\ faults < MaxFaults
    /\ RunRaises(t)
    /\ faults' = faults + 1
    /\ UNCHANGED <<locks, threads, last, success, completions, resets, cancels>>

\* The conditions depend on the data; any of them may match.
RunMultiChoice(t) ==
    /\ Running(t, {"MultiChoice"})
    /\ LET s == tasks[t].spec
       IN  \E matching \in SUBSET Net[s].cond :
              RunSplit(t, Pick(Outputs(s), (Specs \ Net[s].cond) \union matching),
                       Len(Outputs(s)), 0)
    /\ UNCHANGED <<locks, threads, last, success, completions, counters>>

\* The first condition that matches decides, or the default.
RunExclusiveChoice(t) ==
    /\ Running(t, {"ExclusiveChoice"})
    /\ LET s == tasks[t].spec
       IN  \E output \in (IF Len(t) < MaxDepth THEN Net[s].cond ELSE {}) \union {Net[s].default} :
              RunSplit(t, <<output>>, 1, 0)
    /\ UNCHANGED <<locks, threads, last, success, completions, counters>>

\* times is evaluated again, now with the data of the task.
RunMultiInstance(t) ==
    /\ Running(t, {"MultiInstance"})
    /\ LET s == tasks[t].spec
       IN  \E n \in Net[s].times : RunSplit(t, PredictedOutputs(s, n), OutputCount(s, n), 1)
    /\ UNCHANGED <<locks, threads, last, success, completions, counters>>

RunThreadSplit(t) ==
    /\ Running(t, {"ThreadSplit"})
    /\ LET s == tasks[t].spec
       IN  \E n \in Net[s].times :
              IF SyncRaises(tasks, t, PredictedOutputs(s, n), OutputCount(s, n))
              THEN RunRaises(t)
              ELSE /\ tasks' = SyncChildren(tasks, t, PredictedOutputs(s, n),
                                            OutputCount(s, n), "FUTURE")
                   /\ RunWith(t, <<>>)
    /\ UNCHANGED <<locks, threads, last, success, completions, counters>>

\* A new thread for the branch; the children become READY without a look at
\* their update hooks (these run when the ThreadStart completes).
RunThreadStart(t) ==
    /\ Running(t, {"ThreadStart"})
    /\ threads' = threads + 1
    /\ LET T    == AssignThread(tasks, t, threads + 1)
           outs == Outputs(tasks[t].spec)
       IN  IF SyncRaises(T, t, outs, Len(outs))
           THEN tasks' = SetState(T, {t}, "ERROR") /\ UNCHANGED calls
           ELSE tasks' = SyncChildren(T, t, outs, Len(outs), "READY") /\ RunWith(t, <<>>)
    /\ UNCHANGED <<locks, last, success, completions, counters>>

\* Releasing a lock that is not taken raises.
RunReleaseMutex(t) ==
    /\ Running(t, {"ReleaseMutex"})
    /\ LET m == Net[tasks[t].spec].mutex
       IN  /\ IF m \in locks THEN RunWith(t, <<>>) /\ UNCHANGED tasks ELSE RunRaises(t)
           /\ locks' = locks \ {m}
    /\ UNCHANGED <<threads, last, success, completions, counters>>

\* Workflow.cancel, the running task included; then the task completes.
RunCancel(t) ==
    /\ Running(t, {"Cancel"})
    /\ tasks' = CancelBranch(tasks, Root)
    /\ success' = Net[tasks[t].spec].cancel
    /\ RunWith(t, <<>>)
    /\ UNCHANGED <<locks, threads, last, completions, counters>>

RunCancelTask(t) ==
    /\ Running(t, {"CancelTask"})
    /\ LET context == Net[tasks[t].spec].context
       IN  RunWith(t, [i \in DOMAIN context |-> Frame("cancel", t, OfSpec(tasks, context[i]))])
    /\ UNCHANGED <<tasks, locks, threads, last, success, completions, counters>>

RunTask(t) ==
    \/ RunSimple(t)      \/ RunFails(t)
    \/ RunMultiChoice(t) \/ RunExclusiveChoice(t) \/ RunMultiInstance(t)
    \/ RunThreadSplit(t) \/ RunThreadStart(t)     \/ RunReleaseMutex(t)
    \/ RunCancel(t)      \/ RunCancelTask(t)

-----------------------------------------------------------------------------
(* The other public methods of Workflow *)

\* Called by run_next when no task is READY, and by an application whenever it likes.
UpdateWaitingTasks ==
    /\ Quiescent
    /\ calls' = <<Frame("visit", Root, {Root})>>
    /\ UNCHANGED <<tasks, locks, threads, last, success, completions, counters>>

\* Mutant: only the tasks that have been reached are cancelled.
Cancel_Reached ==
    /\ Quiescent
    /\ cancels < MaxCancels
    /\ cancels' = cancels + 1
    /\ \E s \in BOOLEAN : success' = s
    /\ tasks' = SetState(tasks, InState(tasks, {"READY", "WAITING"}), "CANCELLED")
    /\ UNCHANGED <<calls, locks, threads, last, completions, resets, faults>>

Cancel ==
    /\ Quiescent
    /\ cancels < MaxCancels
    /\ cancels' = cancels + 1
    /\ \E s \in BOOLEAN : success' = s
    /\ tasks' = CancelBranch(tasks, Root)
    /\ UNCHANGED <<calls, locks, threads, last, completions, resets, faults>>

\* Any task may be reset, whatever its state and that of the tasks before it.
MayReset == Quiescent /\ resets < MaxResets

\* reset_branch: everything below t goes, and t is predicted again.  Its data has
\* been copied from its parent, so times is known.
ResetBranch(t, frames) ==
    LET bare == SetState(RemoveBranches(tasks, Children(tasks, t)), {t}, "FUTURE")
        mask == PREDICTED \union {"FUTURE"}
    IN  \E n \in IF IsMultiple(tasks[t].spec) THEN Net[tasks[t].spec].times ELSE {1} :
           /\ tasks' = PredictHook(bare, t, n)
           /\ calls' = <<PredictFrame(t, PredictNext(tasks', t, 0, mask), 1, mask)>> \o frames

\* The root has no parent to copy data from: the call raises unless it is given data.
ResetFromTaskId(t) ==
    /\ MayReset
    /\ resets' = resets + 1
    /\ last' = IF t = Root THEN NoTask ELSE Parent(t)
    /\ \/ ResetBranch(t, <<Frame("hook", t, {})>>)
       \/ t = Root /\ UNCHANGED <<tasks, calls>>
    /\ UNCHANGED <<locks, threads, success, completions, cancels, faults>>

-----------------------------------------------------------------------------
(* The constructor predicts the whole net and makes the root READY. *)

Init ==
    /\ tasks = [t \in {Root} |-> [spec |-> Start, state |-> "FUTURE", thread |-> 0, born |-> 0]]
    /\ calls = <<PredictFrame(Root, {Root}, 0, NOT_FINISHED), Frame("hook", Root, {})>>
    /\ locks = {}
    /\ threads = 0
    /\ last = NoTask
    /\ success = TRUE
    /\ completions = 0
    /\ resets = 0
    /\ cancels = 0
    /\ faults = 0

Step ==
    \/ Predict    \/ UpdateSimple  \/ UpdateFails \/ UpdateExecute \/ UpdateGate
    \/ UpdateAcquire \/ UpdateJoin \/ CancelNext  \/ JoinFires     \/ CompleteTask
    \/ ChildrenNext  \/ VisitNext  \/ Finish

Run   == \E t \in DOMAIN tasks : RunTask(t)
Reset == \E t \in DOMAIN tasks : ResetFromTaskId(t)

Next == Step \/ Run \/ UpdateWaitingTasks \/ Cancel \/ Reset

Spec == Init /\ [][Next]_vars

\* The thread of the caller is never suspended for ever in the middle of a call, and an
\* application that uses run_all keeps running READY tasks, whatever else it calls between.
FairSpec == Spec /\ WF_vars(Step) /\ SF_vars(Run)

\* An application that only goes back: it resets what comes right behind a completed task.
InOrder(t)   == t # Root /\ In(tasks, Parent(t), {"COMPLETED"})
OrderlyReset == \E t \in DOMAIN tasks : InOrder(t) /\ ResetFromTaskId(t)
OrderlyNext  == Step \/ Run \/ UpdateWaitingTasks \/ Cancel \/ OrderlyReset
OrderlySpec  == Init /\ [][OrderlyNext]_vars
=============================================================================
