------------------------- MODULE WorkflowProperties -------------------------
(***************************************************************************)
(* What the engine of Workflow.tla is expected to guarantee.               *)
(***************************************************************************)
EXTENDS Workflow

FrameType ==
    [op : Ops, task : Path, todo : SUBSET Path, looked : Nat, mask : SUBSET ANY]

\* Every variable has its type.
TypeOK ==
    /\ IsTree(tasks, Specs)
    /\ calls \in Seq(FrameType)
    /\ locks \in SUBSET Mutexes
    /\ threads \in Nat /\ completions \in Nat
    /\ last \in Path
    /\ success \in BOOLEAN
    /\ resets \in 0..MaxResets /\ cancels \in 0..MaxCancels /\ faults \in 0..MaxFaults

-----------------------------------------------------------------------------
(* The tree *)

\* Whatever _remove_task, _drop_children and cancel take out of the tree, the
\* root stays, the parent of every live task is live and knows the child, and
\* Task.parent never returns None below the root.
TreeClosed == Closed(tasks)

\* No call in progress is about to work on a task that has been removed: the
\* lists of children and of predicted tasks are snapshots, and what is done for
\* one member must not remove another.
PendingLive ==
    \A i \in DOMAIN calls :
        /\ calls[i].op \in {"hook", "join", "complete", "children", "finish"} =>
               calls[i].task \in DOMAIN tasks
        /\ calls[i].op \in {"children", "predict"} => calls[i].todo \subseteq DOMAIN tasks

REACHED == {"WAITING", "READY", "COMPLETED", "ERROR"}

\* "Predicted tasks can follow definite tasks but not vice versa": the reason
\* why a TaskIterator that looks for definite tasks may skip what lies below a
\* predicted one, and update_waiting_tasks misses no WAITING task.
\* Between calls all that comes before what is waited for, is to be run or has been
\* run is completed (a join may have been cancelled since, in favour of another instance):
\* nothing is done behind a task that has failed or been cancelled.
DefiniteReachable ==
    /\ \A t \in InState(tasks, DEFINITE) \ {Root} : ~In(tasks, Parent(t), PREDICTED)
    /\ Quiescent =>
          \A t \in InState(tasks, REACHED), a \in DOMAIN tasks :
              Above(a, t) => \/ In(tasks, a, {"COMPLETED"})
                             \/ In(tasks, a, {"CANCELLED"}) /\ Kind(tasks[a].spec) = "Join"

Rank(state) ==
    CHOOSE i \in 1..9 :
        state = <<"MAYBE", "LIKELY", "FUTURE", "WAITING", "READY", "STARTED",
                  "COMPLETED", "ERROR", "CANCELLED">>[i]

\* The engine sets states by force, past the check of the setter of Task.state;
\* still no state goes backwards but by a reset; only a Cancel task, which cancels
\* the whole workflow, itself included, is completed afterwards.
StatesGoForward ==
    [][resets' # resets \/
       \A t \in DOMAIN tasks \intersect DOMAIN tasks' :
           \/ Rank(tasks'[t].state) >= Rank(tasks[t].state)
           \/ Kind(tasks[t].spec) = "Cancel" /\ In(tasks', t, FINISHED)]_vars

-----------------------------------------------------------------------------
(* Progress and completion *)

\* No task is READY, and one waits for the end of an external process.
WaitsOutside ==
    /\ InState(tasks, {"READY"}) = {}
    /\ \E t \in InState(tasks, {"WAITING"}) : Kind(tasks[t].spec) = "Execute"

\* When a call has returned and no task is READY, no task is left over either:
\* nobody waits for something that nobody will do, but for the end of a process.
NotStuck ==
    Quiescent /\ faults = 0 /\ cancels = 0 /\ InState(tasks, {"READY"}) = {} =>
        IsCompleted(tasks) \/ WaitsOutside

\* "FUTURE: The task will definitely be reached in the future": between calls, a
\* FUTURE task lies below a task that is not finished yet.
FutureIsReached ==
    Quiescent => \A t \in InState(tasks, {"FUTURE"}) \ {Root} :
                     ~In(tasks, Parent(t), {"COMPLETED"})

\* completed_event is never called before everything is finished, and never twice,
\* unless a task is reset.
SignalledInTime == resets = 0 => completions <= 1 /\ (completions = 1 => IsCompleted(tasks))

\* It is called exactly once, by the call that finishes the last task, and not by one
\* of the many that come close.
CompletionSignalled ==
    /\ SignalledInTime
    /\ Quiescent /\ faults = 0 /\ cancels = 0 /\ resets = 0 /\ IsCompleted(tasks) =>
          completions = 1

\* Once Workflow.cancel has been called there is nothing left that could ever run
\* or be waited for, whatever stage the branches were at (unless a task is reset).
CancelIsFinal == cancels > 0 /\ resets = 0 => IsCompleted(tasks)

\* run_all brings every workflow to its end, unless an external process never ends.
Termination == <>[](IsCompleted(tasks) \/ WaitsOutside)

-----------------------------------------------------------------------------
(* Joins *)

Fired == {j \in InState(tasks, {"READY", "COMPLETED"}) : Kind(tasks[j].spec) = "Join"}

\* Instances of a join that wait for the same branches: those of one thread and, if
\* the join is structured, of one time that its split has been reached.
Rivals(T, j, k) ==
    /\ T[j].spec = T[k].spec /\ T[j].thread = T[k].thread
    /\ Unstructured(T, j) \/ SplitTask(T, j) = SplitTask(T, k)

\* Of the instances of a join never two stand as READY or COMPLETED, however many branches
\* arrive at it and in whatever order: the one that fires takes back the others, one on
\* which the join fired before included.
OneFiringStands == \A j, k \in Fired : Rivals(tasks, j, k) => j = k

\* A join that has fired "still expects all other branches to complete": it does not fire
\* again, on another instance, when they do.
JoinFiresOnce == [][JoinFires => ~\E k \in Fired \ {Top.task} : Rivals(tasks, Top.task, k)]_vars

\* Unless the workflow is cancelled, an instance of a join is cancelled only in
\* favour of another one of its thread, on which the join fires: whatever
\* the order in which the branches arrive, the branches are not lost.
JoinNotLost ==
    Quiescent /\ cancels = 0 =>
        \A j \in InState(tasks, {"CANCELLED"}) : Kind(tasks[j].spec) = "Join" =>
            \E k \in Fired : /\ tasks[k].spec = tasks[j].spec
                             /\ tasks[k].thread = tasks[j].thread

\* "READY: All predecessors have completed" (or as many as the threshold says):
\* different predecessors, each in the thread of the join.
JoinHasInputs ==
    \A j \in Fired : Unstructured(tasks, j) =>
        Cardinality({i \in DOMAIN Inputs(tasks[j].spec) :
                        \E d \in Instances(tasks, j, Inputs(tasks[j].spec)[i]) :
                            In(tasks, d, {"COMPLETED"})}) >= Threshold(tasks, j)

\* When a structured join has fired that waits for all its branches, or that
\* cancels the rest, nothing is left to do between its split and the join.
JoinEndsRegion ==
    \A j \in Fired :
        (~Unstructured(tasks, j) /\ (Net[tasks[j].spec].threshold = 0 \/ Net[tasks[j].spec].cancel)) =>
            \A s \in SplitTask(tasks, j) :
                \A d \in Below(tasks, s) :
                    In(tasks, d, NOT_FINISHED) => d = j \/ Above(j, d)

\* "cancel all incoming branches except for the one that just completed": the
\* instance on which a join fires is not itself cancelled by then.
FiringJoinSurvives ==
    Doing("join") => Top.task \in DOMAIN tasks /\ In(tasks, Top.task, NOT_FINISHED)

-----------------------------------------------------------------------------
(* Gates, choices, threads and mutexes *)

\* All tasks behind a ThreadStart that has run are in its thread, up to the next
\* ThreadStart (which has a thread of its own once it has begun to run), and no two
\* ThreadStarts that have run share a thread: a join looks for its partners by thread.
ThreadsSeparate ==
    LET heads   == {a \in DOMAIN tasks : Kind(tasks[a].spec) = "ThreadStart"}
        started == heads \intersect InState(tasks, {"COMPLETED"})
    IN  /\ \A a \in started : \A d \in Below(tasks, a) :
               (\A b \in heads : Above(a, b) => d \notin Branch(tasks, b)) =>
                   tasks[d].thread = tasks[a].thread
        /\ \A a, b \in started : tasks[a].thread = tasks[b].thread => a = b

\* The critical sections of mutex m that have been entered and not been left.
OpenSections(m) ==
    {a \in InState(tasks, {"READY", "COMPLETED"}) :
        /\ Kind(tasks[a].spec) = "AcquireMutex"
        /\ Net[tasks[a].spec].mutex = m
        /\ ~\E r \in Below(tasks, a) : /\ Kind(tasks[r].spec) = "ReleaseMutex"
                                       /\ Net[tasks[r].spec].mutex = m
                                       /\ In(tasks, r, {"COMPLETED"})}

\* A mutex protects a section from being accessed by other sections, and it is
\* taken if and only if somebody is in a section.
MutexProtects ==
    Quiescent => \A m \in Mutexes :
        Cardinality(OpenSections(m)) = IF m \in locks THEN 1 ELSE 0

-----------------------------------------------------------------------------
(* What some theorems suppose of the net *)

\* No CancelTask names its own spec, nor one that comes before it.
SparesItself(after) ==
    LeadsTo(after) /\
    \A s \in Specs : Kind(s) = "CancelTask" =>
        \A i \in DOMAIN Net[s].context :
            Net[s].context[i] # s /\ s \notin after[Net[s].context[i]]

\* The children of a ThreadStart are READY at once, before their update hooks have been
\* asked; kinds are the kinds to which this must not happen.
NoneAtThreadStart(kinds) ==
    \A s \in Specs : Kind(s) = "ThreadStart" => \A o \in Follows(s) : Kind(o) \notin kinds

\* A thread comes to a spec only once: to a ThreadStart, for each has a thread of its own; to the
\* start, if nothing leads back to it; and to what comes after a single spec to which it
\* comes once, unless that multiplies its outputs.
ComesOnce(single, s) ==
    \/ Kind(s) = "ThreadStart"
    \/ s = Start /\ \A q \in Specs : s \notin Follows(q)
    \/ s # Start /\ \E p \in single : /\ ~IsMultiple(p)
                                      /\ \A q \in Specs : s \in Follows(q) => q = p

\* The inputs of the joins that count their inputs are such specs, and no joins themselves.
InputsOnce(single) ==
    /\ \A s \in single : s \in Specs /\ Kind(s) # "Join" /\ ComesOnce(single, s)
    /\ \A s \in Specs : Kind(s) = "Join" /\ Net[s].split = None =>
          \A i \in DOMAIN Inputs(s) : Inputs(s)[i] \in single

\* R holds what lies between the split of a structured join and the join: whatever begins
\* there comes to the join, there are no threads and no other joins in it, and nothing
\* outside cancels a part of it.
Region(join, R) ==
    /\ Net[join].split \in Specs /\ Kind(Net[join].split) # "ThreadSplit"
    /\ join \in R /\ Follows(Net[join].split) \subseteq R
    /\ \A s \in R \ {join} : /\ s \in Specs /\ Kind(s) # "Join"
                             /\ Follows(s) # {} /\ Follows(s) \subseteq R
                             /\ 0 \notin Net[s].times
    /\ \A s \in Specs :
          /\ Kind(s) \in {"ThreadSplit", "ThreadStart"} => Follows(s) \intersect R = {}
          /\ Kind(s) = "CancelTask" =>
                \A i \in DOMAIN Net[s].context : Net[s].context[i] \notin R \ {join}
          /\ Kind(s) = "Join" /\ Net[s].split = None /\ Net[s].cancel =>
                \A i \in DOMAIN Inputs(s) : Inputs(s)[i] \notin R \ {join}

\* inside gives the regions of the structured joins that wait for all their branches, or
\* that cancel the rest.
RegionsIn(inside) ==
    \A s \in Specs :
        (Kind(s) = "Join" /\ Net[s].split # None /\ (Net[s].threshold = 0 \/ Net[s].cancel))
            => Region(s, inside[s])

\* The kinds whose update hook may make a task wait that is READY.
Hesitant == {"Gate", "AcquireMutex", "Execute"}
=============================================================================
