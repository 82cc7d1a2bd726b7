-------------------------------- MODULE Join --------------------------------
(***************************************************************************)
(* What a Join decides by looking at the task tree: which tasks it counts, *)
(* whether it may fire, which tasks a cancelling join cancels, and which   *)
(* other instances of itself it cancels when it fires.  These are the      *)
(* side-effect free parts of specs/Join.py; Workflow.tla has the steps.    *)
(***************************************************************************)
EXTENDS WorkflowSpec, TaskTree

Unstructured(T, j) == Net[T[j].spec].split = None

\* The instances of the spec s in the thread of the join instance j.
Instances(T, j, s) == {d \in OfSpec(T, s) : T[d].thread = T[j].thread}

-----------------------------------------------------------------------------
(* Unstructured joins count the completed instances of their inputs. *)

InputTasks(T, j) ==
    UNION {Instances(T, j, Inputs(T[j].spec)[i]) : i \in DOMAIN Inputs(T[j].spec)}

CompletedInputs(T, j) == {d \in InputTasks(T, j) : d = Root \/ In(T, d, {"COMPLETED"})}

-----------------------------------------------------------------------------
(* Structured joins look at the branches that their split task started. *)

SplitTask(T, j) == Nearest(T, j, Net[T[j].spec].split)

\* _get_activated_tasks: the children of the split task; for a ThreadSplit
\* those of its ThreadStart above the join.
ActivatedTasks(T, j) ==
    LET split == SplitTask(T, j)
        start == IF Kind(Net[T[j].spec].split) = "ThreadSplit"
                 THEN Nearest(T, j, Outputs(Net[T[j].spec].split)[1])
                 ELSE split
    IN  UNION {Children(T, s) : s \in start}

\* A branch may still reach the join if it holds an instance of the join or a
\* predicted task whose outputs are not all there yet.
BranchMayMerge(T, b, join) ==
    \E d \in Branch(T, b) :
        \/ T[d].spec = join
        \/ In(T, d, PREDICTED) /\ Len(Outputs(T[d].spec)) > Cardinality(Children(T, d))

\* Mutant: one instance of the join hides everything else in the branch.
BranchIsComplete_AnyInstance(T, b, join) ==
    \E s \in Branch(T, b) : T[s].spec = join

\* A branch is complete if all that is unfinished in it is at the join or
\* behind it.
BranchIsComplete(T, b, join) ==
    LET open == Branch(T, b) \intersect InState(T, NOT_FINISHED)
    IN  \A d \in open : \E s \in open : T[s].spec = join /\ (s = d \/ Above(s, d))

CompleteBranches(T, j) ==
    {b \in ActivatedTasks(T, j) : \/ ~BranchMayMerge(T, b, T[j].spec)
                                  \/ BranchIsComplete(T, b, T[j].spec)}

-----------------------------------------------------------------------------
(* The decision *)

\* Mutant: a structured join waits for every output of its split.
Threshold_AllOutputs(T, j) ==
    IF Net[T[j].spec].threshold # 0 THEN Net[T[j].spec].threshold
    ELSE IF Unstructured(T, j) THEN Len(Inputs(T[j].spec))
    ELSE Len(Outputs(Net[T[j].spec].split))

\* The number of inputs (or branches) that have to be complete.
Threshold(T, j) ==
    IF Net[T[j].spec].threshold # 0 THEN Net[T[j].spec].threshold
    ELSE IF Unstructured(T, j)      THEN Len(Inputs(T[j].spec))
    ELSE Cardinality(ActivatedTasks(T, j))

\* Mutant: off by one.
MayFire_OneShort(T, j) ==
    Cardinality(IF Unstructured(T, j) THEN CompletedInputs(T, j) ELSE CompleteBranches(T, j)) + 1
        >= Threshold(T, j)

MayFire(T, j) ==
    IF Unstructured(T, j)
    THEN Cardinality(CompletedInputs(T, j)) >= Threshold(T, j)
    ELSE Cardinality(CompleteBranches(T, j)) >= Threshold(T, j)

\* 'Join with %s, which was not reached'
SplitNotReached(T, j) == ~Unstructured(T, j) /\ SplitTask(T, j) = {}

\* Mutant: all branches up to a structured join are cancelled, the complete ones included.
WaitingTasks_AllBranches(T, j) == IF Unstructured(T, j) THEN <<>> ELSE <<ActivatedTasks(T, j)>>

\* What a cancelling join cancels, one set after the other: the unfinished
\* tasks of every input, or the incomplete branches.
WaitingTasks(T, j) ==
    IF Unstructured(T, j)
    THEN [i \in DOMAIN Inputs(T[j].spec) |->
             {d \in Instances(T, j, Inputs(T[j].spec)[i]) : d # Root /\ In(T, d, NOT_FINISHED)}]
    ELSE <<ActivatedTasks(T, j) \ CompleteBranches(T, j)>>

\* Mutant: the instance that fires is one of those to cancel.
OtherInstances_Self(T, j) == Instances(T, j, T[j].spec)

\* _find_tasks without the join instance itself: the other instances of the
\* join in its thread, below the split task; those behind it are kept out only
\* if the join is structured.
OtherInstances(T, j) ==
    {d \in Instances(T, j, T[j].spec) \ {j} :
        /\ \/ Unstructured(T, j)
           \/ SplitTask(T, j) = {}
           \/ \E s \in SplitTask(T, j) : s = d \/ Above(s, d)
        /\ Unstructured(T, j) \/ ~Above(j, d)}

\* Mutant: only the instances that have been reached are cancelled.
DoJoin_WaitingOnly(T, others) ==
    SetState(T, others \intersect InState(T, {"WAITING"}), "CANCELLED")

\* _do_join.  An instance that is removed with one that precedes it is not in
\* the result.
DoJoin(T, others) ==
    LET dropped == DropChildren(T, others)
    IN  SetState(dropped, others \intersect DOMAIN dropped, "CANCELLED")
=============================================================================
