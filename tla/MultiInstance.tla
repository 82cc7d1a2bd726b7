--------------------------- MODULE MultiInstance ---------------------------
(***************************************************************************)
(* StandardLoopTask, SequentialMultiInstanceTask and                       *)
(* ParallelMultiInstanceTask: a task that creates instances of another     *)
(* one, each as a triggered child of its own, and merges the result of     *)
(* each instance into its data or into a collection.                       *)
(*                                                                         *)
(* The loop task is updated when it is reached, and, as long as it is      *)
(* WAITING, whenever any task of the workflow completes, its instances     *)
(* included.  A result is one variable of the task data.                   *)
(***************************************************************************)
EXTENDS Integers, Sequences, FiniteSets

\* The loop tasks, as records: their mode; the size of the input (the cardinality, or
\* the maximum of a standard loop, if it is limited by one); the kind of the input
\* ("count", or a collection with keys, "list" or "map", or without, "set", or
\* "missing"); what the output is ("data" when there is none and the task data are
\* merged, "new", an existing empty "list" or "map", a list that is "used", or in
\* "place" of the input); whether the input item is "named", or it "exists" already in
\* the data of the loop task, or the output item does ("result exists"); the first
\* item that is None, or 0; whether there is a condition and whether it is tested first.
CONSTANTS
    Loops,
    Results,
    MaxInstances   \* bound: the condition of a loop without a maximum holds by then

Nothing == "nothing"
Before  == "before"

Modes == {"standard", "sequential", "parallel"}

LoopType ==
    [mode : Modes, size : Nat, limited : BOOLEAN,
     input : {"count", "list", "map", "set", "missing"},
     output : {"data", "new", "list", "used", "map", "place"},
     item : {"none", "named", "exists", "result exists"}, none : Nat,
     condition : BOOLEAN, first : BOOLEAN]

ASSUME LoopsAssumption ==
    /\ Loops \subseteq LoopType
    /\ \A l \in Loops : l.limited \/ l.condition
    /\ MaxInstances \in Nat
    /\ {Nothing, Before} \intersect Results = {}

VARIABLES
    loop,    \* the loop task
    state,   \* its state
    kids,    \* the states of its instances, in the order of their creation
    results, \* what is in their data
    merged,  \* internal_data['merged'], in the order of merging
    output,  \* the collection (or the value of the variable, at 1)
    raised   \* an update of the loop task has raised

vars == <<loop, state, kids, results, merged, output, raised>>

UNFINISHED == {"WAITING", "READY"}
FINISHED   == {"COMPLETED", "ERROR", "CANCELLED"}

-----------------------------------------------------------------------------
(* Merging the instances that have come to an end *)

Collects == loop.output # "data"

\* The item whose name an instance is to be given, or under which it is to leave its
\* result, is in the data of the loop task already: create_child raises.
ItemExists == loop.item \in {"exists", "result exists"}

\* The keys of the instances are kept (create_child does so after it might have
\* raised), and the output has keys: a mapping, or the input itself.  In every other
\* case the results are appended.
HasKeys   == loop.input \in {"list", "map"} \/ (loop.input = "count" /\ loop.mode = "parallel")
IsMapping == loop.output = "map" \/ (loop.output \in {"new", "place"} /\ loop.input = "map")
Keyed     == HasKeys /\ ~ItemExists /\ (IsMapping \/ loop.output = "place")

\* The members of a list.
Members(s) == {s[n] : n \in DOMAIN s}

\* Without an input nothing is done; init_data_output_with_cardinality and
\* init_data_output_with_input_data refuse an output that exists beside a cardinality
\* (by a NameError: the name of the variable is misspelt), a list that is not empty, and
\* a set that is to be updated in place.
OutputRefused ==
    \/ loop.input = "missing"
    \/ loop.input = "count" /\ loop.output \in {"list", "map", "place"}
    \/ loop.input = "set" /\ loop.output = "place"
    \/ loop.output = "used"

\* Mutant: a failed instance counts as running.
Unfinished_Failed(K) == {i \in DOMAIN K : K[i] \in UNFINISHED \union {"ERROR"}}

Unfinished(K) == {i \in DOMAIN K : K[i] \in UNFINISHED}

\* Mutant: nobody looks into the list of merged instances.
New_Any(K) == {i \in DOMAIN K : K[i] \in FINISHED}

New(K) == {i \in DOMAIN K : K[i] \in FINISHED} \ Members(merged)

\* child_completed_action raises when there is no output item, and when it has to
\* append to a mapping.
Refused(K, R) ==
    {i \in New(K) : Collects /\ (R[i] = Nothing \/ (IsMapping /\ ~Keyed))}

\* process_children goes through the instances in their order.
Taken(K, R) == {i \in New(K) : \A j \in Refused(K, R) : i < j}

\* The n-th member of a set of numbers, and all of them in their order.
Nth(S, n) == CHOOSE i \in S : Cardinality({j \in S : j <= i}) = n
InOrder(S) == [n \in 1..Cardinality(S) |-> Nth(S, n)]

Stored(taken, R) ==
    CASE ~Collects -> [x \in {1} |-> IF taken = {} THEN output[1]
                                     ELSE R[CHOOSE i \in taken : \A j \in taken : j <= i]]
      [] Collects /\ Keyed ->
             [x \in DOMAIN output \union taken |-> IF x \in taken THEN R[x] ELSE output[x]]
      [] OTHER -> output \o [n \in DOMAIN InOrder(taken) |-> R[InOrder(taken)[n]]]

-----------------------------------------------------------------------------
(* Creating instances and coming to an end *)

\* Merged data are inherited by the next instance, and come back with its own.
Inherited(out) ==
    CASE ~Collects -> out[1]
      [] Collects /\ loop.item = "result exists" -> Before
      [] OTHER -> Nothing

\* create_child raises when the item exists, which the input item does as soon as the
\* data of an instance have been merged into those of the loop task.
CreationFails(taken) ==
    /\ loop.mode # "standard"
    /\ ItemExists \/ (loop.item = "named" /\ ~Collects /\ taken # << >>)

\* The instance has been added by then, but it has not been updated.
NewState(taken) ==
    IF loop.mode = "standard" \/ CreationFails(taken) THEN "WAITING" ELSE "READY"

\* The instances of a parallel loop when it is reached.
AtOnce ==
    CASE loop.mode # "parallel" -> 0
      [] loop.mode = "parallel" /\ CreationFails(<< >>) /\ loop.size > 0 -> 1
      [] OTHER -> loop.size

\* A sequential loop stops at the first item that is None.
Planned ==
    IF loop.mode = "sequential" /\ loop.none \in 1..loop.size THEN loop.none - 1 ELSE loop.size

\* Mutant: the last item is left out.
NoMore_Early(K) == loop.mode # "parallel" /\ Len(K) + 1 >= Planned

\* The items are used up, or the maximum has been reached (but a loop that is not
\* tested first runs once in any case).
NoMore(K) ==
    \/ loop.mode = "parallel"
    \/ loop.mode = "sequential" /\ Len(K) >= Planned
    \/ /\ loop.mode = "standard" /\ loop.limited
       /\ loop.first \/ merged' # << >>
       /\ Len(merged') >= loop.size

\* The values that the condition may have; without a condition, or before there is
\* an instance on whose data to evaluate it, the loop goes on.
Conditions ==
    CASE ~loop.condition \/ (merged' = << >> /\ ~(loop.mode = "standard" /\ loop.first)) -> {FALSE}
      [] loop.condition /\ ~loop.limited /\ Len(merged') >= MaxInstances /\ merged' # << >> -> {TRUE}
      [] OTHER -> BOOLEAN

\* Mutant: the instances that are left over go on.
Cancelled_Not(K) == K

\* Every instance that is not COMPLETED is told to cancel; for one that has failed
\* this has no effect.
Cancelled(K) ==
    [i \in DOMAIN K |-> IF i \in Unfinished(K) THEN "CANCELLED" ELSE K[i]]

Go(K, R, holds) ==
    \/ /\ Unfinished(K) # {} /\ ~(holds /\ loop.mode = "parallel")
       /\ state' = "WAITING" /\ kids' = K /\ results' = R /\ UNCHANGED raised
    \/ /\ Unfinished(K) = {} /\ ~holds /\ ~NoMore(K)
       /\ state' = "WAITING"
       /\ kids' = Append(K, NewState(merged'))
       /\ results' = Append(R, Inherited(output'))
       /\ raised' = (raised \/ CreationFails(merged'))
    \/ /\ Unfinished(K) = {} /\ (holds \/ NoMore(K))
       /\ state' = "READY" /\ kids' = K /\ results' = R /\ UNCHANGED raised
    \/ /\ Unfinished(K) # {} /\ holds /\ loop.mode = "parallel"
       /\ state' = "READY" /\ kids' = Cancelled(K) /\ results' = R /\ UNCHANGED raised

\* _update_hook, with K and R the instances at that moment.
Update(K, R) ==
    /\ merged' = merged \o InOrder(Taken(K, R))
    /\ output' = Stored(Taken(K, R), R)
    /\ \/ /\ Refused(K, R) # {}
          /\ raised' = TRUE
          /\ kids' = K /\ results' = R /\ UNCHANGED state
       \/ /\ Refused(K, R) = {}
          /\ \E holds \in Conditions : Go(K, R, holds)
    /\ UNCHANGED loop

-----------------------------------------------------------------------------
(* The actions *)

\* The collection, as the loop finds it.
Original ==
    CASE loop.output = "data"  -> [x \in {1} |-> Before]
      [] loop.output = "place" -> [x \in 1..loop.size |-> Before]
      [] OTHER -> << >>

Init ==
    /\ loop \in Loops
    /\ state = "FUTURE"
    /\ kids = << >> /\ results = << >> /\ merged = << >>
    /\ output = Original
    /\ raised = FALSE

\* The task is reached; create_children creates all instances of a parallel loop, or
\* raises when it has added the first one: at later updates the task is WAITING, and no
\* more are created.
Start ==
    /\ state = "FUTURE" /\ ~raised
    /\ \/ OutputRefused /\ raised' = TRUE /\ UNCHANGED <<loop, state, kids, results, merged, output>>
       \/ /\ ~OutputRefused /\ AtOnce > 0 /\ CreationFails(<< >>)
          /\ state' = "WAITING" /\ raised' = TRUE
          /\ kids' = <<NewState(<< >>)>> /\ results' = <<Inherited(output)>>
          /\ UNCHANGED <<loop, merged, output>>
       \/ /\ ~OutputRefused /\ ~(AtOnce > 0 /\ CreationFails(<< >>))
          /\ Update([i \in 1..AtOnce |-> "READY"], [i \in 1..AtOnce |-> Inherited(output)])

\* refresh_waiting_tasks, or some other task has completed.
Refresh == state = "WAITING" /\ Update(kids, results)

\* An instance that has not been updated by the loop task is, as any WAITING task.
InstanceReached(i) ==
    /\ kids[i] = "WAITING"
    /\ kids' = [kids EXCEPT ![i] = "READY"]
    /\ UNCHANGED <<loop, state, results, merged, output, raised>>

\* An instance completes, with a value for its result or with what it had.
CompleteInstance(i) ==
    /\ kids[i] = "READY"
    /\ \E r \in Results \union {results[i]} :
           Update([kids EXCEPT ![i] = "COMPLETED"], [results EXCEPT ![i] = r])

\* An instance raises, and nobody is told.
FailInstance(i) ==
    /\ kids[i] = "READY"
    /\ kids' = [kids EXCEPT ![i] = "ERROR"]
    /\ UNCHANGED <<loop, state, results, merged, output, raised>>

CompleteLoop ==
    /\ state = "READY"
    /\ state' = "COMPLETED"
    /\ UNCHANGED <<loop, kids, results, merged, output, raised>>

\* Task.cancel, by a boundary event or of the workflow: unfinished instances are
\* removed from the tree.
CancelLoop ==
    /\ state \in UNFINISHED
    /\ state' = "CANCELLED"
    /\ kids' = [i \in DOMAIN kids |-> IF i \in Unfinished(kids) THEN "REMOVED" ELSE kids[i]]
    /\ UNCHANGED <<loop, results, merged, output, raised>>

RunInstance(i) == InstanceReached(i) \/ CompleteInstance(i) \/ FailInstance(i)

Next ==
    \/ Start \/ Refresh \/ CompleteLoop \/ CancelLoop
    \/ \E i \in DOMAIN kids : RunInstance(i)

Spec == Init /\ [][Next]_vars

\* Whoever uses the workflow goes on running its tasks, one way or the other, and
\* refreshes it.
FairSpec ==
    /\ Spec
    /\ WF_vars(Start) /\ WF_vars(Refresh) /\ WF_vars(CompleteLoop)
    /\ WF_vars(\E i \in DOMAIN kids : RunInstance(i))

-----------------------------------------------------------------------------
(* What is expected *)

Outstanding == {i \in DOMAIN kids : kids[i] \notin {"CANCELLED", "REMOVED"}}
Ended       == {i \in DOMAIN kids : kids[i] \in {"COMPLETED", "ERROR"}}

\* Every loop task keeps the contract: whatever fails or is cancelled, and in
\* whatever order the instances end, each result is taken over once, a sequential
\* loop has one instance at a time, and a loop that is over has nothing left.
Contract ==
    INSTANCE LoopContract WITH
        serial <- loop.mode # "parallel",
        open   <- state \in {"FUTURE", "WAITING"},
        given  <- Outstanding,
        done   <- Ended,
        taken  <- Members(merged)

ContractKept == Contract!Spec

\* create_children has raised at the first item: the parallel loop has no instances for
\* the others, and never will.
CutShort == loop.mode = "parallel" /\ ItemExists

\* A loop without a condition that comes to its end by itself has merged all its
\* instances, and, unless it was cut short when it was reached, it has run one for every
\* item and no more: a sequential loop even if the creation of each of them raised.
AllItemsRun ==
    state \in {"READY", "COMPLETED"} /\ ~loop.condition =>
        /\ Members(merged) = DOMAIN kids
        /\ ~CutShort =>
               Len(kids) = IF loop.mode = "standard" /\ ~loop.first /\ loop.size = 0 THEN 1 ELSE Planned

\* Every instance is merged once; and the output has their results and no others: under
\* their keys, with the input in place of the other items, or as one entry for each, in
\* the order of merging, behind what the collection held.
OutputFaithful ==
    Collects =>
        /\ \A m, n \in DOMAIN merged : merged[m] = merged[n] => m = n
        /\ IF Keyed
           THEN /\ Members(merged) \subseteq DOMAIN output
                /\ \A x \in DOMAIN output :
                       output[x] = IF x \in Members(merged) THEN results[x] ELSE Before
           ELSE output = Original \o [n \in DOMAIN merged |-> results[merged[n]]]

\* Every loop ends, also after the creation of an instance has raised, unless it was
\* refused at the beginning or an instance has left a result that cannot be collected:
\* each instance that ends, well or not, makes it go on.
LoopEnds ==
    <>(OutputRefused \/ Refused(kids, results) # {} \/ state \in {"COMPLETED", "CANCELLED"})
=============================================================================
