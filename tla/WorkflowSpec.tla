---------------------------- MODULE WorkflowSpec ----------------------------
(***************************************************************************)
(* The static side of the engine: a WorkflowSpec, i.e. a net of TaskSpecs. *)
(* A spec is a record; the class of the Python object is its "kind".       *)
(* Nothing here changes while a workflow runs.                             *)
(***************************************************************************)
EXTENDS Naturals, Sequences, FiniteSets

CONSTANTS
    Net,    \* spec name -> record, see SpecRecord; WorkflowSpec.task_specs
    Start   \* the name of the start spec; WorkflowSpec.start

None == "none"  \* Python's None, for a field that names a spec or a mutex

Specs == DOMAIN Net

Kinds == {"Simple", "Join", "MultiChoice", "ExclusiveChoice", "MultiInstance",
          "ThreadSplit", "ThreadStart", "Gate", "AcquireMutex", "ReleaseMutex",
          "Cancel", "CancelTask", "Execute", "Transform"}

(***************************************************************************)
(* A spec record before it is wired: its kind, its outputs in connection   *)
(* order, and the parameters of its class at their defaults.               *)
(***************************************************************************)
TaskSpec(kind, outputs) ==
    [kind      |-> kind,
     outputs   |-> outputs,
     cond      |-> {},      \* MultiChoice: the outputs that carry a condition
     default   |-> None,    \* ExclusiveChoice: the default output
     split     |-> None,    \* Join: split_task; None is an unstructured join
     threshold |-> 0,       \* Join: 0 stands for threshold=None
     cancel    |-> FALSE,   \* Join: cancel_remaining; Cancel: cancel_successfully
     context   |-> <<>>,    \* Gate, CancelTask: the specs they refer to
     mutex     |-> None,    \* AcquireMutex, ReleaseMutex
     times     |-> {1},     \* MultiInstance, ThreadSplit: the values it can have
     fallible  |-> FALSE]   \* whether the code the task runs may fail

\* connect() and _connect_notify(): every output of p counts p as an input;
\* order lists the specs in the order in which they were connected.
Wired(order, specs) ==
    [s \in DOMAIN specs |->
        [f \in DOMAIN specs[s] \union {"inputs"} |->
            IF f = "inputs"
            THEN SelectSeq(order, LAMBDA p : \E i \in DOMAIN specs[p].outputs :
                                                 specs[p].outputs[i] = s)
            ELSE specs[s][f]]]

SpecRecord ==
    [kind : Kinds, outputs : Seq(Specs), inputs : Seq(Specs),
     cond : SUBSET Specs, default : Specs \union {None},
     split : Specs \union {None}, threshold : Nat, cancel : BOOLEAN,
     context : Seq(Specs), mutex : STRING, times : SUBSET Nat,
     fallible : BOOLEAN]

\* What the test() methods of the specs insist on, and connect() does: what a choice
\* chooses is among its outputs.  Besides: no spec is connected to another one twice,
\* and the times of a ThreadSplit are a constant, because a value that is not known
\* yet has no default there.
ASSUME NetAssumption ==
    /\ Start \in Specs
    /\ Net[Start].kind = "Simple"
    /\ \A s \in Specs :
          /\ Net[s] \in SpecRecord
          /\ Net[s].kind = "ExclusiveChoice" => Net[s].default \in Specs
          /\ Net[s].kind \in {"AcquireMutex", "ReleaseMutex"} => Net[s].mutex # None
          /\ Net[s].kind \in {"MultiInstance", "ThreadSplit"} => Net[s].times # {}
          /\ \A i, k \in DOMAIN Net[s].inputs : Net[s].inputs[i] = Net[s].inputs[k] => i = k
          /\ \A i, k \in DOMAIN Net[s].outputs : Net[s].outputs[i] = Net[s].outputs[k] => i = k
          /\ Net[s].kind = "ThreadSplit" => Cardinality(Net[s].times) = 1
          /\ Net[s].kind = "ExclusiveChoice" =>
                \A o \in Net[s].cond \union {Net[s].default} :
                    \E i \in DOMAIN Net[s].outputs : Net[s].outputs[i] = o

Kind(s)    == Net[s].kind
Outputs(s) == Net[s].outputs
Inputs(s)  == Net[s].inputs

\* WorkflowSpec.validate reports a join from which connections lead back to it.
\* after[s] holds all specs to which connections lead from s.
Follows(s) == {Outputs(s)[i] : i \in DOMAIN Outputs(s)}

LeadsTo(after) ==
    \A s \in Specs : /\ Follows(s) \subseteq after[s]
                     /\ \A o \in after[s] : Follows(o) \subseteq after[s]

NoLoopsIn(after) == LeadsTo(after) /\ \A s \in Specs : Kind(s) = "Join" => s \notin after[s]

Mutexes == {Net[s].mutex : s \in Specs} \ {None}

\* outputs * n of MultiInstance, [thread_starter] * n of ThreadSplit.
Repeat(outs, n) == [i \in 1..(n * Len(outs)) |-> outs[((i - 1) % Len(outs)) + 1]]

\* The members of a list of outputs that are in S, at their places.
Pick(outs, S) == [i \in {k \in 1..Len(outs) : outs[k] \in S} |-> outs[i]]

\* The number of instances predicted while the task has no data yet: the
\* constant if times is one, otherwise valueof()'s default.
PredictedTimes(s) == IF Cardinality(Net[s].times) = 1
                     THEN CHOOSE n \in Net[s].times : TRUE
                     ELSE 1
=============================================================================
