---------------------------- MODULE BpmnProcess ----------------------------
(***************************************************************************)
(* The static side of a BPMN workflow: its processes, their task specs and *)
(* the events these throw and catch; and how a task of any of the nested   *)
(* trees is named and looked up.                                           *)
(*                                                                         *)
(* A workflow of the code (the top one, or a subprocess) is named by the   *)
(* path of its root: <<>>, or the path of the task that owns it with a     *)
(* slot 0 appended.  A task is a pair of a workflow and a path in its      *)
(* tree.  Both parts appended order the tasks as a BpmnTaskIterator visits *)
(* them: the subprocess of a task before its children.                     *)
(***************************************************************************)
EXTENDS TaskTree, Folds

CONSTANTS
    Net,   \* spec name -> record: the task specs of all processes
    Tops,  \* the processes that an application may start
    Event  \* the name of an event definition -> EventDef

None == "none"

\* The parameters of a spec at their defaults.
BpmnSpec(process, kind, outputs) ==
    [process |-> process, kind |-> kind, outputs |-> outputs,
     cond    |-> {},         \* gateways: the outputs that carry a condition
     default |-> None,       \* exclusive gateway: the default output
     split   |-> None,       \* joins of events: the split they belong to
     cancel  |-> FALSE,      \* cancel_activity, cancel_remaining
     event   |-> None,       \* the event definition of an event
     calls   |-> None,       \* subprocesses: the process they run
     manual  |-> FALSE]

\* An event definition.  A code None of an error or an escalation matches any.
EventDef(kind, name) ==
    [kind |-> kind, name |-> name,
     correlated |-> FALSE,   \* message: it has correlation properties
     cycles     |-> 0,       \* cycle timer: the number of its cycles
     events     |-> {},      \* multiple: the names of its events, of which one is
     parallel   |-> FALSE]   \* awaited, or all

\* The inputs of the specs, in the order in which order lists these.
Connected(order, specs) ==
    [s \in DOMAIN specs |->
        [f \in DOMAIN specs[s] \union {"inputs"} |->
            IF f = "inputs"
            THEN SelectSeq(order, LAMBDA p : \E i \in DOMAIN specs[p].outputs :
                                                 specs[p].outputs[i] = s)
            ELSE specs[s][f]]]

Specs     == DOMAIN Net
Kind(s)   == Net[s].kind
Members(seq) == {seq[i] : i \in DOMAIN seq}

CatchingKinds == {"Catch", "Boundary", "StartEvent", "EventGateway"}
ThrowingKinds == {"Throw", "EndEvent"}
GatewayJoins  == {"Parallel", "Inclusive", "EndJoin"}
JoinKinds     == GatewayJoins \union {"BoundaryJoin", "StartJoin"}

StartOf(p)  == CHOOSE s \in Specs : Net[s].process = p /\ Kind(s) = "Start"
Processes   == {Net[s].process : s \in Specs}
\* A task whose completion decides which instance of a gateway goes on.
FeedsJoin(s) == \E i \in DOMAIN Net[s].outputs : Kind(Net[s].outputs[i]) \in GatewayJoins

\* EventDefinition.__eq__ and its overrides; d is the definition that catches.
SameEvent(def, e) ==
    \E d \in {def} \union {Event[n] : n \in def.events} :
        /\ d.kind = e.kind
        /\ d.kind \in {"message", "signal", "timer", "cycle"} => d.name = e.name
        /\ d.kind \in {"error", "escalation"} => d.name \in {None, e.name}

-----------------------------------------------------------------------------
(* Naming and finding tasks in the state S of the engine (BpmnEngine.tla). *)

Wf(x) == x[1]
At(x) == x[2]
FullPath(x) == x[1] \o x[2]
Sub(x) == Append(FullPath(x), 0)
Depth(w) == Cardinality({i \in DOMAIN w : w[i] = 0})

Exists(S, x) == x[1] \in DOMAIN S.wfs /\ x[2] \in DOMAIN S.wfs[x[1]]
TaskOf(S, x) == S.wfs[x[1]][x[2]]
Has(S, x, states) == S.wfs[x[1]][x[2]].state \in states
KindOf(S, x) == Kind(TaskOf(S, x).spec)
HasSub(S, x) == Sub(x) \in DOMAIN S.wfs
Over(x) == <<Wf(x), Parent(At(x))>>

InWf(w, paths) == {<<w, t>> : t \in paths}
TasksOf(S, w) == InWf(w, DOMAIN S.wfs[w])
Kids(S, x)    == InWf(Wf(x), Children(S.wfs[Wf(x)], At(x)))

\* parent_task_id: the task x with Sub(x) = w.
OwnerOf(w) ==
    LET path == SubSeq(w, 1, Len(w) - 1)
        cut  == CHOOSE i \in 0..Len(path) :
                   /\ i = 0 \/ path[i] = 0
                   /\ \A j \in (i + 1)..Len(path) : path[j] # 0
    IN  <<SubSeq(path, 1, cut), SubSeq(path, cut + 1, Len(path))>>

\* A subprocess that hangs below a task which has been removed from its tree.
IsOrphan(S, w) == \E v \in DOMAIN S.wfs \ {Root} : (v = w \/ Above(v, w)) /\ ~Exists(S, OwnerOf(v))

\* get_tasks of a workflow: the top one looks into its subprocesses as well.
Scope(S, w) ==
    IF w = Root THEN UNION {TasksOf(S, v) : v \in {u \in DOMAIN S.wfs : ~IsOrphan(S, u)}}
    ELSE TasksOf(S, w)

\* The tasks an iterator finds that looks for definite states: it does not look
\* behind predicted tasks.
Found(S, w, states) ==
    {x \in Scope(S, w) :
        /\ Has(S, x, states)
        /\ \A a \in DOMAIN S.wfs[Wf(x)] :
              Above(a, At(x)) => ~In(S.wfs[Wf(x)], a, PREDICTED)}

Earlier(x, y) == Precedes(FullPath(x), FullPath(y))
First(X) == CHOOSE x \in X : \A y \in X \ {x} : Earlier(x, y)
Last(X)  == CHOOSE x \in X : \A y \in X \ {x} : Earlier(y, x)

\* for x in X: S = Op(S, x), in the order of iteration.
ForEach(Op(_, _), S, X) ==
    MapThenFoldSet(LAMBDA x, acc : Op(acc, x), S, LAMBDA x : x, Last, X)

Ordered(X) ==
    [i \in 1..Cardinality(X) |-> CHOOSE x \in X : Cardinality({y \in X \ {x} : Earlier(y, x)}) = i - 1]

\* get_active_subprocesses, the deepest first, then in the order of creation.
ActiveSubs(S) ==
    LET active == SelectSeq(S.subs, LAMBDA w : ~IsCompleted(S.wfs[w]))
        rank(i) == Cardinality({j \in DOMAIN active :
                       \/ Depth(active[j]) > Depth(active[i])
                       \/ Depth(active[j]) = Depth(active[i]) /\ j <= i})
    IN  [k \in DOMAIN active |-> active[CHOOSE i \in DOMAIN active : rank(i) = k]]
=============================================================================
