---------------------------- MODULE BpmnDiagram ----------------------------
(***************************************************************************)
(* What a BPMN parser reads and what it makes: the elements of the XML     *)
(* documents, reduced to what the parser looks at, and the task specs of a *)
(* process.                                                                *)
(*                                                                         *)
(* A diagram is a record of                                                *)
(*   nodes      the flow nodes, by their ids                               *)
(*   processes  the processes and the embedded subprocesses, by their ids  *)
(*   files      what each file contains                                    *)
(***************************************************************************)
EXTENDS Naturals, Sequences, FiniteSets, TLC

CONSTANTS
    Diagrams,   \* the diagrams to be parsed
    NoProcess,  \* no process
    NoSpec      \* no spec

Flow(target, cond) == [to |-> target, cond |-> cond]

\* default is the number of the default flow, or 0; bounds are the boundary events
\* attached to the node, data its data associations, called what it calls, scripts the
\* number of script elements in it.
Node(tag, flows) ==
    [tag |-> tag, flows |-> flows, default |-> 0, y |-> 0, bounds |-> <<>>,
     loop |-> "none", events |-> <<>>, interrupts |-> TRUE, data |-> <<>>,
     called |-> NoProcess, scripts |-> 1]

\* A reference to a data object is not one to a data store.
DataRef(name, stored) == [name |-> name, stored |-> stored]

\* parent is the process in which an embedded subprocess lies.
Process(starts, ends, objects) ==
    [executable |-> TRUE, starts |-> starts, ends |-> ends, objects |-> objects,
     parent |-> NoProcess]

\* calls are the elements called by each of the processes, and collaborations names
\* the participants.
File(processes, calls, stored) ==
    [processes |-> processes, calls |-> calls, stores |-> stored, collaborations |-> <<>>]

\* The definition of an event; key is the correlation key its message belongs to. It
\* is not sound if it refers to an element that is missing, or lacks its time.
Event(kind) == [kind |-> kind, key |-> "", sound |-> TRUE]

-----------------------------------------------------------------------------
(* Tags *)

Activities ==
    {"task", "userTask", "manualTask", "scriptTask", "serviceTask", "sendTask",
     "receiveTask", "callActivity", "subProcess", "transaction"}

Subprocesses == {"subProcess", "transaction"}
Calling      == Subprocesses \union {"callActivity"}
Conditional  == {"exclusiveGateway", "inclusiveGateway"}
Splitting    == Conditional \union {"parallelGateway", "eventBasedGateway", "startEvent"}
Tags == Activities \union Splitting
            \union {"endEvent", "intermediateCatchEvent", "intermediateThrowEvent", "boundaryEvent"}

\* The kinds of events that the parser of an element looks for, in its order; it
\* does not see the others.
Catchable == <<"message", "signal", "timer", "conditional">>
Reads(tag) ==
    CASE tag \in {"startEvent", "intermediateCatchEvent"} -> Catchable
      [] tag = "endEvent" -> <<"message", "cancel", "error", "escalation", "terminate">>
      [] tag = "intermediateThrowEvent" -> <<"escalation", "message", "signal", "timer">>
      [] tag \in {"sendTask", "receiveTask"} -> <<"message">>
      [] tag = "boundaryEvent" -> <<"cancel", "error", "escalation">> \o Catchable
      [] OTHER -> <<>>

HasDefinition(tag) ==
    tag \in {"startEvent", "endEvent", "intermediateCatchEvent", "intermediateThrowEvent",
             "sendTask", "receiveTask", "boundaryEvent", "eventBasedGateway"}

\* The diagrams that are meant: what is referred to is there, and no call activity calls
\* an embedded subprocess (of a process that may not have been parsed yet).
DiagramsAssumption ==
    \A d \in Diagrams :
        /\ \A n \in DOMAIN d.nodes :
               /\ d.nodes[n].flows \in Seq([to : DOMAIN d.nodes, cond : BOOLEAN])
               /\ d.nodes[n].bounds \in Seq(DOMAIN d.nodes)
               /\ d.nodes[n].tag \in Subprocesses =>
                      /\ n \in DOMAIN d.processes
                      /\ \A m \in DOMAIN d.nodes : d.nodes[m].called # n
        /\ \A p \in DOMAIN d.processes : d.processes[p].starts \in Seq(DOMAIN d.nodes)
        /\ \A f \in DOMAIN d.files : d.files[f].processes \in Seq(DOMAIN d.processes)

ASSUME DiagramsAssumption

-----------------------------------------------------------------------------
(* Dictionaries: d[x] = v, and d.update(e) *)

Put(d, x, v)  == [y \in DOMAIN d \union {x} |-> IF y = x THEN v ELSE d[y]]
Updated(d, e) == [y \in DOMAIN d \union DOMAIN e |-> IF y \in DOMAIN e THEN e[y] ELSE d[y]]

-----------------------------------------------------------------------------
(* Task specs.  A spec is known by its name: the id of the element and the *)
(* role it has beside the element's own spec.                              *)

Main(n)  == <<n, "task">>
Split(n) == <<n, "BoundaryEventSplit">>
Merge(n) == <<n, "BoundaryEventJoin">>
Child(n) == <<n, "child">>
NoName   == <<"", "none">>

Begin      == Main("Start")
End        == Main("End")
EndJoin(p) == <<p, "EndJoin">>
StartSplit == Main("StartEventSplit")
StartMerge == Main("StartEventJoin")

None     == Event("none")
Multiple == Event("multiple")

\* conds and default are those of a choice; event and members the definitions of an
\* event; called the process of a subprocess; child the spec of the instances of a
\* loop; partner, needed and cancels the attributes of a join.
TaskSpec(kind) ==
    [kind |-> kind, inputs |-> <<>>, outputs |-> <<>>, conds |-> <<>>, default |-> NoName,
     event |-> None, members |-> <<>>, interrupts |-> TRUE, called |-> NoProcess,
     child |-> NoName, partner |-> NoName, needed |-> 0, cancels |-> FALSE, data |-> <<>>]

\* connect.
Connected(T, a, b) == [T EXCEPT ![a].outputs = Append(@, b), ![b].inputs = Append(@, a)]

\* BpmnProcessSpec.__init__.
EmptySpec(p, objects) ==
    [tasks   |-> Connected([x \in {Begin, EndJoin(p), End} |->
                               TaskSpec(CASE x = Begin      -> "BpmnStartTask"
                                          [] x = EndJoin(p) -> "_EndJoin"
                                          [] OTHER          -> "SimpleBpmnTask")],
                           EndJoin(p), End),
     objects |-> objects,
     stores  |-> {},
     keys    |-> {}]

\* The processes that the subprocess tasks of a spec refer to.
Refs(spec) == {spec.tasks[x].called : x \in DOMAIN spec.tasks} \ {NoProcess}
=============================================================================
