-------------------------- MODULE ParserProperties --------------------------
(***************************************************************************)
(* What the specs that a parser makes have to do with the diagrams.        *)
(***************************************************************************)
EXTENDS SpecConverter

-----------------------------------------------------------------------------
(* The graph that a diagram describes *)

Targets(n) == {E(n).flows[i].to : i \in DOMAIN E(n).flows}
Bounds(n)  == {E(n).bounds[i] : i \in DOMAIN E(n).bounds}
Starts(p)  == {diagram.processes[p].starts[i] : i \in DOMAIN diagram.processes[p].starts}
Several(p) == Len(diagram.processes[p].starts) > 1

\* The elements of process p that can be reached from its start events.
Reachable(p) ==
    LET reach[k \in 0..Cardinality(DOMAIN diagram.nodes)] ==
            IF k = 0 THEN Starts(p)
            ELSE UNION {{n} \union Targets(n) \union Bounds(n) : n \in reach[k - 1]}
    IN  reach[Cardinality(DOMAIN diagram.nodes)]

Guardeds(p) == {n \in Reachable(p) : Bounds(n) # {}}
Loops(p)    == {n \in Reachable(p) : E(n).loop # "none"}
Door(n)     == IF Bounds(n) = {} THEN Main(n) ELSE Split(n)
Mains(ns)   == [i \in DOMAIN ns |-> Main(ns[i])]

\* Flows are taken from top to bottom.
Order(n) ==
    SortSeq([i \in DOMAIN E(n).flows |-> i],
            LAMBDA i, j : \/ E(E(n).flows[i].to).y < E(E(n).flows[j].to).y
                          \/ E(E(n).flows[i].to).y = E(E(n).flows[j].to).y /\ i < j)

Doors(n) == [k \in DOMAIN E(n).flows |-> Door(E(n).flows[Order(n)[k]].to)]

Names(p) ==
    {Begin, EndJoin(p), End} \union {Main(n) : n \in Reachable(p)}
    \union UNION {{Split(n), Merge(n)} : n \in Guardeds(p)}
    \union {Child(n) : n \in Loops(p)}
    \union (IF Several(p) THEN {StartSplit, StartMerge} ELSE {})

\* What follows the spec of an element: the end of the process, or the join with its
\* boundary events; where its flows lead; and if it is itself such an event, or one of
\* several start events, the join of these.
Following(p, n) ==
    (IF E(n).tag = "endEvent" THEN <<EndJoin(p)>> ELSE <<>>)
    \o (IF n \in Guardeds(p) THEN <<Merge(n)>> ELSE <<>>)
    \o Doors(n)
    \o (IF \E h \in Guardeds(p) : n \in Bounds(h)
        THEN <<Merge(CHOOSE h \in Guardeds(p) : n \in Bounds(h))>> ELSE <<>>)
    \o (IF n \in Starts(p) /\ Several(p) THEN <<StartMerge>> ELSE <<>>)

\* Every element that can be reached has one spec, whichever way it was reached
\* first, and what follows is what the flows say, in their order.
FlowsFollowed(p, tasks) ==
    /\ DOMAIN tasks = Names(p)
    /\ \A n \in Reachable(p) : tasks[Main(n)].outputs = Following(p, n)
    /\ \A n \in Guardeds(p) :
           /\ tasks[Split(n)].outputs = <<Main(n)>> \o Mains(E(n).bounds)
           /\ tasks[Merge(n)].partner = Split(n) /\ tasks[Merge(n)].outputs = <<>>
    /\ tasks[Begin].outputs = IF Several(p) THEN <<StartSplit>>
                                            ELSE Mains(diagram.processes[p].starts)
    /\ Several(p) => tasks[StartSplit].outputs = Mains(diagram.processes[p].starts)

\* Inputs and outputs agree; the instances of a loop are known to the loop only.
LinksMutual(tasks) ==
    LET times(s, x) == Cardinality({i \in DOMAIN s : s[i] = x})
        children == {tasks[x].child : x \in DOMAIN tasks} \ {NoName}
    IN  /\ \A x, y \in DOMAIN tasks :
               x \notin children => times(tasks[x].inputs, y) = times(tasks[y].outputs, x)
        /\ \A c \in children : \E x \in DOMAIN tasks :
               tasks[x].child = c /\ tasks[c].inputs = <<x>> /\ tasks[c].outputs = <<>>

\* Each condition belongs to the branch to which its flow leads; an event gateway
\* waits for the events of its branches.
BranchesChosen(p, tasks) ==
    \A n \in Reachable(p) :
        LET t == tasks[Main(n)]
            i(k) == Order(n)[k]
        IN  /\ E(n).tag \in Conditional =>
                   t.conds = [k \in DOMAIN t.outputs |->
                                 <<IF IsDefault(E(n), i(k)) THEN 0 ELSE i(k), t.outputs[k]>>]
            /\ E(n).tag = "exclusiveGateway" =>
                   t.default = IF \E k \in DOMAIN t.conds : t.conds[k][1] = 0
                               THEN t.outputs[CHOOSE k \in DOMAIN t.conds : t.conds[k][1] = 0]
                               ELSE NoName
            /\ E(n).tag = "eventBasedGateway" =>
                   t.members = [k \in DOMAIN t.outputs |-> tasks[t.outputs[k]].event]

\* The process to which a data object belongs: the innermost around the reference.
Scope(p, name) ==
    LET around[k \in 0..Cardinality(DOMAIN diagram.processes)] ==
            IF k = 0 THEN p
            ELSE LET q == around[k - 1]
                 IN  IF q = NoProcess \/ name \in diagram.processes[q].objects
                     THEN q ELSE diagram.processes[q].parent
    IN  around[Cardinality(DOMAIN diagram.processes)]

DataResolved(p, tasks) ==
    \A n \in Reachable(p) :
        tasks[Main(n)].data =
            [i \in DOMAIN E(n).data |->
                <<IF E(n).data[i].stored THEN NoProcess ELSE Scope(p, E(n).data[i].name),
                  E(n).data[i].name>>]

FollowsDiagram(p, tasks) ==
    /\ FlowsFollowed(p, tasks) /\ LinksMutual(tasks)
    /\ BranchesChosen(p, tasks) /\ DataResolved(p, tasks)

\* The processes that have been parsed to their ends.
Parsed ==
    (DOMAIN specs \intersect DOMAIN diagram.processes)
        \ (broken \union {calls[i].of : i \in {j \in DOMAIN calls : calls[j].op = "starts"}})

\* Whatever cycles a diagram has, and in whatever order files are added, specs are
\* asked for and calls fail: a spec that is complete is the graph of the diagram, and
\* still is when it has been saved and loaded.
SpecFollowsDiagram == Idle =>
    /\ \A p \in Parsed : FollowsDiagram(p, specs[p].tasks)
    /\ loaded # NoSpec /\ loaded.process \in Parsed =>
           FollowsDiagram(loaded.process, loaded.spec.tasks)

\* A workflow can be run with what a call returns: the subprocesses of every spec are
\* there, but for those that no file contains.
ServedComplete ==
    Idle => \A p \in served : Refs(specs[p]) \intersect Executable \subseteq served
=============================================================================
