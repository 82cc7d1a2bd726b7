---------------------------- MODULE SpecConverter ----------------------------
(***************************************************************************)
(* Saving the spec of a process as a dictionary and making a spec of it    *)
(* again, with the converters of the default configuration.  An            *)
(* application does so between any two calls of the parser.                *)
(***************************************************************************)
EXTENDS BpmnParser

JoinKinds == {"parallelGateway", "BoundaryEventJoin", "StartEventJoin"}
LoopKinds == {"StandardLoopTask", "ParallelMultiInstanceTask", "SequentialMultiInstanceTask"}

\* DEFAULT_CONFIG has no converter for a service task.
Convertible(spec) == \A x \in DOMAIN spec.tasks : spec.tasks[x].kind # "serviceTask"

\* The attributes that the converter of a kind writes.
Attributes(kind) ==
    {"kind", "inputs", "outputs", "data"}
    \union (IF kind \in Conditional THEN {"conds"} ELSE {})
    \union (IF kind = "exclusiveGateway" THEN {"default"} ELSE {})
    \union (IF kind \in Calling THEN {"called"} ELSE {})
    \union (IF kind \in LoopKinds THEN {"child"} ELSE {})
    \union (IF kind \in JoinKinds THEN {"partner", "needed", "cancels"} ELSE {})
    \union (IF HasDefinition(kind) THEN {"event", "members"} ELSE {})
    \union (IF kind = "boundaryEvent" THEN {"interrupts"} ELSE {})

\* to_dict of a task spec.
SavedTask(t) == [a \in Attributes(t.kind) |-> t[a]]

\* from_dict: what is not in the dictionary is what the constructor makes it.
LoadedTask(dct) == Updated(TaskSpec(dct.kind), dct)

\* to_dict of a process spec: the data stores are not written.
SavedSpec(spec) ==
    [tasks   |-> [x \in DOMAIN spec.tasks |-> SavedTask(spec.tasks[x])],
     objects |-> spec.objects,
     keys    |-> spec.keys]

\* from_dict: the specs that the constructor makes are replaced.
LoadedSpec(p, dct) ==
    [EmptySpec(p, dct.objects) EXCEPT
        !.tasks = [x \in DOMAIN dct.tasks |-> LoadedTask(dct.tasks[x])],
        !.keys  = dct.keys]

SaveAndLoad(p, spec) ==
    /\ Idle /\ Convertible(spec)
    /\ loaded' = [process |-> p, spec |-> LoadedSpec(p, SavedSpec(spec))]
    /\ UNCHANGED <<diagram, stores, called, collaborations, parsers, specs, broken, served, calls>>

ConverterNext ==
    \/ ParserNext
    \/ \E p \in served : SaveAndLoad(p, specs[p])

ConverterSpec == ParserInit /\ [][ConverterNext]_vars
=============================================================================
