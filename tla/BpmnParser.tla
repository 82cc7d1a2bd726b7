----------------------------- MODULE BpmnParser -----------------------------
(***************************************************************************)
(* The parser of BPMN diagrams.  Files are added, and processes are parsed *)
(* on demand, each once: a node is parsed by following its flows, depth    *)
(* first, and remembered by its id, so that a diagram may have cycles; an  *)
(* embedded subprocess is registered as a process of its own when its node *)
(* is parsed, and parsed when somebody asks for it.                        *)
(*                                                                         *)
(* calls is the stack of calls in progress, the topmost first.  A frame of *)
(* parse_node goes through the stages enter, look (for its data objects),  *)
(* create, wrap, attach (the boundary events), follow (the flows) and      *)
(* connect.  An exception unwinds the stack; what has been parsed stays.   *)
(***************************************************************************)
EXTENDS BpmnDiagram, SequencesExt

VARIABLES
    diagram,   \* one of Diagrams
    parsers,   \* process_parsers: the parent of each process that is known
    stores,    \* the data stores of the files added
    called,    \* process_dependencies
    collaborations,  \* the participants of each collaboration of the files added
    specs,     \* the specs there are
    broken,    \* the processes whose parsing was ended by an exception
    served,    \* the specs that the last call has returned
    calls,     \* the stack of calls in progress
    loaded     \* the spec that the application has saved and loaded last

files == <<diagram, stores, called, collaborations, loaded>>
vars == <<files, parsers, specs, broken, served, calls>>

\* of is what the call is about, process the process it parses, todo what its loop
\* has still to visit and got what it has collected; at is where it is looking for a
\* data object, and required whether a subprocess may not be missing.
Frame(op, of, process, todo, got) ==
    [op |-> op, of |-> of, process |-> process, todo |-> todo, got |-> got,
     at |-> process, required |-> TRUE]

Top       == Head(calls)
Rest      == Tail(calls)
Doing(op) == calls # <<>> /\ Top.op = op
Idle      == calls = <<>>

Go(op, todo)  == calls' = <<[Top EXCEPT !.op = op, !.todo = todo]>> \o Rest
Push(f)       == calls' = <<f>> \o calls

Raise ==
    /\ calls' = <<>>
    /\ broken' = broken \union {calls[i].of : i \in {j \in DOMAIN calls : calls[j].op = "starts"}}
    /\ UNCHANGED <<files, parsers, specs, served>>

E(n)     == diagram.nodes[n]
P        == Top.process
T        == specs[P].tasks
Known(x) == x \in DOMAIN T
SetTasks(tasks) == specs' = [specs EXCEPT ![P].tasks = tasks]

\* get_process_ids.
Executable == {p \in DOMAIN parsers : diagram.processes[p].executable}

-----------------------------------------------------------------------------
(* Files *)

\* add_bpmn_xml: the data stores, whose dictionary the specs share, and then the
\* processes up to one that is known already, which makes the call raise.
AddFile(f) ==
    LET file  == diagram.files[f]
        n     == Len(file.processes)
        fresh == {i \in 1..n : \A j \in 1..i : file.processes[j] \notin DOMAIN parsers}
        tried == fresh \union {i \in 1..n : i - 1 \in fresh \union {0}}
    IN  /\ Idle
        /\ stores' = stores \union file.stores
        /\ specs' = [p \in DOMAIN specs |->
                        IF p \in DOMAIN parsers THEN [specs[p] EXCEPT !.stores = stores']
                                                ELSE specs[p]]
        /\ served' = {}
        /\ called' = called \union UNION {file.calls[i] : i \in tried}
        /\ parsers' = Updated(parsers, [p \in {file.processes[i] : i \in fresh} |-> NoProcess])
        /\ collaborations' = IF fresh = 1..n THEN Updated(collaborations, file.collaborations)
                                             ELSE collaborations
        /\ UNCHANGED <<diagram, loaded, broken, calls>>

-----------------------------------------------------------------------------
(* ProcessParser *)

\* _parse, up to the loop over the start events; what has a spec is not parsed again.
Parse(p) ==
    IF ~diagram.processes[p].executable \/ diagram.processes[p].starts = <<>>
    THEN Raise
    ELSE /\ specs' = Put(specs, p, [EmptySpec(p, diagram.processes[p].objects) EXCEPT !.stores = stores])
         /\ Push(Frame("starts", p, p, diagram.processes[p].starts, <<>>))
         /\ UNCHANGED <<files, parsers, broken, served>>

\* ProcessParser.parse_node of something that is not known yet.
Enter(n) ==
    /\ Push(Frame("enter", n, P, <<>>, <<>>))
    /\ UNCHANGED <<files, parsers, specs, broken, served>>

NextStart ==
    /\ Doing("starts") /\ Top.todo # <<>>
    /\ IF Known(Main(Head(Top.todo)))
       THEN /\ Go("starts", Tail(Top.todo))
            /\ UNCHANGED <<files, parsers, specs, broken, served>>
       ELSE Enter(Head(Top.todo))

\* Several start events: the first to occur cancels the others.
Joined(tasks) ==
    LET S == tasks[Begin].outputs
        split == [TaskSpec("StartEventSplit") EXCEPT !.inputs = <<Begin>>, !.outputs = S]
        merge == [TaskSpec("StartEventJoin") EXCEPT !.partner = StartSplit, !.needed = 1,
                                                    !.cancels = TRUE, !.inputs = S]
        moved == [x \in DOMAIN tasks |->
                     CASE x = Begin -> [tasks[x] EXCEPT !.outputs = <<StartSplit>>]
                       [] x \in {S[i] : i \in DOMAIN S} ->
                              [tasks[x] EXCEPT !.outputs = Append(@, StartMerge),
                                               !.inputs  = <<StartSplit>>]
                       [] OTHER -> tasks[x]]
    IN  Put(Put(moved, StartSplit, split), StartMerge, merge)

FinishProcess ==
    /\ Doing("starts") /\ Top.todo = <<>>
    /\ SetTasks(IF Len(diagram.processes[P].starts) > 1 THEN Joined(T) ELSE T)
    /\ calls' = Rest
    /\ UNCHANGED <<files, parsers, broken, served>>

-----------------------------------------------------------------------------
(* TaskParser.parse_node *)

\* The definitions that the parser of the element finds.
Definitions(e) ==
    FlattenSeq([i \in DOMAIN Reads(e.tag) |->
                   SelectSeq(e.events, LAMBDA d : d.kind = Reads(e.tag)[i])])

Definition(e) ==
    CASE e.tag = "eventBasedGateway" \/ Len(Definitions(e)) > 1 -> Multiple
      [] Definitions(e) = <<>> -> None
      [] OTHER -> Definitions(e)[1]

\* What create_task raises before the spec is made.
Refused(n) ==
    \/ E(n).tag \notin Tags
    \/ \E i \in DOMAIN Definitions(E(n)) : ~Definitions(E(n))[i].sound
    \/ E(n).tag = "boundaryEvent" /\ Definitions(E(n)) = <<>>
    \/ E(n).tag = "callActivity" /\ E(n).called = NoProcess
    \/ E(n).tag = "scriptTask" /\ E(n).scripts # 1
    \/ /\ E(n).tag \in Subprocesses
       /\ \/ Len(diagram.processes[n].starts) # 1
          \/ diagram.processes[n].ends = {}
          \/ n \in DOMAIN parsers

\* An embedded subprocess gets a parser of its own, and the correlation keys of a
\* message (not those of several) are noted.
EnterNode ==
    LET n == Top.of
    IN  /\ Doing("enter")
        /\ IF Refused(n) THEN Raise
           ELSE /\ parsers' = IF E(n).tag \in Subprocesses THEN Put(parsers, n, P) ELSE parsers
                /\ specs' = [specs EXCEPT ![P].keys = @ \union ({Definition(E(n)).key} \ {""})]
                /\ Go("look", E(n).data)
                /\ UNCHANGED <<files, broken, served>>

\* _resolve_data_object_ref: one round of the loop.  Where it goes on does not
\* depend on where it is.
Look ==
    /\ Doing("look") /\ Top.todo # <<>>
    /\ LET ref   == Head(Top.todo)
           found == IF ref.stored THEN ref.name \in stores
                    ELSE Top.at # NoProcess /\ ref.name \in specs[Top.at].objects
       IN  IF found
           THEN /\ calls' = <<[Top EXCEPT !.todo = Tail(@), !.at = P,
                        !.got = Append(@, <<IF ref.stored THEN NoProcess ELSE Top.at,
                                            ref.name>>)]>> \o Rest
                /\ UNCHANGED <<files, parsers, specs, broken, served>>
           ELSE IF ref.stored \/ Top.at = NoProcess THEN Raise
           ELSE /\ calls' = <<[Top EXCEPT !.at = parsers[P]]>> \o Rest
                /\ UNCHANGED <<files, parsers, specs, broken, served>>

\* The spec of an element.
Created(n, data) ==
    LET e == E(n)
    IN  [TaskSpec(e.tag) EXCEPT
            !.event = Definition(e),
            !.members = IF Len(Definitions(e)) > 1 THEN Definitions(e) ELSE <<>>,
            !.interrupts = e.interrupts,
            !.called = IF e.tag \in Subprocesses THEN n ELSE e.called,
            !.data = data]

\* create_task: start and end events are connected to the ends of the process.
Create ==
    LET n    == Top.of
        e    == E(n)
        made == Put(T, Main(n), Created(n, Top.got))
    IN  /\ Doing("look") /\ Top.todo = <<>>
        /\ SetTasks(CASE e.tag = "startEvent" -> Connected(made, Begin, Main(n))
                      [] e.tag = "endEvent"   -> Connected(made, Main(n), EndJoin(P))
                      [] OTHER                -> made)
        /\ Go("wrap", <<>>)
        /\ UNCHANGED <<files, parsers, broken, served>>

\* _copy_task_attrs: the loop takes the place of the original, which becomes the spec
\* of its instances.
Looped(tasks, n) ==
    LET original == tasks[Main(n)]
        loop == [TaskSpec(E(n).loop) EXCEPT !.inputs = original.inputs,
                    !.outputs = original.outputs, !.data = original.data, !.child = Child(n)]
        child == [original EXCEPT !.inputs = <<Main(n)>>, !.outputs = <<>>, !.data = <<>>]
    IN  Put(Put(tasks, Child(n), child), Main(n), loop)

\* _add_boundary_event, up to the loop over the events.
Guarded(tasks, n) ==
    LET merge == [TaskSpec("BoundaryEventJoin") EXCEPT !.partner = Split(n), !.cancels = TRUE]
        both  == Put(Put(tasks, Split(n), TaskSpec("BoundaryEventSplit")), Merge(n), merge)
    IN  Connected(Connected(both, Split(n), Main(n)), Main(n), Merge(n))

Wrap ==
    LET n == Top.of
        wrapped == IF E(n).loop = "none" THEN T ELSE Looped(T, n)
    IN  /\ Doing("wrap")
        /\ IF E(n).loop = "unsound" THEN Raise
           ELSE /\ SetTasks(IF E(n).bounds = <<>> THEN wrapped ELSE Guarded(wrapped, n))
                /\ Go("attach", E(n).bounds)
                /\ UNCHANGED <<files, parsers, broken, served>>

\* A boundary event, with all that follows it, has been parsed: connect it.
Attach ==
    LET n == Top.of
        b == Main(Head(Top.todo))
    IN  /\ Doing("attach") /\ Top.todo # <<>>
        /\ IF ~Known(b) THEN Enter(Head(Top.todo))
           ELSE IF T[b].event.kind = "cancel" /\ T[Main(n)].kind # "transaction" THEN Raise
           ELSE /\ SetTasks(Connected(Connected(T, Split(n), b), b, Merge(n)))
                /\ Go("attach", Tail(Top.todo))
                /\ UNCHANGED <<files, parsers, broken, served>>

\* The flows of an element, by number, from the uppermost target to the lowest.
Sorted(n) ==
    LET flows == E(n).flows
        before(i, j) == \/ E(flows[i].to).y < E(flows[j].to).y
                        \/ E(flows[i].to).y = E(flows[j].to).y /\ i < j
    IN  [k \in DOMAIN flows |->
            CHOOSE i \in DOMAIN flows : Cardinality({j \in DOMAIN flows : before(j, i)}) = k - 1]

AttachEnds ==
    /\ Doing("attach") /\ Top.todo = <<>>
    /\ IF Len(E(Top.of).flows) > 1 /\ E(Top.of).tag \notin Splitting
       THEN Raise
       ELSE /\ Go("follow", E(Top.of).flows)
            /\ UNCHANGED <<files, parsers, specs, broken, served>>

\* The target of a flow is parsed, unless it is known.
Follow ==
    LET target == Head(Top.todo).to
    IN  /\ Doing("follow") /\ Top.todo # <<>>
        /\ IF Known(Split(target)) \/ Known(Main(target))
           THEN /\ Go("follow", Tail(Top.todo))
                /\ UNCHANGED <<files, parsers, specs, broken, served>>
           ELSE Enter(target)

FollowEnds ==
    /\ Doing("follow") /\ Top.todo = <<>>
    /\ Go("connect", Sorted(Top.of))
    /\ UNCHANGED <<files, parsers, specs, broken, served>>

\* Mutant: the split of a task with boundary events is passed by.
Entry_Main(n) == Main(n)

\* Where a flow to element n leads.
Entry(n) == IF Known(Split(n)) THEN Split(n) ELSE Main(n)

\* The only flow of a choice needs no condition.
IsDefault(e, i) ==
    \/ i = e.default
    \/ Len(e.flows) = 1 /\ e.tag \in Conditional /\ ~e.flows[1].cond

\* connect_outgoing of a gateway that chooses: condition i is that of flow i, and 0
\* none.
Chosen(n, i) ==
    LET c == Entry(E(n).flows[i].to)
        d == IsDefault(E(n), i)
    IN  [Connected(T, Main(n), c) EXCEPT
            ![Main(n)].conds   = Append(@, <<IF d THEN 0 ELSE i, c>>),
            ![Main(n)].default = IF d /\ E(n).tag = "exclusiveGateway" THEN c ELSE @]

\* connect_outgoing of the parser of the element.
Connect ==
    LET n == Top.of
        e == E(n)
        i == Head(Top.todo)
        c == Entry(e.flows[i].to)
    IN  /\ Doing("connect") /\ Top.todo # <<>>
        /\ IF \/ e.tag \in Conditional /\ ~IsDefault(e, i) /\ ~e.flows[i].cond
              \/ e.tag = "eventBasedGateway" /\ ~HasDefinition(T[c].kind)
           THEN Raise
           ELSE /\ SetTasks(CASE e.tag \in Conditional -> Chosen(n, i)
                              [] e.tag = "eventBasedGateway" ->
                                     [Connected(T, Main(n), c) EXCEPT
                                         ![Main(n)].members = Append(@, T[c].event)]
                              [] OTHER -> Connected(T, Main(n), c))
                /\ Go("connect", Tail(Top.todo))
                /\ UNCHANGED <<files, parsers, broken, served>>

Return ==
    /\ Doing("connect") /\ Top.todo = <<>>
    /\ calls' = Rest
    /\ UNCHANGED <<files, parsers, specs, broken, served>>

-----------------------------------------------------------------------------
(* BpmnParser: specs are asked for. *)

Call(frames) ==
    /\ Idle
    /\ calls' = frames
    /\ served' = {}
    /\ UNCHANGED <<files, parsers, specs, broken>>

\* get_subprocess_specs.  A process is parsed when it has no spec; one that is not
\* there makes the call raise if it is required, and a subprocess of a subprocess
\* always is.
SubprocessFrame(p) == Frame("process", p, NoProcess, {}, {})

GetSubprocessSpecs(p, required) == Call(<<[SubprocessFrame(p) EXCEPT !.required = required]>>)

GetSpec ==
    /\ Doing("process")
    /\ IF Top.of \notin DOMAIN parsers THEN Raise
       ELSE IF Top.of \notin DOMAIN specs THEN Parse(Top.of)
       ELSE /\ Go("subprocesses", Refs(specs[Top.of]) \X {Top.required})
            /\ UNCHANGED <<files, parsers, specs, broken, served>>

GetSubprocess(p, required) ==
    LET rest == Top.todo \ {<<p, required>>}
        got(todo) == <<[Top EXCEPT !.todo = todo, !.got = @ \union {p}]>> \o Rest
    IN  /\ Doing("subprocesses") /\ <<p, required>> \in Top.todo
        /\ \/ /\ p \in Top.got
              /\ Go("subprocesses", rest)
              /\ UNCHANGED <<files, parsers, specs, broken, served>>
           \/ /\ p \notin Top.got \union DOMAIN parsers
              /\ IF required THEN Raise
                 ELSE calls' = got(rest) /\ UNCHANGED <<files, parsers, specs, broken, served>>
           \/ /\ p \in DOMAIN parsers \ (Top.got \union DOMAIN specs)
              /\ Parse(p)
           \/ /\ p \in (DOMAIN parsers \intersect DOMAIN specs) \ Top.got
              /\ calls' = got(rest \union (Refs(specs[p]) \X {TRUE}))
              /\ UNCHANGED <<files, parsers, specs, broken, served>>

SubprocessesReturn ==
    /\ Doing("subprocesses") /\ Top.todo = {}
    /\ calls' = Rest
    /\ served' = served \union {Top.of} \union (Top.got \intersect DOMAIN parsers \intersect DOMAIN specs)
    /\ UNCHANGED <<files, parsers, specs, broken>>

\* find_all_specs: the ids that are known at the beginning of each pass.
AllFrame == Frame("all", NoProcess, NoProcess, Executable, {})

FindAllSpecs == Call(<<AllFrame>>)

ParseAll(p) ==
    /\ Doing("all") /\ p \in Top.todo
    /\ IF p \notin DOMAIN specs THEN Parse(p)
       ELSE /\ calls' = <<[Top EXCEPT !.todo = @ \ {p}, !.got = @ \union {p}]>> \o Rest
            /\ UNCHANGED <<files, parsers, specs, broken, served>>

\* Mutant: the subprocesses that have been found meanwhile are not parsed.
ParseAllEnds_OnePass ==
    /\ Doing("all") /\ Top.todo = {}
    /\ calls' = Rest
    /\ served' = IF Rest = <<>> THEN Top.got ELSE served
    /\ UNCHANGED <<files, parsers, specs, broken>>

\* Parsing may have added subprocesses: then all are visited again.
ParseAllEnds ==
    /\ Doing("all") /\ Top.todo = {}
    /\ IF Top.got # Executable
       THEN Go("all", Executable) /\ UNCHANGED served
       ELSE calls' = Rest /\ served' = IF Rest = <<>> THEN Top.got ELSE served
    /\ UNCHANGED <<files, parsers, specs, broken>>

\* get_collaboration, which begins with find_all_specs.
GetCollaboration(c) ==
    /\ c \in DOMAIN collaborations
    /\ Call(<<AllFrame, Frame("collaboration", c, NoProcess, collaborations[c], <<>>)>>)

\* A participant that is known is parsed with its subprocesses; it is called if it
\* can start by itself.
Participates(p) ==
    \E x \in DOMAIN specs[p].tasks :
        /\ specs[p].tasks[x].kind = "startEvent"
        /\ specs[p].tasks[x].event.kind \in {"none", "timer"}

\* The second call of the same process has a name that is taken.
Participant ==
    LET p == Head(Top.todo)
        next == [Top EXCEPT !.todo = Tail(@),
                            !.got = IF p \in Executable /\ Participates(p) THEN Append(@, p) ELSE @]
    IN  /\ Doing("collaboration") /\ Top.todo # <<>>
        /\ IF \E i \in DOMAIN Top.got : Top.got[i] = p THEN Raise
           ELSE /\ calls' = (IF p \in Executable THEN <<SubprocessFrame(p)>> ELSE <<>>) \o <<next>> \o Rest
                /\ UNCHANGED <<files, parsers, specs, broken, served>>

\* A process that calls the participants side by side.
StartAll == Main("Start Collaboration")
EndAll   == Main("End Collaboration")
CollaborationSpec(c, participants) ==
    LET empty == EmptySpec(c, {})
        steps == [i \in DOMAIN participants |-> Main(participants[i])]
        start == [TaskSpec("startEvent") EXCEPT !.outputs = steps]
        end   == [TaskSpec("endEvent") EXCEPT !.inputs = steps]
        step(p) == [TaskSpec("callActivity") EXCEPT !.inputs = <<StartAll>>, !.outputs = <<EndAll>>,
                                                    !.called = p]
        tasks == [x \in DOMAIN empty.tasks \union {StartAll, EndAll} \union {steps[i] : i \in DOMAIN steps} |->
                     CASE x = StartAll -> start
                       [] x = EndAll   -> end
                       [] x \in DOMAIN empty.tasks -> empty.tasks[x]
                       [] OTHER -> step(x[1])]
    IN  [empty EXCEPT !.tasks = Connected(Connected(tasks, Begin, StartAll), EndAll, EndJoin(c))]

CollaborationEnds ==
    /\ Doing("collaboration") /\ Top.todo = <<>>
    /\ specs' = Put(specs, Top.of, CollaborationSpec(Top.of, Top.got))
    /\ served' = served \union {Top.of}
    /\ calls' = <<>>
    /\ UNCHANGED <<files, parsers, broken>>

-----------------------------------------------------------------------------
ParserInit ==
    /\ diagram \in Diagrams
    /\ parsers = <<>> /\ stores = {} /\ called = {} /\ collaborations = <<>>
    /\ specs = <<>> /\ broken = {} /\ served = {} /\ calls = <<>> /\ loaded = NoSpec

Requests ==
    \/ \E f \in DOMAIN diagram.files : AddFile(f)
    \/ \E p \in DOMAIN diagram.processes, required \in BOOLEAN : GetSubprocessSpecs(p, required)
    \/ FindAllSpecs
    \/ \E c \in DOMAIN collaborations : GetCollaboration(c)

Parsing ==
    \/ NextStart \/ FinishProcess \/ EnterNode \/ Look \/ Create \/ Wrap
    \/ Attach \/ AttachEnds \/ Follow \/ FollowEnds \/ Connect \/ Return
    \/ GetSpec \/ SubprocessesReturn \/ ParseAllEnds \/ Participant \/ CollaborationEnds
    \/ \E p \in UNION {Refs(specs[q]) : q \in DOMAIN specs}, r \in BOOLEAN : GetSubprocess(p, r)
    \/ \E p \in DOMAIN parsers : ParseAll(p)

ParserNext == Requests \/ Parsing
=============================================================================
