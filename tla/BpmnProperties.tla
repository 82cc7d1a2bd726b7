--------------------------- MODULE BpmnProperties ---------------------------
(***************************************************************************)
(* What makes the BPMN engine correct.  The properties are about states    *)
(* between two calls of the application, or about one call.                *)
(***************************************************************************)
EXTENDS BpmnEngine

SpecOf(x) == TaskOf(engine, x).spec
Is(x, states) == Has(engine, x, states)
Begun == {"WAITING", "READY", "STARTED", "COMPLETED"}
KidsOf(x) == Kids(engine, x)
TasksOfKind(k) == {x \in Tasks : KindOf(engine, x) = k}

\* The shape of the engine's state: every workflow has a tree, every subprocess is
\* listed once, and what is said of tasks is said of tasks that exist.
TypeOK ==
    /\ \A w \in Workflows(engine) :
          /\ Root \in DOMAIN engine.wfs[w]
          /\ \A t \in DOMAIN engine.wfs[w] :
                /\ engine.wfs[w][t].spec \in Specs /\ engine.wfs[w][t].state \in ANY
                /\ t # Root => Parent(t) \in DOMAIN engine.wfs[w]
    /\ Members(engine.subs) = Workflows(engine) \ {Root}
    /\ DOMAIN engine.corr = Workflows(engine)
    /\ engine.fired \union engine.due \subseteq Tasks
    /\ engine.raised \in BOOLEAN
    /\ used \in 0..MaxCalls[TopProcess(engine)]

-----------------------------------------------------------------------------
(* Boundary events *)

\* Of a task and the interrupting events attached to it only one goes on: what
\* follows the task and what follows the event never both begin, whichever of
\* them came first (BoundaryEventJoin); catching events, which may receive their
\* event before they are reached, are not counted.
InterruptExclusive ==
    \A s \in TasksOfKind("Split") :
        LET goesOn(k) == \E c \in KidsOf(k) :
                            Is(c, Begun) /\ KindOf(engine, c) \notin CatchingKinds \union {"BoundaryJoin"}
        IN  ~\E m, e \in KidsOf(s) :
                /\ goesOn(m) /\ goesOn(e) /\ KindOf(engine, m) # "Boundary"
                /\ KindOf(engine, e) = "Boundary" /\ Net[SpecOf(e)].cancel

\* When the task has finished, no event attached to it waits any longer: else the
\* process would never be completed.
NoEventLeft ==
    \A s \in TasksOfKind("Split") :
        (\E m \in KidsOf(s) : KindOf(engine, m) # "Boundary" /\ Is(m, {"COMPLETED", "CANCELLED"}))
        => \A e \in KidsOf(s) : KindOf(engine, e) = "Boundary" => ~Is(e, {"WAITING"})

-----------------------------------------------------------------------------
(* Subprocesses *)

\* A subprocess in which something is still to be done has a task that waits for it.
SubHasOwner ==
    \A i \in DOMAIN ActiveSubs(engine) :
        LET w == ActiveSubs(engine)[i]
        IN  ~IsOrphan(engine, w) /\ Is(OwnerOf(w), {"WAITING"})

\* No call of the application raises, for a task or a subprocess that is gone or a join
\* that has been decided.  The exception is that of an event gateway which send_event
\* has sent an event after it had finished: it waits again, but the task of its timer
\* may be gone.
Revived(g) == Is(g, {"WAITING"}) /\ \E n \in Timed(Def(engine, g)) : Behind(engine, g, n) = {}
NothingRaised == engine.raised => \E g \in TasksOfKind("EventGateway") : Revived(g)

\* This step is what do_engine_steps does, or from outside catch or send_event of e,
\* or reset_from_task_id of x.
StepsEnded == used' = used /\ engine' = Settled(Served(Plain("engine steps", None)))
Caught(e)  == used' # used /\ engine' = Settled(Served(Plain("catch", e)))
Sent(e)    == used' # used /\ engine' = Settled(Served(Plain("send", e)))
ResetOf(x) == used' # used /\ engine' = Settled(Served(Request("reset", x, TRUE, engine.choice)))

\* After do_engine_steps no subprocess is completed whose task still waits, and no
\* engine task is left to be run.
OwnersNotified ==
    [][ \/ engine'.raised
        \/ \A x \in Scope(engine', Root) :
              /\ Has(engine', x, {"WAITING"}) /\ HasSub(engine', x)
                     => ~IsCompleted(engine'.wfs[Sub(x)])
              /\ Has(engine', x, {"READY"}) => Net[TaskOf(engine', x).spec].manual
        \/ ~StepsEnded ]_vars

\* A task that has been cancelled stays so, whatever completes, is thrown or is refreshed
\* around it, and also if catch() delivers its event late.  The only ways back are asked
\* for from outside: a reset of the task, or of one in its subprocess, and send_event
\* of its own event, which cancelled tasks catch as well; and a start event is received
\* again.
CancelledStays ==
    [][ \A x \in Tasks :
          Is(x, {"CANCELLED"}) /\ Exists(engine', x) /\ KindOf(engine, x) # "StartEvent"
          => \/ Has(engine', x, {"CANCELLED"})
             \/ \E e \in ExternalEvents[TopProcess(engine)] : x \in Hearers(engine, e) /\ Sent(e)
             \/ \E y \in Tasks : (x = y \/ Above(FullPath(x), FullPath(y))) /\ ResetOf(y) ]_vars

\* When the top workflow is completed, no subprocess has anything left to do: a
\* terminating end event and a cancellation reach down to every depth.
CompletedIsQuiet == IsCompleted(engine.wfs[Root]) => ActiveSubs(engine) = <<>>

-----------------------------------------------------------------------------
(* Gateways *)

\* Each completed task in front of a parallel gateway is joined once: n instances
\* of the gateway that fire need n completed tasks at each of its inputs.
JoinedOnce ==
    \A w \in Workflows(engine), s \in Specs :
        Kind(s) = "Parallel" =>
            LET T == engine.wfs[w]
                fired == {d \in OfSpec(T, s) : In(T, d, {"READY", "COMPLETED"})}
            IN  \A i \in DOMAIN Net[s].inputs :
                    Cardinality(fired) <=
                        Cardinality({p \in OfSpec(T, Net[s].inputs[i]) : In(T, p, {"COMPLETED"})})

\* The specs that s leads to.
RECURSIVE LeadsTo(_, _)
LeadsTo(S, n) == IF n = 0 THEN S
                 ELSE LeadsTo(S \union UNION {Members(Net[s].outputs) : s \in S}, n - 1)

\* An inclusive gateway that has fired has waited for every task that was on its way to
\* it: none is at work any more that leads there, also if what lies between them is only
\* predicted (InclusiveGateway: "there is no path from a token to an empty input").
InclusiveWaits ==
    \A x \in TasksOfKind("Inclusive") :
        Is(x, {"READY", "COMPLETED"}) /\ Net[SpecOf(x)].inputs # <<>> =>
            \A y \in TasksOf(engine, Wf(x)) :
                Is(y, {"READY", "WAITING"}) /\ SpecOf(y) # SpecOf(x)
                => SpecOf(x) \notin LeadsTo({SpecOf(y)}, Cardinality(Specs))

\* After do_engine_steps the workflow is completed, or somebody outside can do
\* something: run a task, or send what a task waits for.
NeverStuck ==
    [][ \/ engine'.raised \/ IsCompleted(engine'.wfs[Root])
        \/ \E x \in Scope(engine', Root) :
              \/ Has(engine', x, {"READY"})
              \/ Has(engine', x, {"WAITING"}) /\ KindOf(engine', x) \in CatchingKinds
        \/ ~StepsEnded ]_vars

\* Of the events behind an event gateway only one goes on.
OneEventChosen ==
    \A g \in TasksOfKind("EventGateway") :
        \A c, d \in KidsOf(g) : Is(c, {"COMPLETED"}) /\ Is(d, {"COMPLETED"}) => c = d

-----------------------------------------------------------------------------
(* Events *)

\* A message with a key reaches only the workflows of one conversation.
OneConversation ==
    [][ \A e \in ExternalEvents[TopProcess(engine)] :
          \/ e.key = None
          \/ \A x \in engine'.fired \ engine.fired :
                  DefOf(TaskOf(engine', x).spec).correlated
                  => engine'.corr[Wf(x)] \in {None, e.key}
          \/ ~Caught(e) ]_vars

\* An event from outside is never lost: some task has received it, or it is queued.
EventKept ==
    [][ \A e \in ExternalEvents[TopProcess(engine)] :
          \/ engine'.raised
          \/ Len(engine'.queue) > Len(engine.queue)
          \/ \E x \in engine'.fired : SameEvent(DefOf(TaskOf(engine', x).spec), e.def)
          \/ ~Caught(e) ]_vars

\* "The event information is stored in the task's internal data and processed when
\* the task is reached in the workflow": a task that has an event goes on only when
\* the task before it has come to an end.
CaughtWhenReached ==
    \A x \in Tasks :
        KindOf(engine, x) \in CatchingKinds /\ At(x) # Root /\ Is(x, {"READY", "COMPLETED"})
        => Is(Over(x), {"COMPLETED"})
=============================================================================
