----------------------------- MODULE BpmnEngine -----------------------------
(***************************************************************************)
(* The BPMN engine: BpmnWorkflow with its subprocesses, catching and       *)
(* throwing events, and running tasks.                                     *)
(*                                                                         *)
(* The engine is single threaded, and an application calls it: run a task, *)
(* do_engine_steps, refresh, send an event, reset, cancel.  Each call is   *)
(* one action.  The methods of the code, which call each other all along   *)
(* the tree, are operators from a state of the engine to the next; such a  *)
(* state S is a record, see InitialEngine.  An exception sets S.raised and *)
(* keeps the operators above it from going on.                             *)
(*                                                                         *)
(* The data of the tasks are reduced to what the conditions of gateways    *)
(* make of them: S.choice, chosen anew whenever a user task is completed.  *)
(***************************************************************************)
EXTENDS BpmnControl
SE == INSTANCE SequencesExt

CONSTANTS
    Choices,        \* for each of Tops the values S.choice can have: the conditional outputs
                    \* whose condition holds, and the value of the correlation key
    ExternalEvents, \* for each of Tops the events that come from outside, see BpmnEvent
    ByHand,         \* the specs whose tasks the application runs one by one
    Calls,          \* for each of Tops, which CallNames may come from outside
    MaxCalls        \* for each of Tops a bound on how often it does

CallNames == {"event", "send", "timer", "reset", "reset early", "cancel"}
ASSUME BpmnAssumption == \A p \in Tops : MaxCalls[p] \in Nat /\ Calls[p] \subseteq CallNames

VARIABLES
    engine,  \* the state of the engine
    used     \* how many calls have come from outside

vars == <<engine, used>>

RECURSIVE Call(_, _, _, _), DeleteSub(_, _)

\* The methods that call each other in circles; what they do is in the operators
\* that Call, at the end of their list, names.
Update(S, x)           == Call("update", S, x, None)
Visit(S, todo, it)     == Call("visit", S, todo, it)
Run(S, x, s)           == Call("run", S, x, s)
Catch(S, e)            == Call("catch", S, e, None)
Reset(S, x, removeSub) == Call("reset", S, x, removeSub)
ResetBranch(S, x, w)   == Call("reset branch", S, x, w)
Predict(S, x, mask)    == Call("predict", S, x, mask)
UpdateHook(S, x)       == Call("update hook", S, x, None)
CatchHook(S, x)        == Call("catch hook", S, x, None)
Threshold(S, x)        == Call("threshold", S, x, None)
Complete(S, x, s)      == Call("complete", S, x, s)
Deliver(S, e)          == Call("deliver", S, e, None)
StartCycle(S, x)       == Call("start cycle", S, x, None)
Refresh(S)             == Call("refresh", S, None, None)
Drain(S, w)            == Call("drain", S, w, None)
EngineSteps(S)         == Call("engine steps", S, None, None)

\* The method for every task of X, in the order of iteration.
EachCall(method, S, X, arg) ==
    LET xs == Ordered(X)
        R[i \in 0..Len(xs)] == IF i = 0 THEN S ELSE Call(method, R[i - 1], xs[i], arg)
    IN  R[Len(xs)]

-----------------------------------------------------------------------------
(* Events *)

\* What is thrown: a definition, the value of its correlation key, and whether it
\* has a target, which keeps it from starting processes and from the queue.
BpmnEvent(def, key, targeted) == [def |-> def, key |-> key, targeted |-> targeted]

DefOf(s) == Event[Net[s].event]
Def(S, x) == DefOf(TaskOf(S, x).spec)

\* Mutant: a message that names no known conversation goes to everybody.
Catches_Uncorrelated(S, x, e) ==
    LET s == TaskOf(S, x).spec
    IN  /\ Kind(s) \in CatchingKinds
        /\ SameEvent(DefOf(s), e.def)
        /\ Kind(s) = "Boundary" => Has(S, x, {"WAITING"})

\* A message with correlations is caught only if its key is that of the workflow,
\* if it has one.
Correlates(S, x, d, e) == ~d.correlated \/ e.key = None \/ S.corr[Wf(x)] \in {None, e.key}

\* catches() of a task: boundary events only while WAITING.
Catches(S, x, e) ==
    LET s == TaskOf(S, x).spec
    IN  /\ Kind(s) \in CatchingKinds
        /\ SameEvent(DefOf(s), e.def) /\ Correlates(S, x, DefOf(s), e)
        /\ Kind(s) = "Boundary" => Has(S, x, {"WAITING"})

\* catch() of a task: whatever its state, it is WAITING now.  A start event that
\* has been used is reset first.
CatchBy(S, x, e) ==
    IF S.raised \/ ~Exists(S, x) THEN S
    ELSE LET R == IF KindOf(S, x) = "StartEvent" /\ Has(S, x, {"COMPLETED", "CANCELLED"})
                  THEN IF Wf(x) = Root THEN Reset(S, x, TRUE) ELSE ResetBranch(S, x, Wf(x))
                  ELSE S
         IN  SetTo([R EXCEPT !.fired = @ \union {x},
                             !.seen  = @ \union (IF Def(S, x).kind = "multiple" THEN {<<x, e>>} ELSE {})],
                  x, "WAITING")

Workflows(S) == DOMAIN S.wfs
TopProcess(S) == Net[S.wfs[Root][Root].spec].process

\* Adding the task of a new subprocess below the root of the top workflow.
AddCall(S, s) == WithTree(S, Root, AddChildren(S.wfs[Root], Root, [i \in {1} |-> s], 1, "MAYBE"))

\* The specs that call a process from outside any diagram, one per process.
CallerOf(p) == CHOOSE s \in Specs : Net[s].process = None /\ Net[s].calls = p

\* update_collaboration: for every start event that the event matches, a subprocess
\* that waits at it is found or created, and it joins the conversation.
Collaborate(S, e) ==
    LET starts == {s \in Specs : /\ Kind(s) = "StartEvent" /\ Net[s].process # TopProcess(S)
                                 /\ SameEvent(DefOf(s), e.def)}
        Waiting(R, s) == {k \in DOMAIN R.subs :
                             \E y \in TasksOf(R, R.subs[k]) :
                                 TaskOf(R, y).spec = s /\ Has(R, y, {"WAITING"})}
        Join(R, w) == [R EXCEPT !.corr[w] = IF e.key = None THEN @ ELSE e.key]
        Born(A)    == <<Root, <<A.wfs[Root][Root].born>>>>
        Called(A)  == Join(Update(A, Born(A)), Sub(Born(A)))
        Start(R, s) ==
            IF Waiting(R, s) # {}
            THEN Join(R, R.subs[CHOOSE k \in Waiting(R, s) : \A j \in Waiting(R, s) : k <= j])
            ELSE Called(AddCall(R, CallerOf(Net[s].process)))
        seq == SE!SetToSeq(starts)
        R[i \in 0..Len(seq)] == IF i = 0 THEN S ELSE Start(R[i - 1], seq[i])
    IN  R[Len(seq)]

\* An iterator that looks into subprocesses or not, and the waiting tasks that it
\* holds although they have been removed.
Iterator(deep, removed) == [deep |-> deep, removed |-> removed]

\* refresh_waiting_tasks.  The depth of a subprocess without its task cannot be
\* determined.
DoRefresh(S) ==
    LET active == ActiveSubs(S)
        Subs[i \in 0..Len(active)] ==
            IF i = 0 THEN S
            ELSE IF active[i] \in Workflows(Subs[i - 1])
                 THEN Visit(Subs[i - 1], {<<active[i], Root>>}, Iterator(FALSE, <<>>)) ELSE Subs[i - 1]
    IN  IF S.raised THEN S
        ELSE IF \E i \in DOMAIN active : IsOrphan(S, active[i]) THEN [S EXCEPT !.raised = TRUE]
        ELSE Visit(Subs[Len(active)], {<<Root, Root>>}, Iterator(TRUE, <<>>))

Catchers(S, e) == {x \in Scope(S, Root) : Has(S, x, NOT_FINISHED) /\ Catches(S, x, e)}

\* Mutant: an event that nobody catches is forgotten.
Keep_Not(S, e) == S
\* An event that nobody can catch now waits in the queue.
Keep(S, e) ==
    IF Catchers(S, e) = {} /\ ~e.targeted THEN [S EXCEPT !.queue = Append(@, e.def)] ELSE S

\* BpmnWorkflow.catch.
DoDeliver(S, e) == EachCall("catch by", Keep(S, e), Catchers(S, e), e)
DoCatch(S, e)   == Refresh(Deliver(IF e.targeted THEN S ELSE Collaborate(S, e), e))

\* EventDefinition.throw and its overrides; a multiple event throws each of its events.
ThrowOne(S, x, d) ==
    LET key == IF d.correlated THEN S.choice.key ELSE None
        C   == IF d.kind = "message" /\ key # None /\ Wf(x) \in Workflows(S)
               THEN [S EXCEPT !.corr[Wf(x)] = key] ELSE S
    IN  IF d.kind = "none" \/ S.raised THEN S
        ELSE Catch(C, BpmnEvent(d, key, d.kind = "terminate" \/ (d.kind = "cancel" /\ Wf(x) # Root)))
Throw(S, x, s) ==
    LET names == IF DefOf(s).kind = "multiple" THEN SE!SetToSeq(DefOf(s).events) ELSE <<Net[s].event>>
        R[i \in 0..Len(names)] == IF i = 0 THEN S ELSE ThrowOne(R[i - 1], x, Event[names[i]])
    IN  R[Len(names)]

-----------------------------------------------------------------------------
(* Update hooks *)

\* _ready; an event gateway cancels the events that have not occurred.
BecomeReady(S, x) ==
    IF ~Exists(S, x) \/ Has(S, x, {"COMPLETED", "CANCELLED"}) THEN S
    ELSE LET R == SetTo(S, x, "READY")
         IN  IF KindOf(S, x) = "EventGateway" THEN CancelAll(R, Kids(R, x) \ R.fired) ELSE R

\* A cycle of a timer begins: one more child per output.
DoStartCycle(S, x) ==
    LET outs == Net[TaskOf(S, x).spec].outputs
        Begun(A, c) == Update(Predict(A, c, NOT_FINISHED), c)
        With(A)     == Begun(A, <<Wf(x), Append(At(x), A.wfs[Wf(x)][At(x)].born)>>)
        One(Q, i)   == With(WithTree(Q, Wf(x), AddChildren(Q.wfs[Wf(x)], At(x),
                                                           [k \in {1} |-> outs[i]], 1, "FUTURE")))
        R[i \in 0..Len(outs)] == IF i = 0 THEN S ELSE One(R[i - 1], i)
    IN  R[Len(outs)]

\* Of a multiple event the children that stand for its timers are updated whenever
\* it is asked whether it has fired; it raises for a timer without a child.
Timed(d) == {n \in d.events : Event[n].kind \in {"timer", "cycle"}}
Behind(S, x, n) == {c \in Kids(S, x) : SameEvent(Event[n], Def(S, c))}
Timers(S, x) == {First(Behind(S, x, n)) : n \in {m \in Timed(Def(S, x)) : Behind(S, x, m) # {}}}
HasSeen(S, x, n) ==
    \/ \E k \in Timers(S, x) \intersect S.fired : SameEvent(Event[n], Def(S, k))
    \/ /\ n \notin Timed(Def(S, x))
       /\ \E y \in S.seen : y[1] = x /\ SameEvent(Event[n], y[2].def)
                            /\ Correlates(S, x, Event[n], y[2])

\* has_fired of an event definition: a timer has fired if it is due, a multiple
\* event when one event has been received, or each one.
HasFired(S, x) ==
    LET d == Def(S, x)
    IN  CASE d.kind = "none"     -> TRUE
          [] d.kind = "timer"    -> x \in S.fired \union S.due
          [] d.kind = "multiple" -> IF d.parallel THEN \A n \in d.events : HasSeen(S, x, n)
                                    ELSE \E y \in S.seen : y[1] = x
          [] OTHER               -> x \in S.fired

\* CatchingEvent._update_hook.  A cycle timer fires as an event when no cycle is
\* left.
CatchHookOf(S, x, d, fired, left) ==
    CASE \E n \in Timed(d) : Behind(S, x, n) = {} -> Hooked([S EXCEPT !.raised = TRUE], FALSE)
      [] OTHER -> Hooked(
             IF fired THEN [S EXCEPT !.fired = @ \union {x}]
             ELSE IF d.kind = "cycle" /\ left = 0
                  THEN [SetTo(S, x, "WAITING") EXCEPT !.fired = @ \union {x}]
             ELSE IF d.kind = "cycle" /\ x \in S.due
                  THEN StartCycle([SetTo(S, x, "WAITING") EXCEPT !.due   = @ \ {x},
                                                                 !.ticks = Append(@, x)], x)
             ELSE SetTo(S, x, "WAITING"), fired)
HookTimers(S, x) ==
    LET ts == Ordered(Timers(S, x))
        R[i \in 0..Len(ts)] == IF i = 0 THEN S ELSE CatchHook(R[i - 1], ts[i]).S
    IN  R[Len(ts)]
DoCatchHook(S, x) ==
    CatchHookOf(S, x, Def(S, x), HasFired(S, x),
                Def(S, x).cycles - Cardinality({k \in DOMAIN S.ticks : S.ticks[k] = x}))

\* The constructor of a workflow for process p.
NewTree(p) ==
    PredictBranches([t \in {Root} |-> [spec |-> StartOf(p), state |-> "FUTURE", thread |-> 0, born |-> 0]],
                    {<<Root, 0>>}, NOT_FINISHED)

Extended(f, w, v) == [u \in DOMAIN f \union {w} |-> IF u = w THEN v ELSE f[u]]
Without(f, w)     == [u \in DOMAIN f \ {w} |-> f[u]]

NewWorkflow(S, w, p) ==
    [S EXCEPT !.wfs    = Extended(@, w, SetState(NewTree(p), {Root}, "READY")),
              !.corr   = Extended(@, w, None),
              !.last   = Extended(@, w, NoTask),
              !.result = Extended(@, w, NoTask),
              !.subs   = IF w = Root THEN @ ELSE Append(@, w)]

\* SubWorkflowTask._update_hook: the subprocess is created and its start task is
\* run at once; later the task is ready when the subprocess is completed.
SubHook(S, x) ==
    LET p       == Net[TaskOf(S, x).spec].calls
        Wait(R) == IF R.raised THEN R ELSE SetTo(R, x, "WAITING")
    IN  IF HasSub(S, x) THEN Hooked(S, IsCompleted(S.wfs[Sub(x)]))
        ELSE Hooked(Wait(Run(NewWorkflow(S, Sub(x), p), <<Sub(x), Root>>, StartOf(p))), FALSE)

DoUpdateHook(S, x) ==
    CASE KindOf(S, x) \in CatchingKinds -> CatchHook(HookTimers(S, x), x)
      [] KindOf(S, x) = "Subprocess"    -> SubHook(S, x)
      [] KindOf(S, x) \in JoinKinds     -> JoinHook(S, x, Threshold(S, x))
      [] OTHER                          -> Hooked(S, TRUE)

\* TaskSpec._update.
ReadyIf(h, x) == IF h.go /\ ~h.S.raised THEN BecomeReady(h.S, x) ELSE h.S
DoUpdate(S, x) ==
    IF S.raised \/ ~Exists(S, x) THEN S
    ELSE ReadyIf(UpdateHook(IF Has(S, x, PREDICTED) THEN Predict(S, x, PREDICTED) ELSE S, x), x)

\* The same for a task that has been removed from the tree: it still is what it was,
\* and a join takes the other instances; but it needs its parent.
UpdateRemoved(S, x, task) ==
    IF S.raised \/ Wf(x) \notin Workflows(S) THEN S
    ELSE IF ~Exists(S, Over(x)) THEN [S EXCEPT !.raised = TRUE]
    ELSE LET U == Update(WithTree(S, Wf(x), Extended(S.wfs[Wf(x)], At(x), task)), x)
         IN  WithTree(U, Wf(x), RemoveBranches(U.wfs[Wf(x)], {At(x)}))

\* Every WAITING task that an iterator over todo comes to is updated.
DoVisit(S, todo, it) ==
    IF todo = {} \/ S.raised THEN S
    ELSE LET x    == First(todo)
             rest == todo \ {x}
             down == (IF ~Exists(S, x) \/ Has(S, x, PREDICTED) THEN {} ELSE Kids(S, x))
                         \union (IF it.deep /\ HasSub(S, x) THEN {<<Sub(x), Root>>} ELSE {})
             R    == IF Exists(S, x) THEN IF Has(S, x, {"WAITING"}) THEN Update(S, x) ELSE S
                     ELSE IF x \in DOMAIN it.removed THEN UpdateRemoved(S, x, it.removed[x]) ELSE S
             lost == {y \in rest : Exists(S, y) /\ Has(S, y, {"WAITING"}) /\ ~Exists(R, y)}
         IN  Visit(R, rest \union down,
                   Iterator(it.deep, [y \in lost \union DOMAIN it.removed |->
                                         IF y \in lost THEN TaskOf(S, y) ELSE it.removed[y]]))

-----------------------------------------------------------------------------
(* Running and completing a task *)

\* What the run hook of a gateway makes of its children, then they are predicted.
Choose(S, x, outs) ==
    IF outs = {} THEN [S EXCEPT !.raised = TRUE]
    ELSE LET T == S.wfs[Wf(x)]
             s == T[At(x)].spec
             R == WithTree(S, Wf(x), SyncTo(T, At(x), Outs(s, outs), "FUTURE"))
         IN  IF Kind(s) = "Inclusive" THEN R
             ELSE ForEach(LAMBDA Q, c : Predict(Q, c, PREDICTED \union {"FUTURE"}), R, Kids(R, x))

\* The exclusive gateway takes the first output whose condition matches, or the
\* default; the inclusive one all that match and those without a condition.
Chosen(S, s) ==
    LET outs    == Net[s].outputs
        matches == {i \in DOMAIN outs : outs[i] \in Net[s].cond \intersect S.choice.holds}
    IN  IF Kind(s) = "Inclusive"
        THEN (Members(outs) \ Net[s].cond) \union (Net[s].cond \intersect S.choice.holds)
        ELSE IF matches # {} THEN {outs[CHOOSE i \in matches : \A j \in matches : i <= j]}
        ELSE {Net[s].default} \ {None}

\* EventDefinition.reset.
Forget(S, X) == [S EXCEPT !.fired = @ \ X, !.seen = {y \in @ : y[1] \notin X}]

RunHook(S, x, s) ==
    CASE Kind(s) \in {"Exclusive", "Inclusive"} /\ Exists(S, x) -> Choose(S, x, Chosen(S, s))
      [] Kind(s) \in {"Split", "StartSplit"} /\ Exists(S, x) ->
             ForEach(LAMBDA R, k : SetTo(R, k, "WAITING"), S,
                     {k \in Kids(S, x) : /\ KindOf(S, k) \in {"Boundary", "StartEvent"}
                                         /\ Has(S, k, PREDICTED)})
      [] Kind(s) \in CatchingKinds -> Forget(S, {x})
      [] Kind(s) \in ThrowingKinds -> Throw(S, x, s)
      [] OTHER -> S

\* _on_complete_hook: a terminating end event cancels its workflow, a cancelling
\* one the transaction.
CompleteHook(S, x, s) ==
    IF Kind(s) # "EndEvent" \/ Wf(x) \notin Workflows(S) THEN S
    ELSE CASE DefOf(s).kind = "terminate" ->
                  CancelAll(S, {y \in Scope(S, Wf(x)) : Has(S, y, NOT_FINISHED)})
           [] DefOf(s).kind = "cancel" -> CancelTask(S, <<Wf(x), Root>>)
           [] OTHER -> S

\* Mutant: a child that has been cancelled is updated as well.
UpdateKids_All(S, x) == EachCall("update", S, IF Exists(S, x) THEN Kids(S, x) ELSE {}, None)

\* complete(): the children are updated, then all waiting tasks of the workflow;
\* a subprocess that is completed hands over the data of its last_task, which is
\* not this task yet.
UpdateKids(S, x) ==
    LET kids == Ordered(IF Exists(S, x) THEN Kids(S, x) ELSE {})
        Child(Q, k) == IF Exists(Q, k) /\ Has(Q, k, NOT_FINISHED) THEN Update(Q, k) ELSE Q
        R[i \in 0..Len(kids)] == IF i = 0 THEN S ELSE Child(R[i - 1], kids[i])
    IN  R[Len(kids)]
Visited(S, w) == IF w \in Workflows(S) THEN Visit(S, {<<w, Root>>}, Iterator(FALSE, <<>>)) ELSE S
HandOver(S, x) ==
    IF S.raised \/ Wf(x) \notin Workflows(S) THEN S
    ELSE [S EXCEPT !.result[Wf(x)] = IF IsCompleted(S.wfs[Wf(x)]) THEN S.last[Wf(x)] ELSE @,
                   !.last[Wf(x)] = x]
DoComplete(S, x, s) ==
    HandOver(Visited(UpdateKids(CompleteHook(SetTo(S, x, "COMPLETED"), x, s), x), Wf(x)), x)

\* Task.run of x, whose spec is s: the task may have been removed from the tree.
DoRun(S, x, s) ==
    LET After(R) == IF R.raised THEN SetTo(R, x, "ERROR") ELSE Complete(R, x, s)
    IN  IF S.raised THEN S ELSE After(RunHook(S, x, s))

-----------------------------------------------------------------------------
(* Workflows and subprocesses *)

\* What is said of tasks that are no longer there is forgotten.
Settled(S) ==
    [S EXCEPT !.fired = {x \in @ : Exists(S, x)},
              !.seen  = {y \in @ : Exists(S, y[1])},
              !.due   = {x \in @ : Exists(S, x)},
              !.order = SelectSeq(@, LAMBDA x : Exists(S, x)),
              !.ticks = SelectSeq(@, LAMBDA x : Exists(S, x))]

\* Mutant: the subprocess stays in the list.
DeleteSub_Listed(S, x) == Settled([S EXCEPT !.wfs = Without(@, Sub(x))])

\* delete_subprocess, with the subprocesses of its tasks.
DeleteSub(S, x) ==
    LET w == Sub(x)
        R == ForEach(DeleteSub, S, {y \in TasksOf(S, w) : HasSub(S, y)})
    IN  Settled([R EXCEPT !.wfs    = Without(@, w),
                          !.corr   = Without(@, w),
                          !.last   = Without(@, w),
                          !.result = Without(@, w),
                          !.subs   = SelectSeq(@, LAMBDA v : v # w)])

\* Workflow.reset_from_task_id of workflow v: what is below x goes, x is predicted and
\* updated.  For a task of a subprocess it is the last_task of v that changes.
DoResetBranch(S, x, v) ==
    LET w    == Wf(x)
        T    == S.wfs[w]
        bare == SetState(RemoveBranches(T, Children(T, At(x))), {At(x)}, "FUTURE")
        R    == [Forget(S, {x}) EXCEPT !.wfs[w] = bare, !.last[v] = Over(x),
                          !.due = @ \ {x}, !.ticks = SelectSeq(@, LAMBDA y : y # x)]
    IN  Update(Predict(R, x, PREDICTED \union {"FUTURE"}), x)

\* Mutant: the subprocesses of the tasks that are removed stay.
DeleteSubs_Not(S, X) == S
DeleteSubs(S, X) == ForEach(DeleteSub, S, X)

\* BpmnWorkflow.reset_from_task_id.  A task with boundary events is reset together
\* with its split, which is run again; the tasks that own the subprocess in which
\* x lies are reset as well, and wait for it.
ResetOwner(S, w) ==
    IF w = Root \/ S.raised THEN S ELSE SetTo(Reset(S, OwnerOf(w), FALSE), OwnerOf(w), "WAITING")
ResetAt(S, y, gone) == ResetOwner(DoResetBranch(DeleteSubs(S, gone), y, Root), Wf(y))
DoReset(S, x, removeSub) ==
    LET jump == KindOf(S, Over(x)) = "Split"
        y    == IF jump THEN Over(x) ELSE x
        gone == {z \in InWf(Wf(x), Branch(S.wfs[Wf(x)], At(y))) : HasSub(S, z) /\ (z # y \/ removeSub)}
    IN  IF S.raised \/ At(x) = Root \/ \E v \in Workflows(S) : IsOrphan(S, v) /\ gone # {}
        THEN [S EXCEPT !.raised = TRUE]
        ELSE IF jump THEN Run(ResetAt(S, y, gone), y, TaskOf(S, y).spec)
        ELSE ResetAt(S, y, gone)

\* run() of every task of batch, in order, whatever has become of it meanwhile.
RunBatch(S, batch) ==
    LET xs == Ordered(batch)
        R[i \in 0..Len(xs)] == IF i = 0 THEN S ELSE Run(R[i - 1], xs[i], TaskOf(S, xs[i]).spec)
    IN  R[Len(xs)]

Engine(S, X) == {x \in X : ~Net[TaskOf(S, x).spec].manual}

\* The engine tasks of a subprocess are run until there are none.
DoDrain(S, w) ==
    LET batch == IF w \in Workflows(S)
                 THEN Engine(S, {x \in Found(S, w, {"READY"}) : Wf(x) = w}) ELSE {}
    IN  IF batch = {} \/ S.raised THEN S ELSE Drain(RunBatch(S, batch), w)

\* Mutant: the tasks that own the subprocesses are not updated.
Notify_Not(S, w) == S
Notify(S, w) ==
    IF S.raised THEN S
    ELSE IF ~Exists(S, OwnerOf(w)) THEN [S EXCEPT !.raised = TRUE] ELSE Update(S, OwnerOf(w))

\* do_engine_steps: subprocesses, the deepest first, each with the task that owns
\* it, then one round of the whole workflow; again as long as that did something.
Subprocesses(S, active) ==
    LET R[i \in 0..Len(active)] ==
            IF i = 0 THEN S ELSE Notify(Drain(R[i - 1], active[i]), active[i])
    IN  R[Len(active)]
NextRound(T, more) == IF more /\ ~T.raised THEN EngineSteps(T) ELSE T
AfterRound(T, ran, before) == NextRound(T, ran \/ Len(ActiveSubs(T)) > before)
Round(D, batch, before) == AfterRound(RunBatch(D, batch), batch # {}, before)
AfterSubs(D, before) == IF D.raised THEN D ELSE Round(D, Engine(D, Found(D, Root, {"READY"})), before)
DoEngineSteps(S) ==
    LET active == ActiveSubs(S)
    IN  IF S.raised THEN S
        ELSE IF \E i \in DOMAIN active : IsOrphan(S, active[i]) THEN [S EXCEPT !.raised = TRUE]
        ELSE AfterSubs(Subprocesses(S, active), Len(active))

\* send_event: also finished tasks catch.
Hearers(S, e) == {x \in Scope(S, Root) : Catches(S, x, e)}
DoSend(S, e)  == Refresh(EachCall("catch by", S, Hearers(S, e), e))

Call(method, S, x, arg) ==
    CASE method = "update"       -> DoUpdate(S, x)
      [] method = "visit"        -> DoVisit(S, x, arg)
      [] method = "run"          -> DoRun(S, x, arg)
      [] method = "catch"        -> DoCatch(S, x)
      [] method = "catch by"     -> CatchBy(S, x, arg)
      [] method = "reset"        -> DoReset(S, x, arg)
      [] method = "reset branch" -> DoResetBranch(S, x, arg)
      [] method = "predict"      -> DoPredict(S, x, arg)
      [] method = "start cycle"  -> DoStartCycle(S, x)
      [] method = "update hook"  -> DoUpdateHook(S, x)
      [] method = "complete"     -> DoComplete(S, x, arg)
      [] method = "catch hook"   -> DoCatchHook(S, x)
      [] method = "threshold"    -> DoThreshold(S, x)
      [] method = "deliver"      -> DoDeliver(S, x)
      [] method = "refresh"      -> DoRefresh(S)
      [] method = "drain"        -> DoDrain(S, x)
      [] method = "engine steps" -> DoEngineSteps(S)
      [] method = "send"         -> DoSend(S, x)

-----------------------------------------------------------------------------
(* The calls of an application *)

\* A new workflow: the top tree, nothing caught, nothing queued.
InitialEngine(p, choice) ==
    NewWorkflow([wfs |-> <<>>, corr |-> <<>>, last |-> <<>>, result |-> <<>>,
                 subs   |-> <<>>,  \* the subprocesses in the order of their creation
                 order  |-> <<>>,  \* see SetTo
                 fired  |-> {},    \* event_fired
                 seen   |-> {},    \* seen_events of the multiple events
                 due    |-> {},    \* timers whose moment has passed
                 ticks  |-> <<>>,  \* one entry per cycle that a cycle timer has begun
                 queue  |-> <<>>,  \* bpmn_events
                 choice |-> choice,
                 raised |-> FALSE],
                Root, p)

Calm  == [engine EXCEPT !.raised = FALSE]
Top   == TopProcess(engine)
Tasks == UNION {TasksOf(engine, w) : w \in Workflows(engine)}

Free      == UNCHANGED used
Use(call) == call \in Calls[Top] /\ used < MaxCalls[Top] /\ used' = used + 1

Init == /\ \E p \in Tops : \E c \in Choices[p] : engine = InitialEngine(p, c)
        /\ used = 0

\* What may be called: a method, its arguments, and the data that come with it.
Request(method, x, arg, choice) == <<method, x, arg, choice>>
Method(q)   == q[1]
Target(q)   == q[2]
Argument(q) == q[3]
DataOf(q)   == q[4]
Plain(method, x) == Request(method, x, None, engine.choice)
Requests ==
    {Plain("engine steps", None), Plain("refresh", None)}
        \union {Plain(m, e) : m \in {"catch", "send"}, e \in ExternalEvents[Top]}
        \union {Request("reset", x, TRUE, engine.choice) : x \in Tasks}
        \union {Request("run", x, TaskOf(engine, x).spec, c) : x \in Tasks, c \in Choices[Top]}

\* run() of a task that is READY; a user task comes with new data.
RunTask(q) ==
    /\ Method(q) = "run" /\ Has(engine, Target(q), {"READY"}) /\ Argument(q) \in ByHand
    /\ Net[Argument(q)].manual \/ DataOf(q) = engine.choice
    /\ Free

RunEngineSteps(q) == Method(q) = "engine steps" /\ Free

RefreshWaitingTasks(q) == Method(q) = "refresh" /\ Free

\* catch() of an event from outside.
CatchEvent(q) == Method(q) = "catch" /\ Use("event")

\* send_event: it raises if nobody catches the event.
SendEvent(q) == Method(q) = "send" /\ Hearers(engine, Target(q)) # {} /\ Use("send")

\* reset_from_task_id of any task: "reset" is that of a task that has been run.
HasRun(x) == At(x) # Root /\ Has(engine, x, {"COMPLETED"}) /\ Has(engine, Over(x), {"COMPLETED"})
ResetTask(q) ==
    /\ Method(q) = "reset"
    /\ Use(IF HasRun(Target(q)) THEN "reset" ELSE "reset early")

\* What the engine makes of it.
Served(q) == Call(Method(q), [Calm EXCEPT !.choice = DataOf(q)], Target(q), Argument(q))
Serve ==
    \E q \in Requests :
        /\ \/ RunTask(q) \/ RunEngineSteps(q) \/ RefreshWaitingTasks(q)
           \/ CatchEvent(q) \/ SendEvent(q) \/ ResetTask(q)
        /\ engine' = Settled(Served(q))

GetEvents == /\ engine.queue # <<>>
             /\ engine' = Settled([Calm EXCEPT !.queue = <<>>])
             /\ Free

\* The moment of a timer that is running passes; it is noticed at a refresh.
TimerDue(x) ==
    /\ Has(engine, x, {"WAITING"})
    /\ KindOf(engine, x) \in CatchingKinds /\ Def(engine, x).kind \in {"timer", "cycle"}
    /\ x \notin engine.due
    /\ Use("timer")
    /\ engine' = Settled([engine EXCEPT !.due = @ \union {x}])
TimerAny == \E x \in Tasks : TimerDue(x)

CancelWorkflow ==
    /\ Use("cancel")
    /\ engine' = Settled(CancelTask(Calm, <<Root, Root>>))

Next == Serve \/ GetEvents \/ TimerAny \/ CancelWorkflow

Spec == Init /\ [][Next]_vars
=============================================================================
