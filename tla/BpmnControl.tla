---------------------------- MODULE BpmnControl ----------------------------
(***************************************************************************)
(* How the tree of a BPMN workflow grows and is pruned: cancellation,      *)
(* prediction, and what the joins decide: the gateways, and the control    *)
(* tasks around boundary and start events.  S is a state of the engine, a  *)
(* record, see InitialEngine in BpmnEngine.tla.                            *)
(***************************************************************************)
EXTENDS BpmnProcess

RECURSIVE PredictBranches(_, _, _), CancelTask(_, _)

NoTask == <<Root, <<0>>>>
HasDef(s) == Kind(s) \in CatchingKinds \union ThrowingKinds

-----------------------------------------------------------------------------
(* Small steps *)

WithTree(S, w, T) == [S EXCEPT !.wfs[w] = T]

\* _set_state; without effect on a task that has been removed from the tree.
\* order lists the finished predecessors of gateways by their last_state_change.
SetTo(S, x, state) ==
    IF ~Exists(S, x) THEN S
    ELSE LET T == [S EXCEPT !.wfs[Wf(x)][At(x)].state = state]
         IN  IF state \in FINISHED /\ FeedsJoin(TaskOf(S, x).spec) /\ ~Has(S, x, {state})
             THEN [T EXCEPT !.order = Append(SelectSeq(@, LAMBDA y : y # x), x)]
             ELSE T

\* Mutant: the subprocess of a cancelled task goes on.
CancelTask_Shallow(S, x) ==
    IF Exists(S, x) THEN WithTree(S, Wf(x), CancelBranch(S.wfs[Wf(x)], At(x))) ELSE S

\* cancel() of a task, or of the whole tree.  SubWorkflowTask._on_cancel cancels the
\* subprocess of a task that becomes CANCELLED.
CancelTask(S, x) ==
    LET T   == S.wfs[Wf(x)]
        new == CancelBranch(T, At(x))
        cancelled == {<<Wf(x), t>> : t \in {d \in DOMAIN new : In(new, d, {"CANCELLED"})
                                                               /\ In(T, d, NOT_FINISHED)}}
        Now(R) == [R EXCEPT !.order = ForEach(Append, SelectSeq(@, LAMBDA y : y \notin cancelled),
                                              {y \in cancelled : FeedsJoin(TaskOf(S, y).spec)})]
    IN  IF ~Exists(S, x) THEN S
        ELSE ForEach(LAMBDA R, y : IF HasSub(R, y) THEN CancelTask(R, <<Sub(y), Root>>) ELSE R,
                     Now(WithTree(S, Wf(x), new)), cancelled)

CancelAll(S, X) == ForEach(CancelTask, S, X)

-----------------------------------------------------------------------------
(* Prediction *)

\* The part of outs that is in A.
Outs(s, A) == [i \in {k \in DOMAIN Net[s].outputs : Net[s].outputs[k] \in A} |-> Net[s].outputs[i]]

SyncTo(T, t, outs, state) == SyncChildren(T, t, outs, Len(Net[T[t].spec].outputs), state)

\* _predict_hook of every kind of spec.
MaybeOnly(s) == Kind(s) \in {"EventGateway", "Split", "StartSplit"}
Optional(s)  == IF Kind(s) \in {"Exclusive", "Inclusive"} THEN Net[s].cond ELSE {}
IsCycle(s)   == Kind(s) \in CatchingKinds /\ Event[Net[s].event].kind = "cycle"
PredictedAs(T, t) ==
    CASE MaybeOnly(T[t].spec) -> "MAYBE"
      [] Kind(T[t].spec) \in {"Exclusive", "Inclusive"} -> IF In(T, t, {"MAYBE"}) THEN "MAYBE" ELSE "LIKELY"
      [] OTHER -> IF In(T, t, DEFINITE) THEN "FUTURE" ELSE T[t].state

\* Behind a gateway the outputs that carry a condition are appended; of a split the
\* main task is as certain as the split.
Refine(T, t, state) ==
    LET s == T[t].spec
    IN  IF Kind(s) \in {"Split", "StartSplit"}
        THEN SetState(T, {c \in Children(T, t) : Kind(T[c].spec) \notin {"Boundary", "StartEvent"}},
                      state)
        ELSE IF Kind(s) \in {"Exclusive", "Inclusive"}
             THEN AddChildren(T, t, Outs(s, Net[s].cond), Len(Net[s].outputs), "MAYBE") ELSE T

PredictHook(T, t) ==
    LET s == T[t].spec
    IN  IF IsCycle(s) THEN T
        ELSE Refine(SyncTo(T, t, Outs(s, Specs \ Optional(s)), PredictedAs(T, t)), t,
                    IF In(T, t, DEFINITE) THEN "FUTURE" ELSE T[t].state)

\* _predict of the tasks of todo, which is a set of pairs <<task, steps taken>>:
\* it goes on below a task that is definite, and below the first one.
PredictBranches(T, todo, mask) ==
    LET first == CHOOSE e \in todo : TRUE
        t     == first[1]
        Onward(P) ==
            PredictBranches(P, (todo \ {first}) \union
                                   {<<c, first[2] + 1>> :
                                       c \in IF In(P, t, DEFINITE) \/ first[2] = 0
                                             THEN {k \in Children(P, t) : In(P, k, mask)} ELSE {}},
                            mask)
    IN  IF todo = {} THEN T ELSE Onward(IF In(T, t, mask) THEN PredictHook(T, t) ELSE T)

\* TaskSpec._predict.
DoPredict(S, x, mask) == WithTree(S, Wf(x), PredictBranches(S.wfs[Wf(x)], {<<At(x), 0>>}, mask))

-----------------------------------------------------------------------------
(* Whether a join may fire, and the tasks that it would cancel. *)

Hooked(S, go) == [S |-> S, go |-> go]

\* Mutant: an input counts as soon as its task has been reached.
MissingInputs_Early(S, x) ==
    LET T == S.wfs[Wf(x)]
    IN  Members(Net[TaskOf(S, x).spec].inputs)
            \ {T[t].spec : t \in InState(T, {"READY", "COMPLETED"})}

\* ParallelGateway: the inputs without a completed task; a descendant of the
\* gateway itself stands for the input it comes from.
MissingInputs(S, x) ==
    LET s == TaskOf(S, x).spec
        T == S.wfs[Wf(x)]
        Strike(waiting, y) ==
            LET p       == T[Parent(At(y))]
                sources == {a \in DOMAIN T : (a = At(y) \/ Above(a, At(y))) /\ T[a].spec \in waiting}
            IN  IF p.state = "COMPLETED" /\ p.spec \in waiting THEN waiting \ {p.spec}
                ELSE IF Above(At(x), At(y)) /\ sources # {}
                     THEN waiting \ {T[CHOOSE a \in sources : \A b \in sources : Len(b) <= Len(a)].spec}
                     ELSE waiting
    IN  ForEach(Strike, Members(Net[s].inputs), InWf(Wf(x), OfSpec(T, s)))

\* InclusiveGateway: check().  Only the first input of a spec is ever followed; in a
\* circle without a source the search has no end, and raises.
RECURSIVE Source(_, _, _)
Source(s, sources, seen) ==
    IF Net[s].inputs = <<>> THEN None
    ELSE LET p == Net[s].inputs[1]
         IN  IF p \in Members(sources) THEN p
             ELSE IF p \in seen THEN "endless"
             ELSE Source(p, sources, seen \union {p})

Drop(seq, e) ==
    LET k == CHOOSE i \in DOMAIN seq : seq[i] = e /\ \A j \in 1..(i - 1) : seq[j] # e
    IN  SubSeq(seq, 1, k - 1) \o SubSeq(seq, k + 1, Len(seq))

\* Every completed input takes away the active task that it stands for, the first that
\* is left behind it; what is left in the end does not depend on their order.
RECURSIVE Unclaimed(_, _)
Unclaimed(sources, completed) ==
    IF completed = {} THEN [left |-> sources, endless |-> FALSE]
    ELSE LET s == CHOOSE c \in completed : TRUE
             p == Source(s, sources, {})
         IN  IF p = "endless" THEN [left |-> sources, endless |-> TRUE]
             ELSE Unclaimed(IF p = None THEN sources ELSE Drop(sources, p), completed \ {s})

\* Mutant: only the predecessors of the gateway are waited for.
InclusiveThreshold_Near(S, x) ==
    LET T == S.wfs[Wf(x)]
    IN  [fire   |-> \A t \in OfSpec(T, TaskOf(S, x).spec) : ~In(T, Parent(t), {"READY", "WAITING"}),
         raise  |-> FALSE,
         cancel |-> {}]

\* completed: the specs of the predecessors that have completed; active: the specs of
\* the active tasks, see Unclaimed.
InclusiveDecision(S, x, completed, active) ==
    LET T       == S.wfs[Wf(x)]
        awaited == {Parent(t) : t \in {d \in OfSpec(T, TaskOf(S, x).spec) :
                                         In(T, Parent(d), DEFINITE) /\ T[Parent(d)].spec \notin completed}}
        from    == {Source(i, active.left, {}) : i \in Members(Net[TaskOf(S, x).spec].inputs) \ completed}
    IN  [fire   |-> awaited = {} /\ from \subseteq {None},
         raise  |-> awaited = {} /\ (active.endless \/ "endless" \in from),
         cancel |-> InWf(Wf(x), awaited)]

CompletedInputs(T, s) == {T[Parent(t)].spec : t \in {d \in OfSpec(T, s) : In(T, Parent(d), {"COMPLETED"})}}
ActiveSpecs(S, w) == ForEach(LAMBDA seq, y : Append(seq, TaskOf(S, y).spec), <<>>,
                             Found(S, w, {"READY", "WAITING"}))
InclusiveThreshold(S, x) ==
    LET completed == CompletedInputs(S.wfs[Wf(x)], TaskOf(S, x).spec)
    IN  InclusiveDecision(S, x, completed, Unclaimed(ActiveSpecs(S, Wf(x)), completed))

\* Mutants: an interrupting event does not cancel the task; a task that has finished
\* does not cancel its events.
BoundaryThreshold_KeepMain(S, x) ==
    [fire |-> TRUE, raise |-> FALSE,
     cancel |-> {k \in Kids(S, <<Wf(x), Parent(Parent(At(x)))>>) :
                    KindOf(S, k) = "Boundary" /\ Has(S, k, {"WAITING"})}]
BoundaryThreshold_KeepEvents(S, x) == [fire |-> TRUE, raise |-> FALSE, cancel |-> {}]

\* BoundaryEventJoin: the task has finished, or an interrupting event has occurred.
BoundaryDecision(kids, events, interrupt, finished) ==
    [fire   |-> finished, raise |-> FALSE,
     cancel |-> IF finished THEN events \union (IF interrupt THEN kids ELSE {}) ELSE {}]

Siblings(S, x) ==
    Kids(S, <<Wf(x), CHOOSE a \in Nearest(S.wfs[Wf(x)], At(x), Net[TaskOf(S, x).spec].split) : TRUE>>)
IsBoundary(S, k) == KindOf(S, k) = "Boundary"
Interrupts(S, k) == Net[TaskOf(S, k).spec].cancel /\ Has(S, k, {"READY", "COMPLETED"})

BoundaryThreshold(S, x) ==
    LET kids == Siblings(S, x)
        interrupt == \E k \in kids : IsBoundary(S, k) /\ Interrupts(S, k)
    IN  BoundaryDecision({k \in kids : ~IsBoundary(S, k)},
                         {k \in kids : IsBoundary(S, k) /\ Has(S, k, {"WAITING"})},
                         interrupt,
                         interrupt \/ \A k \in kids : IsBoundary(S, k) \/ Has(S, k, FINISHED))

\* StartEventJoin: one of the start events has completed.
StartThreshold(S, x) ==
    LET split == CHOOSE a \in Nearest(S.wfs[Wf(x)], At(x), Net[TaskOf(S, x).spec].split) : TRUE
        kids  == Kids(S, <<Wf(x), split>>)
    IN  [fire   |-> \E k \in kids : Has(S, k, {"COMPLETED"}), raise |-> FALSE,
         cancel |-> {k \in kids : ~Has(S, k, {"COMPLETED"})}]

DoThreshold(S, x) ==
    LET s == TaskOf(S, x).spec
    IN  CASE Kind(s) = "Parallel" ->
                 [fire |-> MissingInputs(S, x) = {}, raise |-> FALSE, cancel |-> {}]
          [] Kind(s) = "Inclusive"    -> InclusiveThreshold(S, x)
          [] Kind(s) = "BoundaryJoin" -> BoundaryThreshold(S, x)
          [] Kind(s) = "StartJoin"    -> StartThreshold(S, x)
          [] Kind(s) = "EndJoin" ->
                 [fire   |-> \A y \in Found(S, Wf(x), {"READY", "WAITING"}) : TaskOf(S, y).spec = s,
                  raise  |-> FALSE,
                  cancel |-> {}]

-----------------------------------------------------------------------------
(* Firing a join: the other instances of it are cancelled. *)

\* When a task finished, for comparison; 0 if it has not.
Finished(S, x) == IF \E i \in DOMAIN S.order : S.order[i] = x
                  THEN CHOOSE i \in DOMAIN S.order : S.order[i] = x ELSE 0

\* The instances of a gateway that have been reached.
Reached(S, x, s) ==
    LET T == S.wfs[Wf(x)]
    IN  {d \in OfSpec(T, s) : In(T, Parent(d), FINISHED) /\ ~Above(d, At(x))}

\* Gateways: all instances that have been reached but the one whose predecessor
\* finished last.  Joins of events: all other instances behind the split.  The
\* instance x itself may have been removed by what the join cancelled.
Losers(S, x, s) ==
    LET T       == S.wfs[Wf(x)]
        when(d) == Finished(S, <<Wf(x), Parent(d)>>)
    IN  IF Kind(s) \in GatewayJoins
        THEN {d \in Reached(S, x, s) :
                 \E e \in Reached(S, x, s) :
                    when(e) > when(d) \/ (when(e) = when(d) /\ Precedes(e, d))}
        ELSE {d \in OfSpec(T, s) \ {At(x)} :
                 /\ ~Above(At(x), d)
                 /\ \A a \in Nearest(T, At(x), Net[s].split) : Above(a, d)}

Pruned(S, w, others) == WithTree(S, w, DropChildren(S.wfs[w], others))
FireJoin(S, x, s, others) ==
    Pruned(ForEach(LAMBDA Q, y : SetTo(Q, y, "CANCELLED"), S, InWf(Wf(x), others)), Wf(x), others)

Decide(S, x, s, fire) ==
    IF fire THEN Hooked(FireJoin(S, x, s, Losers(S, x, s)), TRUE)
    ELSE Hooked(SetTo(S, x, "WAITING"), FALSE)

\* A join that is READY is asked again, by a refresh say: one that cancels what
\* remains raises then.
JoinHook(S, x, th) ==
    LET s == TaskOf(S, x).spec
    IN  IF Has(S, x, FINISHED) THEN Hooked(S, FALSE)
        ELSE IF IF Has(S, x, {"READY"}) THEN Net[s].cancel ELSE th.raise
             THEN Hooked([S EXCEPT !.raised = TRUE], FALSE)
        ELSE IF Has(S, x, {"READY"}) THEN Decide(S, x, s, TRUE)
        ELSE Decide(CancelAll(S, IF th.fire /\ Net[s].cancel THEN th.cancel ELSE {}), x, s, th.fire)
=============================================================================
