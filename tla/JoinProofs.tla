----------------------------- MODULE JoinProofs -----------------------------
(***************************************************************************)
(* Proofs about what is done before and behind a task.                     *)
(*                                                                         *)
(* Behind tasks that have failed or been cancelled nothing is waited for,  *)
(* is to be run or has been run.  The frames of the stack pass updates on, *)
(* so that the invariant is about them too.                                *)
(*                                                                         *)
(* Before a join that waits for its inputs has fired, as many of them have *)
(* been completed as it is to wait for, if no thread comes to one of them  *)
(* twice: it counts completed tasks, and says nothing about their specs.   *)
(*                                                                         *)
(* Before a structured join that waits for all its inputs, or cancels the  *)
(* rest, nothing is left to do once it has fired: whatever is begun before *)
(* it comes to an instance of it, and that instance does not fire twice.   *)
(***************************************************************************)
EXTENDS CallProofs

-----------------------------------------------------------------------------
(* Nothing is done behind a task that has failed.                          *)

\* A task behind which nothing may be done: it has failed, or it has been cancelled and is
\* not a join (an instance of a join that has been completed is cancelled when another one
\* fires, and what is behind it goes on).
Dead(T, a) ==
    \/ T[a].state = "ERROR"
    \/ T[a].state = "CANCELLED" /\ Kind(T[a].spec) # "Join"

Unbarred(T, d) == \A a \in DOMAIN T : Above(a, d) => ~Dead(T, a)

\* What the frames rely on.
PassOK(T, f) ==
    f.op \in {"hook", "join", "complete", "children"} /\ f.task \in DOMAIN T =>
        Unbarred(T, f.task) /\ (f.op = "children" => ~Dead(T, f.task))

TreePasses(T)   == \A d \in DOMAIN T : T[d].state \in REACHED => Unbarred(T, d)
AllPass(T, c)   == \A i \in DOMAIN c : PassOK(T, c[i])

\* The inductive invariant, with IInv, ReachInv, FiringInv and JoinsComplete.
PassInv == TreePasses(tasks) /\ AllPass(tasks, calls)

\* What has been finished and is not dead does not die.
Firm(T, U) ==
    /\ SameSpecs(T, U)
    /\ \A d \in DOMAIN T \intersect DOMAIN U :
          T[d].state \in FINISHED /\ ~Dead(T, d) => ~Dead(U, d)

\* The tasks that have been reached, are run or have failed only now are in S.
Turns(T, U, S) ==
    \A d \in DOMAIN U : U[d].state \in REACHED =>
        d \in S \/ (d \in DOMAIN T /\ T[d].state = U[d].state)

\* No task comes back that has been removed.
NoneBack(T, U) == \A p \in Path : Known(T, p) /\ p \in DOMAIN U => p \in DOMAIN T

LEMMA ShrunkTurns == ASSUME NEW T, NEW U, Shrunk(T, U) PROVE Turns(T, U, {})
  BY DEF Shrunk, Turns, REACHED

LEMMA GrownTurns ==
  ASSUME NEW T, NEW U, NEW t, NEW states, Grown(T, U, t, states)
  PROVE  /\ states \intersect REACHED = {} => Turns(T, U, {})
         /\ Turns(T, U, {c \in Children(U, t) : U[c].state \in states})
  <1>1. ASSUME NEW d \in DOMAIN U
        PROVE  \/ d \in DOMAIN T /\ T[d].state = U[d].state
               \/ d # Root /\ Parent(d) = t /\ U[d].state \in states
    BY <1>1 DEF Grown
  <1> QED
    BY <1>1 DEF Turns, Children

LEMMA SetTurns ==
  ASSUME NEW T, Tree(T, Specs), NEW S, NEW state
  PROVE  Turns(T, SetState(T, S, state), S)
  BY SetStateEffect DEF Turns

LEMMA SameTurns == ASSUME NEW T PROVE Turns(T, T, {})
  BY DEF Turns

LEMMA TurnsTwice ==
  ASSUME NEW T, NEW V, NEW U, NEW S, Turns(T, V, {}), Turns(V, U, S)
  PROVE  Turns(T, U, S)
  BY DEF Turns

LEMMA UnbarredStays ==
  ASSUME NEW T, NEW U, Tree(T, Specs), Tree(U, Specs), Firm(T, U),
         NEW d \in DOMAIN T, Attached(T, d), Unbarred(T, d)
  PROVE  Unbarred(U, d)
  <1>1. \A a \in DOMAIN U : Above(a, d) => a \in DOMAIN T
    BY StateTyped, AncestorsLive
  <1> QED
    BY <1>1 DEF Attached, Unbarred, Firm

LEMMA TreePassesStays ==
  ASSUME NEW T, NEW U, Tree(T, Specs), Tree(U, Specs), Reach(T), Firm(T, U),
         NEW S, Turns(T, U, S), TreePasses(T), \A d \in S \intersect DOMAIN U : Unbarred(U, d)
  PROVE  TreePasses(U)
  <1> SUFFICES ASSUME NEW d \in DOMAIN U, U[d].state \in REACHED, d \notin S
               PROVE  Unbarred(U, d)
    BY DEF TreePasses
  <1>1. d \in DOMAIN T /\ T[d].state \in REACHED
    BY DEF Turns
  <1> QED
    BY <1>1, UnbarredStays DEF TreePasses, Reach

LEMMA FramePasses ==
  ASSUME NEW T, NEW U, Tree(T, Specs), Tree(U, Specs), Firm(T, U), NoneBack(T, U),
         NEW f \in FrameType, FrameOK(T, f), PassOK(T, f)
  PROVE  PassOK(U, f)
  <1> SUFFICES ASSUME f.op \in {"hook", "join", "complete", "children"}, f.task \in DOMAIN U
               PROVE  Unbarred(U, f.task) /\ (f.op = "children" => ~Dead(U, f.task))
    BY DEF PassOK
  <1>1. f.task \in Path
    BY DEF FrameType
  <1>2. f.task \in DOMAIN T /\ Attached(T, f.task)
    BY <1>1 DEF NoneBack, FrameOK, LiveIn
  <1>3. Unbarred(T, f.task)
    BY <1>2 DEF PassOK
  <1>4. ASSUME f.op = "children" PROVE ~Dead(U, f.task)
    <2>1. T[f.task].state \in FINISHED /\ ~Dead(T, f.task)
      BY <1>2, <1>4 DEF FrameOK, LiveIn, PassOK
    <2> QED
      BY <1>2, <2>1 DEF Firm
  <1> QED
    BY <1>2, <1>3, <1>4, UnbarredStays

LEMMA AllPassConcat ==
  ASSUME NEW T, NEW a \in Seq(FrameType), NEW b \in Seq(FrameType), AllPass(T, a), AllPass(T, b)
  PROVE  AllPass(T, a \o b)
  BY ConcatFrames DEF AllPass

LEMMA AllPassOne ==
  ASSUME NEW T, NEW f \in FrameType, PassOK(T, f)
  PROVE  <<f>> \in Seq(FrameType) /\ AllPass(T, <<f>>)
  BY DEF AllPass

LEMMA AllPassNone == <<>> \in Seq(FrameType) /\ \A T : AllPass(T, <<>>)
  BY DEF AllPass

LEMMA RestPasses ==
  ASSUME IInv, ReachInv, PassInv, calls # <<>>, NEW U, Tree(U, Specs),
         Firm(tasks, U), NoneBack(tasks, U)
  PROVE  Tail(calls) \in Seq(FrameType) /\ AllPass(U, Tail(calls)) /\ PassOK(U, Top)
  <1> DEFINE rest == Tail(calls)
  <1>1. /\ calls \in Seq(FrameType) /\ rest \in Seq(FrameType) /\ Len(rest) = Len(calls) - 1
        /\ Top = calls[1] /\ \A i \in 1..Len(rest) : rest[i] = calls[i + 1]
        /\ Len(calls) \in Nat \ {0} /\ Len(rest) \in Nat /\ Tree(tasks, Specs)
        /\ FramesOK(tasks, calls)
    BY InProgress, HeadTailProperties, LenProperties DEF Top
  <1>2. DOMAIN calls = 1..Len(calls) /\ DOMAIN rest = 1..Len(rest)
    BY <1>1, LenProperties
  <1> HIDE DEF rest
  <1>3. ASSUME NEW i \in DOMAIN calls PROVE PassOK(U, calls[i])
    <2>1. calls[i] \in FrameType /\ FrameOK(tasks, calls[i]) /\ PassOK(tasks, calls[i])
      BY <1>1 DEF FramesOK, PassInv, AllPass
    <2> QED
      BY <1>1, <2>1, FramePasses
  <1>4. ASSUME NEW i \in DOMAIN rest PROVE PassOK(U, rest[i])
    <2>1. i + 1 \in DOMAIN calls /\ rest[i] = calls[i + 1]
      BY <1>1, <1>2
    <2> QED
      BY <1>3, <2>1
  <1>5. PassOK(U, Top)
    <2>1. 1 \in DOMAIN calls
      BY <1>1, <1>2
    <2> QED
      BY <1>1, <1>3, <2>1
  <1> QED
    BY <1>1, <1>4, <1>5 DEF AllPass, rest

\* The top frame is replaced by others.
LEMMA PushPasses ==
  ASSUME IInv, IInv', ReachInv, PassInv, calls # <<>>, Top.op # "complete",
         NEW frames \in Seq(FrameType), calls' = frames \o Tail(calls), AllPass(tasks', frames),
         Firm(tasks, tasks'), NoneBack(tasks, tasks'),
         NEW S, Turns(tasks, tasks', S), \A d \in S \intersect DOMAIN tasks' : Unbarred(tasks', d)
  PROVE  PassInv'
  <1>1. Tree(tasks, Specs) /\ Tree(tasks', Specs) /\ Reach(tasks)
    BY InProgress, IInvSplitPrime
  <1>2. TreePasses(tasks')
    BY <1>1, TreePassesStays DEF PassInv
  <1>3. Tail(calls) \in Seq(FrameType) /\ AllPass(tasks', Tail(calls))
    BY <1>1, RestPasses
  <1>4. AllPass(tasks', calls')
    BY <1>3, AllPassConcat
  <1> QED
    BY <1>2, <1>4 DEF PassInv

LEMMA ReturnPasses ==
  ASSUME IInv, IInv', ReachInv, PassInv, calls # <<>>, Top.op # "complete", Return,
         Firm(tasks, tasks'), NoneBack(tasks, tasks'),
         NEW S, Turns(tasks, tasks', S), \A d \in S \intersect DOMAIN tasks' : Unbarred(tasks', d)
  PROVE  PassInv'
  <1>1. calls' = <<>> \o Tail(calls)
    BY InProgress DEF Return
  <1> QED
    BY <1>1, AllPassNone, PushPasses

LEMMA CallPasses ==
  ASSUME IInv, IInv', ReachInv, PassInv, calls # <<>>, Top.op # "complete",
         NEW frames \in Seq(FrameType), AllPass(tasks', frames),
         NEW S \in SUBSET Path, CallWith(frames, S),
         Firm(tasks, tasks'), NoneBack(tasks, tasks'), Turns(tasks, tasks', {})
  PROVE  PassInv'
  <1> DEFINE frame == [Top EXCEPT !.todo = S]
             again == IF S = {} THEN <<>> ELSE <<frame>>
             both  == frames \o again
  <1>1. Tree(tasks', Specs) /\ Top \in FrameType
    BY InProgress, IInvSplitPrime
  <1>2. frame \in FrameType /\ frame.op = Top.op /\ frame.task = Top.task
    BY <1>1 DEF FrameType
  <1>3. PassOK(tasks', frame)
    <2>1. PassOK(tasks', Top)
      BY <1>1, RestPasses
    <2> HIDE DEF frame
    <2> QED
      BY <1>2, <2>1 DEF PassOK
  <1>4. calls' = both \o Tail(calls)
    BY DEF CallWith
  <1> HIDE DEF frame
  <1>5. again \in Seq(FrameType) /\ AllPass(tasks', again)
    BY <1>2, <1>3, AllPassOne, AllPassNone
  <1> HIDE DEF again
  <1>6. both \in Seq(FrameType) /\ AllPass(tasks', both)
    BY <1>5, ConcatFrames, AllPassConcat
  <1> HIDE DEF both
  <1>7. \A d \in {} \intersect DOMAIN tasks' : Unbarred(tasks', d)
    OBVIOUS
  <1> QED
    BY <1>4, <1>6, <1>7, PushPasses
-----------------------------------------------------------------------------
(* What the steps turn a task into                                         *)

\* A join that has fired or has been cancelled does not fail.
JoinsSound(T, U) ==
    \A d \in DOMAIN T \intersect DOMAIN U :
        Kind(T[d].spec) = "Join" /\ U[d].state = "ERROR" => T[d].state \in {"ERROR", "READY"}

LEMMA FirmFrom ==
  ASSUME NEW T, NEW U, SameSpecs(T, U), Keeps(T, U), JoinsSound(T, U)
  PROVE  Firm(T, U)
  <1> SUFFICES ASSUME NEW d \in DOMAIN T \intersect DOMAIN U,
                      T[d].state \in FINISHED, ~Dead(T, d), Dead(U, d)
               PROVE  FALSE
    BY DEF Firm
  <1>1. U[d].spec = T[d].spec
    BY DEF SameSpecs
  <1>2. CASE Kind(T[d].spec) = "Join"
    <2>1. U[d].state = "ERROR"
      BY <1>1, <1>2 DEF Dead
    <2> QED
      BY <1>2, <2>1, StatesDiffer DEF JoinsSound, Dead
  <1>3. CASE Kind(T[d].spec) # "Join"
    <2>1. T[d].state = "COMPLETED"
      BY <1>3, StatesDiffer DEF Dead
    <2> QED
      BY <1>3, <2>1 DEF Keeps, Dead
  <1> QED
    BY <1>2, <1>3

\* The tasks of which a step can make something else than expected or cancelled tasks.
Outcome ==
    \/ Raise /\ Turns(tasks, tasks', Completing(calls))
    \/ Turns(tasks, tasks', {})
    \/ /\ Top.op \in {"hook", "join", "complete"}
       /\ Turns(tasks, tasks', {Top.task})
       /\ Top.task \in DOMAIN tasks' => tasks'[Top.task].state # "ERROR"

LEMMA RaiseTurns == ASSUME IInv, Raise PROVE Outcome
  BY IInvSplit, SetTurns DEF Raise, Outcome, Completing

LEMMA HookTurns ==
  ASSUME IInv, NEW kinds, Hook(kinds), SetReady(Top.task) \/ SetWaiting(Top.task)
  PROVE  Outcome
  <1>1. Tree(tasks, Specs) /\ Top.op = "hook" /\ Top.task \in DOMAIN tasks
    BY IInvSplit DEF Hook, Doing, Top
  <1>2. CASE UNCHANGED tasks
    BY <1>2, SameTurns DEF Outcome
  <1>3. ASSUME NEW state, state # "ERROR", tasks' = SetState(tasks, {Top.task}, state)
        PROVE  Outcome
    <2>1. Turns(tasks, tasks', {Top.task})
      BY <1>1, <1>3, SetTurns
    <2>2. tasks'[Top.task].state = state
      BY <1>1, <1>3, SetStateEffect
    <2> QED
      BY <1>1, <1>3, <2>1, <2>2 DEF Outcome
  <1> QED
    BY <1>2, <1>3 DEF SetReady, SetWaiting, Ready

LEMMA PredictTurns == ASSUME IInv, ReachInv, Predict PROVE Outcome
  <1>1. calls # <<>> /\ Top.op = "predict"
    BY DEF Predict, Doing, Top
  <1>2. Tree(tasks, Specs) /\ FrameOK(tasks, Top)
    BY <1>1, InProgress
  <1>3. \/ UNCHANGED tasks
        \/ Raise
        \/ \E t \in DOMAIN tasks : /\ In(tasks, t, Top.mask)
                                   /\ tasks' = PredictHook(tasks, t, PredictedTimes(tasks[t].spec))
    BY DEF Predict
  <1>4. ASSUME NEW t \in DOMAIN tasks, In(tasks, t, Top.mask)
        PROVE  Turns(tasks, PredictHook(tasks, t, PredictedTimes(tasks[t].spec)), {})
    <2>1. tasks[t].state \in EXPECTED
      BY <1>1, <1>2, <1>4 DEF FrameOK, In
    <2>2. PredictedTimes(tasks[t].spec) \in Nat
      BY <1>2, StateTyped, PredictedTimesTyped
    <2>3. PICK states : /\ Grown(tasks, PredictHook(tasks, t, PredictedTimes(tasks[t].spec)), t, states)
                        /\ Foresees(tasks, t, states)
      BY <1>2, <2>1, <2>2, PredictHookGrown
    <2>4. states \intersect REACHED = {}
      BY <2>3, StatesDiffer DEF Foresees, REACHED
    <2> QED
      BY <2>3, <2>4, GrownTurns
  <1> QED
    BY <1>3, <1>4, RaiseTurns, SameTurns DEF Outcome

LEMMA UpdateTurns ==
  ASSUME IInv, UpdateSimple \/ UpdateFails \/ UpdateExecute \/ UpdateGate \/ UpdateAcquire \/ UpdateJoin
  PROVE  Outcome
  <1>1. CASE UpdateSimple
    BY <1>1, HookTurns DEF UpdateSimple
  <1>2. CASE UpdateFails
    BY <1>2, RaiseTurns DEF UpdateFails
  <1>3. CASE UpdateExecute
    BY <1>3, HookTurns DEF UpdateExecute
  <1>4. CASE UpdateGate
    BY <1>4, HookTurns DEF UpdateGate
  <1>5. CASE UpdateAcquire
    BY <1>5, HookTurns DEF UpdateAcquire
  <1>6. CASE UpdateJoin
    <2>1. Hook({"Join"}) /\ (UNCHANGED tasks \/ Raise \/ SetWaiting(Top.task))
      BY <1>6 DEF UpdateJoin
    <2>2. CASE UNCHANGED tasks
      BY <2>2, SameTurns DEF Outcome
    <2> QED
      BY <2>1, <2>2, RaiseTurns, HookTurns
  <1> QED
    BY <1>1, <1>2, <1>3, <1>4, <1>5, <1>6

LEMMA CancelNextTurns == ASSUME IInv, CancelNext PROVE Outcome
  <1>1. UNCHANGED tasks \/ \E t \in DOMAIN tasks : tasks' = CancelBranch(tasks, t)
    BY DEF CancelNext
  <1>2. Turns(tasks, tasks', {})
    BY <1>1, IInvSplit, CancelBranchShrunk, ShrunkTurns, SameTurns
  <1> QED
    BY <1>2 DEF Outcome

LEMMA JoinFiresTurns == ASSUME IInv, JoinFires PROVE Outcome
  <1> DEFINE j     == Top.task
             found == OtherInstances(tasks, j)
             V     == DropChildren(tasks, found)
             W     == SetState(V, found \intersect DOMAIN V, "CANCELLED")
  <1>1. Tree(tasks, Specs) /\ Top.op = "join" /\ tasks' = Ready(W, j)
    BY IInvSplit DEF JoinFires, DoJoin, Doing, Top
  <1>2. found \in SUBSET Path
    BY <1>1 DEF OtherInstances, Instances, OfSpec, Tree, IsTree
  <1> HIDE DEF found, j
  <1>3. Tree(V, Specs) /\ Turns(tasks, V, {})
    BY <1>1, <1>2, DropChildrenTree, DropChildrenShrunk, ShrunkTurns
  <1> HIDE DEF V
  <1>4. Tree(W, Specs) /\ Turns(V, W, {})
    <2>1. Shrunk(V, W)
      BY <1>3, SetStateEffect DEF Shrunk
    <2> QED
      BY <1>3, <2>1, ShrunkTurns, SetStateTree, StatesDiffer
  <1> HIDE DEF W
  <1>5. Turns(tasks, W, {})
    BY <1>3, <1>4, TurnsTwice
  <1>6. CASE tasks' = W
    BY <1>5, <1>6 DEF Outcome
  <1>7. CASE tasks' # W
    <2>1. tasks' = SetState(W, {j}, "READY")
      BY <1>1, <1>7 DEF Ready
    <2>2. Turns(W, tasks', {j})
      BY <1>4, <2>1, SetTurns
    <2>3. Turns(tasks, tasks', {j})
      BY <1>5, <2>2, TurnsTwice
    <2>4. j \in DOMAIN tasks' => tasks'[j].state = "READY"
      BY <1>4, <2>1, SetStateEffect
    <2> QED
      BY <1>1, <2>3, <2>4 DEF Outcome, j
  <1> QED
    BY <1>6, <1>7

LEMMA StepTurns == ASSUME IInv, ReachInv, Step PROVE Outcome
  <1>1. CASE CompleteTask
    <2>1. Tree(tasks, Specs) /\ Top.op = "complete" /\ tasks' = SetState(tasks, {Top.task}, "COMPLETED")
      BY <1>1, IInvSplit DEF CompleteTask, Doing, Top
    <2>2. Turns(tasks, tasks', {Top.task})
      BY <2>1, SetTurns
    <2>3. Top.task \in DOMAIN tasks' => tasks'[Top.task].state = "COMPLETED"
      BY <2>1, SetStateEffect
    <2> QED
      BY <2>1, <2>2, <2>3 DEF Outcome
  <1>2. CASE UNCHANGED tasks
    BY <1>2, SameTurns DEF Outcome
  <1>3. ChildrenNext \/ VisitNext \/ Finish => UNCHANGED tasks
    BY DEF ChildrenNext, VisitNext, Finish
  <1> QED
    BY <1>1, <1>2, <1>3, PredictTurns, UpdateTurns, CancelNextTurns, JoinFiresTurns DEF Step

LEMMA OutcomeSound == ASSUME IInv, ReachInv, JoinsComplete, Outcome PROVE JoinsSound(tasks, tasks')
  <1> SUFFICES ASSUME NEW d \in DOMAIN tasks \intersect DOMAIN tasks',
                      Kind(tasks[d].spec) = "Join", tasks'[d].state = "ERROR"
               PROVE  tasks[d].state \in {"ERROR", "READY"}
    BY DEF JoinsSound
  <1>1. tasks'[d].state \in REACHED
    BY DEF REACHED
  <1>2. d \in Completing(calls) => tasks[d].state = "READY"
    BY DEF JoinsComplete
  <1> QED
    BY <1>1, <1>2 DEF Outcome, Turns

LEMMA StepFirm ==
  ASSUME IInv, IInv', ReachInv, FiringInv, JoinsComplete, Step
  PROVE  Firm(tasks, tasks') /\ NoneBack(tasks, tasks')
  <1>1. resets' = resets
    BY DEF Step, Predict, UpdateSimple, UpdateFails, UpdateExecute, UpdateGate, UpdateAcquire,
           UpdateJoin, CancelNext, JoinFires, CompleteTask, ChildrenNext, VisitNext, Finish, counters
  <1>2. Keeps(tasks, tasks') /\ SameSpecs(tasks, tasks')
    BY <1>1, NextKeeps, NextByNet DEF OrderlyNext, StepByNet, ByNet
  <1>3. Firm(tasks, tasks')
    BY <1>2, StepTurns, OutcomeSound, FirmFrom
  <1>4. NoneBack(tasks, tasks')
    <2>1. CASE Gently
      BY <2>1 DEF Gently, Gentle, NoneBack
    <2>2. ASSUME DOMAIN tasks' \subseteq DOMAIN tasks PROVE NoneBack(tasks, tasks')
      BY <2>2 DEF NoneBack
    <2>3. CASE JoinFires
      <3>1. PICK V : Same(tasks, V) /\ tasks' = Ready(V, Top.task)
        BY <2>3, JoinFiresParts
      <3>2. DOMAIN tasks' = DOMAIN V
        BY <3>1 DEF Ready, SetState
      <3> QED
        BY <2>2, <3>1, <3>2 DEF Same
    <2>4. CASE CompleteTask
      <3>1. DOMAIN tasks' = DOMAIN tasks
        BY <2>4 DEF CompleteTask, SetState
      <3> QED
        BY <2>2, <3>1
    <2> QED
      BY <2>1, <2>3, <2>4, StepGently
  <1> QED
    BY <1>3, <1>4
-----------------------------------------------------------------------------
(* The steps                                                               *)

LEMMA IdlePasses ==
  ASSUME NEW f, f.op \notin {"hook", "join", "complete", "children"}
  PROVE  \A T : PassOK(T, f)
  BY DEF PassOK

\* What turns only now into something reached is not barred.
LEMMA OutcomeUnbarred ==
  ASSUME IInv, IInv', ReachInv, PassInv, calls # <<>>,
         Firm(tasks, tasks'), NoneBack(tasks, tasks'), Outcome
  PROVE  \E S : /\ Turns(tasks, tasks', S)
                /\ \A d \in S \intersect DOMAIN tasks' : Unbarred(tasks', d)
  <1>1. Tree(tasks, Specs) /\ Tree(tasks', Specs)
    BY IInvSplit, IInvSplitPrime
  <1>2. CASE Turns(tasks, tasks', {})
    BY <1>2
  <1>3. CASE Turns(tasks, tasks', Completing(calls))
    <2>1. ASSUME NEW d \in Completing(calls) \intersect DOMAIN tasks' PROVE Unbarred(tasks', d)
      <3>1. PICK i \in DOMAIN calls : calls[i].op = "complete" /\ d = calls[i].task
        BY <2>1 DEF Completing
      <3>2. calls[i] \in FrameType /\ FrameOK(tasks, calls[i]) /\ PassOK(tasks, calls[i])
        BY InProgress DEF FramesOK, PassInv, AllPass
      <3>3. PassOK(tasks', calls[i])
        BY <1>1, <3>2, FramePasses
      <3> QED
        BY <2>1, <3>1, <3>3 DEF PassOK
    <2> QED
      BY <1>3, <2>1
  <1>4. CASE Top.op \in {"hook", "join", "complete"} /\ Turns(tasks, tasks', {Top.task})
    <2>1. PassOK(tasks', Top)
      BY <1>1, RestPasses
    <2>2. \A d \in {Top.task} \intersect DOMAIN tasks' : Unbarred(tasks', d)
      BY <1>4, <2>1 DEF PassOK
    <2> QED
      BY <1>4, <2>2
  <1> QED
    BY <1>2, <1>3, <1>4 DEF Outcome

LEMMA RaisePasses ==
  ASSUME IInv, IInv', ReachInv, PassInv, calls # <<>>, Top.op # "complete", Raise,
         Firm(tasks, tasks'), NoneBack(tasks, tasks'), Outcome
  PROVE  PassInv'
  <1>1. PICK S : /\ Turns(tasks, tasks', S)
                 /\ \A d \in S \intersect DOMAIN tasks' : Unbarred(tasks', d)
    BY OutcomeUnbarred
  <1>2. Tree(tasks, Specs) /\ Tree(tasks', Specs) /\ Reach(tasks) /\ calls' = <<>>
    BY InProgress, IInvSplitPrime DEF Raise
  <1>3. TreePasses(tasks')
    BY <1>1, <1>2, TreePassesStays DEF PassInv
  <1> QED
    BY <1>2, <1>3, AllPassNone DEF PassInv

LEMMA ReturnsPass ==
  ASSUME IInv, IInv', ReachInv, PassInv, calls # <<>>, Top.op # "complete", Return,
         Firm(tasks, tasks'), NoneBack(tasks, tasks'), Outcome
  PROVE  PassInv'
  BY OutcomeUnbarred, ReturnPasses

LEMMA PredictPasses ==
  ASSUME IInv, IInv', ReachInv, PassInv, Firm(tasks, tasks'), NoneBack(tasks, tasks'),
         Predict, Outcome
  PROVE  PassInv'
  <1>1. calls # <<>> /\ Top.op = "predict"
    BY DEF Predict, Doing, Top
  <1>2. /\ Tree(tasks', Specs) /\ Top \in FrameType /\ Top.task \in Path
        /\ Top.todo \in SUBSET Path /\ Top.looked \in Nat /\ Top.mask \in SUBSET ANY
    BY <1>1, InProgress, StackTyped, IInvSplitPrime
  <1>3. CASE Return
    BY <1>1, <1>3, ReturnsPass
  <1>4. CASE Raise
    BY <1>1, <1>4, RaisePasses
  <1>5. CASE ~Return /\ ~Raise
    <2> DEFINE next(t) == PredictNext(tasks', t, Top.looked, Top.mask)
    <2>1. PICK t \in Top.todo :
            CallWith(IF next(t) = {} THEN <<>>
                     ELSE <<PredictFrame(t, next(t), Top.looked + 1, Top.mask)>>,
                     Top.todo \ {t})
      <3>1. \E t \in Top.todo : \E T :
              /\ tasks' = T
              /\ CallWith(IF PredictNext(T, t, Top.looked, Top.mask) = {} THEN <<>>
                          ELSE <<PredictFrame(t, PredictNext(T, t, Top.looked, Top.mask),
                                              Top.looked + 1, Top.mask)>>,
                          Top.todo \ {t})
        BY <1>5 DEF Predict
      <3> QED
        BY <3>1
    <2>2. t \in Path /\ next(t) \in SUBSET Path
      BY <1>2, PredictNextTyped
    <2> HIDE DEF next
    <2> DEFINE f      == PredictFrame(t, next(t), Top.looked + 1, Top.mask)
               frames == IF next(t) = {} THEN <<>> ELSE <<f>>
               S      == Top.todo \ {t}
    <2>3. f \in FrameType /\ f.op = "predict"
      BY <1>2, <2>2, PredictFrameTyped DEF PredictFrame
    <2>4. CallWith(frames, S) /\ S \in SUBSET Path
      BY <1>2, <2>1
    <2> HIDE DEF f, S
    <2>5. frames \in Seq(FrameType) /\ AllPass(tasks', frames)
      BY <2>3, IdlePasses, AllPassOne, AllPassNone
    <2> HIDE DEF frames
    <2>6. Turns(tasks, tasks', {})
      BY <1>1, <1>5 DEF Outcome
    <2> QED
      BY <1>1, <2>4, <2>5, <2>6, CallPasses
  <1> QED
    BY <1>3, <1>4, <1>5

LEMMA UpdatePasses ==
  ASSUME IInv, IInv', ReachInv, PassInv, Firm(tasks, tasks'), NoneBack(tasks, tasks'),
         UpdateSimple \/ UpdateFails \/ UpdateExecute \/ UpdateGate \/ UpdateAcquire, Outcome
  PROVE  PassInv'
  <1>1. calls # <<>> /\ Top.op = "hook" /\ (Return \/ Raise)
    BY DEF UpdateSimple, UpdateFails, UpdateExecute, UpdateGate, UpdateAcquire, Hook, Doing, Top,
           SetReady, SetWaiting
  <1> QED
    BY <1>1, ReturnsPass, RaisePasses

LEMMA UpdateJoinPasses ==
  ASSUME IInv, IInv', ReachInv, PassInv, Firm(tasks, tasks'), NoneBack(tasks, tasks'),
         UpdateJoin, Outcome
  PROVE  PassInv'
  <1> DEFINE j       == Top.task
             s       == tasks[j].spec
             waiting == WaitingTasks(tasks, j)
             first   == IF Net[s].cancel
                        THEN [i \in DOMAIN waiting |-> Frame("cancel", j, waiting[i])]
                        ELSE <<>>
             joining == Frame("join", j, {})
             fire    == <<joining>>
             both    == first \o fire
  <1>1. /\ calls # <<>> /\ Top.op = "hook" /\ j \in DOMAIN tasks /\ Tree(tasks, Specs) /\ j \in Path
        /\ Tree(tasks', Specs)
    BY InProgress, StateTyped, IInvSplitPrime DEF UpdateJoin, Hook, Doing, Top
  <1>2. Return \/ Raise \/ (UNCHANGED tasks /\ (ReturnTo(fire) \/ ReturnTo(both)))
    BY DEF UpdateJoin, SetWaiting
  <1>3. joining \in FrameType /\ joining.op = "join" /\ joining.task = j
    BY <1>1, FrameTyped DEF Ops, Frame
  <1>4. first \in Seq(FrameType) /\ \A i \in DOMAIN first : first[i].op = "cancel"
    BY <1>1, WaitingFrames, NoFrame
  <1> HIDE DEF first, joining
  <1>5. PassOK(tasks', joining)
    <2>1. PassOK(tasks', Top)
      BY <1>1, RestPasses
    <2> QED
      BY <1>1, <1>3, <2>1 DEF PassOK
  <1>6. AllPass(tasks', first)
    BY <1>4, IdlePasses DEF AllPass
  <1>7. fire \in Seq(FrameType) /\ AllPass(tasks', fire)
    BY <1>3, <1>5, AllPassOne
  <1> HIDE DEF fire
  <1>8. both \in Seq(FrameType) /\ AllPass(tasks', both)
    BY <1>4, <1>6, <1>7, ConcatFrames, AllPassConcat
  <1> HIDE DEF both
  <1>9. ASSUME UNCHANGED tasks, NEW frames \in Seq(FrameType), AllPass(tasks', frames),
               ReturnTo(frames)
        PROVE  PassInv'
    <2>1. Turns(tasks, tasks', {})
      BY <1>9, SameTurns
    <2>2. \A d \in {} \intersect DOMAIN tasks' : Unbarred(tasks', d)
      OBVIOUS
    <2> QED
      BY <1>1, <1>9, <2>1, <2>2, PushPasses DEF ReturnTo
  <1> QED
    BY <1>1, <1>2, <1>7, <1>8, <1>9, ReturnsPass, RaisePasses

LEMMA CancelNextPasses ==
  ASSUME IInv, IInv', ReachInv, PassInv, Firm(tasks, tasks'), NoneBack(tasks, tasks'),
         CancelNext, Outcome
  PROVE  PassInv'
  <1>1. calls # <<>> /\ Top.op = "cancel"
    BY DEF CancelNext, Doing, Top
  <1>2. Top.todo \in SUBSET Path
    BY <1>1, InProgress, StackTyped
  <1>3. CASE Return
    BY <1>1, <1>3, ReturnsPass
  <1>4. CASE ~Return
    <2> DEFINE none == <<>>
    <2>1. PICK t \in Top.todo : CallWith(none, Top.todo \ {t})
      BY <1>4 DEF CancelNext
    <2>2. none \in Seq(FrameType) /\ AllPass(tasks', none) /\ Top.todo \ {t} \in SUBSET Path
      BY <1>2, AllPassNone
    <2> HIDE DEF none
    <2>3. CASE Turns(tasks, tasks', {})
      BY <1>1, <2>1, <2>2, <2>3, CallPasses
    <2>4. CASE Raise
      BY <1>1, <2>4, RaisePasses
    <2> QED
      BY <1>1, <2>3, <2>4 DEF Outcome
  <1> QED
    BY <1>3, <1>4

LEMMA UpdateFramesPass ==
  ASSUME NEW t \in Path, Unbarred(tasks, t)
  PROVE  UpdateFrames(t) \in Seq(FrameType) /\ AllPass(tasks, UpdateFrames(t))
  <1> DEFINE f == PredictFrame(t, {t}, 0, PREDICTED)
             g == Frame("hook", t, {})
             a == IF In(tasks, t, PREDICTED) THEN <<f>> ELSE <<>>
             b == <<g>>
             d == a \o b
  <1>1. f \in FrameType /\ g \in FrameType /\ f.op = "predict" /\ g.op = "hook" /\ g.task = t
    BY PredictFrameTyped, FrameTyped, MasksTyped DEF PredictFrame, Frame, Ops
  <1>2. UpdateFrames(t) = d
    BY DEF UpdateFrames
  <1> HIDE DEF f, g
  <1>3. PassOK(tasks, f) /\ PassOK(tasks, g)
    BY <1>1 DEF PassOK
  <1>4. a \in Seq(FrameType) /\ AllPass(tasks, a)
    BY <1>1, <1>3, AllPassOne, AllPassNone
  <1>5. b \in Seq(FrameType) /\ AllPass(tasks, b)
    BY <1>1, <1>3, AllPassOne
  <1> HIDE DEF a, b
  <1>6. d \in Seq(FrameType) /\ AllPass(tasks, d)
    BY <1>4, <1>5, ConcatFrames, AllPassConcat
  <1> QED
    BY <1>2, <1>6

\* What a loop goes on with when it has updated one task.
LEMMA LoopPasses ==
  ASSUME IInv, IInv', ReachInv, PassInv, calls # <<>>, Top.op # "complete", UNCHANGED tasks,
         Firm(tasks, tasks'), NoneBack(tasks, tasks'), NEW c \in Path, NEW S \in SUBSET Path,
         \/ CallWith(<<>>, S)
         \/ CallWith(UpdateFrames(c), S) /\ Unbarred(tasks, c)
  PROVE  PassInv'
  <1> DEFINE none == <<>>
  <1>1. PICK frames \in Seq(FrameType) : CallWith(frames, S) /\ AllPass(tasks, frames)
    <2>1. CASE CallWith(none, S)
      BY <2>1, AllPassNone
    <2>2. CASE ~CallWith(none, S)
      BY <2>2, UpdateFramesPass
    <2> QED
      BY <2>1, <2>2
  <1>2. AllPass(tasks', frames) /\ Turns(tasks, tasks', {})
    BY <1>1, SameTurns
  <1> QED
    BY <1>1, <1>2, CallPasses

LEMMA ChildrenNextPasses ==
  ASSUME IInv, IInv', ReachInv, PassInv, Firm(tasks, tasks'), NoneBack(tasks, tasks'),
         ChildrenNext, Outcome
  PROVE  PassInv'
  <1>1. calls # <<>> /\ Top.op = "children" /\ UNCHANGED tasks
    BY DEF ChildrenNext, Doing, Top
  <1>2. Top.todo \in SUBSET Path /\ Tree(tasks, Specs) /\ FrameOK(tasks, Top)
    BY <1>1, InProgress, StackTyped
  <1>3. CASE Top.todo = {}
    BY <1>1, <1>3, ReturnsPass DEF ChildrenNext
  <1>4. CASE Top.todo # {}
    <2>1. PICK c \in Top.todo :
            /\ c \in DOMAIN tasks
            /\ CallWith(IF In(tasks, c, FINISHED) THEN <<>> ELSE UpdateFrames(c), Top.todo \ {c})
      BY <1>4 DEF ChildrenNext
    <2>2. CallWith(<<>>, Top.todo \ {c}) \/ CallWith(UpdateFrames(c), Top.todo \ {c})
      BY <2>1
    <2>3. Top.todo \ {c} \in SUBSET Path /\ c \in Path
      BY <1>2
    <2>4. c # Root /\ Parent(c) = Top.task
      BY <1>1, <1>2 DEF FrameOK
    <2>5. Top.task \in DOMAIN tasks /\ Top.task \in Path
      BY <1>2, <2>1, <2>4, ParentLive
    <2>6. Unbarred(tasks, Top.task) /\ ~Dead(tasks, Top.task)
      <3>1. PassOK(tasks, Top)
        BY <1>1, <1>2, RestPasses
      <3> QED
        BY <1>1, <2>5, <3>1 DEF PassOK
    <2>7. ASSUME NEW a \in DOMAIN tasks, Above(a, c) PROVE ~Dead(tasks, a)
      <3>1. a = Parent(c) \/ Above(a, Parent(c))
        BY <1>2, <2>3, <2>4, <2>7, StateTyped, AncestorOrParent
      <3> QED
        BY <2>4, <2>6, <3>1 DEF Unbarred
    <2>8. Unbarred(tasks, c)
      BY <2>7 DEF Unbarred
    <2> QED
      BY <1>1, <2>2, <2>3, <2>8, LoopPasses
  <1> QED
    BY <1>3, <1>4

LEMMA VisitNextPasses ==
  ASSUME IInv, IInv', ReachInv, PassInv, Firm(tasks, tasks'), NoneBack(tasks, tasks'),
         VisitNext, Outcome
  PROVE  PassInv'
  <1>1. calls # <<>> /\ Top.op = "visit" /\ UNCHANGED tasks
    BY DEF VisitNext, Doing, Top
  <1>2. Top.todo \in SUBSET Path /\ Tree(tasks, Specs)
    BY <1>1, InProgress, StackTyped
  <1>3. CASE Top.todo = {}
    BY <1>1, <1>3, ReturnsPass DEF VisitNext
  <1>4. CASE Top.todo # {}
    <2>1. PICK t \in Top.todo :
            IF t \in DOMAIN tasks
            THEN CallWith(IF In(tasks, t, {"WAITING"}) THEN UpdateFrames(t) ELSE <<>>,
                          (Top.todo \ {t})
                              \union (IF In(tasks, t, PREDICTED) THEN {}
                                      ELSE Children(tasks, t)))
            ELSE CallWith(<<>>, Top.todo \ {t})
      BY <1>4 DEF VisitNext
    <2>2. t \in Path /\ Top.todo \ {t} \in SUBSET Path /\ Children(tasks, t) \in SUBSET Path
      BY <1>2, ChildrenTyped
    <2>3. PICK S \in SUBSET Path :
            \/ CallWith(<<>>, S)
            \/ CallWith(UpdateFrames(t), S) /\ t \in DOMAIN tasks /\ In(tasks, t, {"WAITING"})
      BY <2>1, <2>2
    <2>4. t \in DOMAIN tasks /\ In(tasks, t, {"WAITING"}) => Unbarred(tasks, t)
      BY DEF In, PassInv, TreePasses, REACHED
    <2> QED
      BY <1>1, <2>2, <2>3, <2>4, LoopPasses
  <1> QED
    BY <1>3, <1>4

\* What is completed bars nothing that was not barred before.
LEMMA CompleteTaskPasses ==
  ASSUME IInv, IInv', ReachInv, PassInv, CompleteTask
  PROVE  PassInv'
  <1> DEFINE t == Top.task
             f == Frame("children", t, Children(tasks, t))
             g == Frame("visit", t, {Root})
             h == Frame("finish", t, {})
             frames == <<f, g, h>>
  <1>1. /\ calls # <<>> /\ Top.op = "complete" /\ calls' = frames \o Tail(calls)
        /\ tasks' = SetState(tasks, {t}, "COMPLETED") /\ Tree(tasks, Specs)
    BY IInvSplit DEF CompleteTask, Doing, Top, ReturnTo
  <1>2. Tail(calls) = <<>>
    BY BottomAlone DEF CompleteTask
  <1>3. /\ f.op = "children" /\ f.task = t /\ g.op = "visit" /\ h.op = "finish"
    BY DEF Frame
  <1> HIDE DEF f, g, h
  <1>4. /\ frames \in Seq({f, g, h}) /\ DOMAIN frames = 1..3
        /\ frames[1] = f /\ frames[2] = g /\ frames[3] = h
    OBVIOUS
  <1> HIDE DEF frames
  <1>5. calls' = frames
    BY <1>1, <1>2, <1>4, ConcatEmptySeq
  <1>6. /\ DOMAIN tasks' = DOMAIN tasks
        /\ \A d \in DOMAIN tasks : /\ tasks'[d].spec = tasks[d].spec
                                   /\ tasks'[d].state = IF d = t THEN "COMPLETED" ELSE tasks[d].state
    BY <1>1, SetStateEffect
  <1>7. \A a \in DOMAIN tasks : Dead(tasks', a) => Dead(tasks, a) /\ a # t
    BY <1>6 DEF Dead
  <1>8. \A d \in DOMAIN tasks : Unbarred(tasks, d) => Unbarred(tasks', d)
    BY <1>6, <1>7 DEF Unbarred
  <1>9. t \in DOMAIN tasks => Unbarred(tasks, t)
    <2>1. PassOK(tasks, calls[1]) /\ Top = calls[1]
      BY <1>1, IInvSplit DEF PassInv, AllPass, Top
    <2> QED
      BY <1>1, <2>1 DEF PassOK
  <1>10. TreePasses(tasks')
    BY <1>6, <1>8, <1>9 DEF PassInv, TreePasses
  <1>11. PassOK(tasks', f)
    BY <1>3, <1>6, <1>7, <1>8, <1>9 DEF PassOK
  <1>12. PassOK(tasks', g) /\ PassOK(tasks', h)
    BY <1>3, IdlePasses
  <1> QED
    BY <1>4, <1>10, <1>11, <1>12, <1>5 DEF PassInv, AllPass

LEMMA StepPasses ==
  ASSUME IInv, IInv', ReachInv, FiringInv, JoinsComplete, PassInv, Step
  PROVE  PassInv'
  <1>1. Firm(tasks, tasks') /\ NoneBack(tasks, tasks') /\ Outcome
    BY StepFirm, StepTurns
  <1>2. CASE JoinFires
    BY <1>1, <1>2, ReturnsPass DEF JoinFires, Doing, Top
  <1>3. CASE Finish
    BY <1>1, <1>3, ReturnsPass DEF Finish, Doing, Top
  <1> QED
    BY <1>1, <1>2, <1>3, PredictPasses, UpdatePasses, UpdateJoinPasses, CancelNextPasses,
       CompleteTaskPasses, ChildrenNextPasses, VisitNextPasses DEF Step
-----------------------------------------------------------------------------
(* Running a task, and the other methods                                   *)

\* What a run does to the tree, and what it leaves to do.
Ran(t, S) ==
    /\ Turns(tasks, tasks', S)
    /\ \A d \in S \intersect DOMAIN tasks' :
          \/ d = t
          \/ /\ d # Root /\ Parent(d) = t /\ tasks'[d].state = "READY"
             /\ t \in DOMAIN tasks' /\ tasks'[t].state = "READY"
    /\ \/ calls' = <<>>
       \/ \E frames \in Seq(FrameType) :
             /\ RunWith(t, frames)
             /\ \A i \in DOMAIN frames : frames[i].op \in {"predict", "cancel"}

LEMMA RunPasses ==
  ASSUME IInv, IInv', ReachInv, PassInv, NEW t, NEW kinds, Running(t, kinds),
         Firm(tasks, tasks'), NoneBack(tasks, tasks'), NEW S, Ran(t, S)
  PROVE  PassInv'
  <1>1. /\ Tree(tasks, Specs) /\ Tree(tasks', Specs) /\ Reach(tasks)
        /\ t \in DOMAIN tasks /\ t \in Path /\ tasks[t].state = "READY" /\ Attached(tasks, t)
    BY RunnableReach, IInvSplitPrime
  <1>2. Unbarred(tasks, t)
    BY <1>1 DEF PassInv, TreePasses, REACHED
  <1>3. Unbarred(tasks', t)
    BY <1>1, <1>2, UnbarredStays
  <1>4. ASSUME NEW d \in S \intersect DOMAIN tasks' PROVE Unbarred(tasks', d)
    <2>1. CASE d = t
      BY <1>3, <2>1
    <2>2. CASE d # t
      <3>1. t \in DOMAIN tasks' /\ tasks'[t].state = "READY" /\ d # Root /\ Parent(d) = t
        BY <1>4, <2>2 DEF Ran
      <3>2. ASSUME NEW a \in DOMAIN tasks', Above(a, d) PROVE a = t \/ Above(a, t)
        BY <1>1, <1>4, <3>1, <3>2, StateTyped, AncestorOrParent
      <3> QED
        BY <1>3, <3>1, <3>2, StatesDiffer DEF Unbarred, Dead
    <2> QED
      BY <2>1, <2>2
  <1>5. TreePasses(tasks')
    BY <1>1, <1>4, TreePassesStays DEF PassInv, Ran
  <1>6. CASE calls' = <<>>
    BY <1>5, <1>6, AllPassNone DEF PassInv
  <1>7. ASSUME NEW frames \in Seq(FrameType), RunWith(t, frames),
               \A i \in DOMAIN frames : frames[i].op \in {"predict", "cancel"}
        PROVE  PassInv'
    <2> DEFINE f    == Frame("complete", t, {})
               done == <<f>>
    <2>1. f \in FrameType /\ f.op = "complete" /\ f.task = t
      BY <1>1, FrameTyped DEF Ops, Frame
    <2>2. calls' = frames \o done
      BY <1>7 DEF RunWith
    <2> HIDE DEF f
    <2>3. done \in Seq(FrameType) /\ AllPass(tasks', done)
      <3>1. PassOK(tasks', f)
        BY <1>3, <2>1 DEF PassOK
      <3> QED
        BY <2>1, <3>1, AllPassOne
    <2> HIDE DEF done
    <2>4. AllPass(tasks', frames)
      BY <1>7, IdlePasses DEF AllPass
    <2>5. AllPass(tasks', calls')
      BY <2>2, <2>3, <2>4, AllPassConcat
    <2> QED
      BY <1>5, <2>5 DEF PassInv
  <1> QED
    BY <1>6, <1>7 DEF Ran

\* A run that leaves the tree as it is, cancels, raises or adds what it expects.
LEMMA QuietRan ==
  ASSUME NEW t, Turns(tasks, tasks', {}),
         NEW frames \in Seq(FrameType), RunWith(t, frames),
         \A i \in DOMAIN frames : frames[i].op \in {"predict", "cancel"}
  PROVE  \E S : Ran(t, S)
  <1>1. Ran(t, {})
    BY DEF Ran
  <1> QED
    BY <1>1

LEMMA RaiseRan ==
  ASSUME IInv, ReachInv, NEW t, NEW kinds, Running(t, kinds), RunRaises(t)
  PROVE  \E S : Ran(t, S)
  <1>1. Tree(tasks, Specs) /\ calls' = <<>> /\ tasks' = SetState(tasks, {t}, "ERROR")
    BY RunnableReach DEF RunRaises
  <1>2. Ran(t, {t})
    BY <1>1, SetTurns DEF Ran
  <1> QED
    BY <1>2

LEMMA SyncRan ==
  ASSUME IInv, IInv', ReachInv, NEW t, NEW kinds, Running(t, kinds),
         NEW outs, NEW n, Gapped(outs, n), NEW looked \in {0, 1},
         \/ RunSplit(t, outs, n, looked)
         \/ RunRaises(t)
         \/ tasks' = SyncChildren(tasks, t, outs, n, "FUTURE") /\ RunWith(t, <<>>)
  PROVE  \E S : Ran(t, S)
  <1> DEFINE mask   == PREDICTED \union {"FUTURE"}
             S      == InState(tasks', mask) \intersect Children(tasks', t)
             f      == PredictFrame(t, S, looked, mask)
             frames == <<f>>
             none   == <<>>
             U      == SyncChildren(tasks, t, outs, n, "FUTURE")
  <1>1. Tree(tasks, Specs) /\ Tree(tasks', Specs) /\ t \in DOMAIN tasks /\ t \in Path
    BY RunnableReach, IInvSplitPrime
  <1>2. S \in SUBSET Path /\ mask \in SUBSET ANY /\ looked \in Nat
    BY <1>1, ChildrenTyped, MasksTyped
  <1>3. Turns(tasks, U, {})
    <2>1. "FUTURE" \in ANY /\ {"FUTURE"} \intersect REACHED = {}
      BY StatesDiffer DEF REACHED
    <2>2. Grown(tasks, U, t, {"FUTURE"})
      BY <1>1, <2>1, SyncChildrenTree DEF Gapped
    <2> HIDE DEF U
    <2> QED
      BY <2>1, <2>2, GrownTurns
  <1>4. RunRaises(t) \/ (tasks' = U /\ (RunWith(t, frames) \/ RunWith(t, none)))
    BY DEF RunSplit
  <1> HIDE DEF S, mask, U
  <1>5. f \in FrameType /\ f.op = "predict"
    BY <1>1, <1>2, PredictFrameTyped DEF PredictFrame
  <1> HIDE DEF f
  <1>6. /\ frames \in Seq(FrameType) /\ \A i \in DOMAIN frames : frames[i].op = "predict"
        /\ none \in Seq(FrameType) /\ DOMAIN none = {}
    BY <1>5
  <1> HIDE DEF frames, none
  <1>7. CASE tasks' = U /\ RunWith(t, frames)
    BY <1>3, <1>6, <1>7, QuietRan
  <1>8. CASE tasks' = U /\ RunWith(t, none)
    BY <1>3, <1>6, <1>8, QuietRan
  <1> QED
    BY <1>4, <1>7, <1>8, RaiseRan

LEMMA SplitsRan ==
  ASSUME IInv, IInv', ReachInv, NEW t,
         RunMultiChoice(t) \/ RunExclusiveChoice(t) \/ RunMultiInstance(t) \/ RunThreadSplit(t)
  PROVE  \E S : Ran(t, S)
  <1> DEFINE s == tasks[t].spec
  <1>1. PICK kinds : Running(t, kinds)
    BY DEF RunMultiChoice, RunExclusiveChoice, RunMultiInstance, RunThreadSplit
  <1>2. s \in Specs
    BY <1>1, RunnableReach
  <1>3. CASE RunMultiChoice(t)
    <2>1. PICK matching \in SUBSET Net[s].cond :
             RunSplit(t, Pick(Outputs(s), (Specs \ Net[s].cond) \union matching),
                      Len(Outputs(s)), 0)
      BY <1>3 DEF RunMultiChoice
    <2>2. Gapped(Pick(Outputs(s), (Specs \ Net[s].cond) \union matching), Len(Outputs(s)))
      BY <1>2, PickGapped
    <2> HIDE DEF s
    <2> QED
      BY <1>1, <2>1, <2>2, SyncRan
  <1>4. CASE RunExclusiveChoice(t)
    <2>1. Kind(s) = "ExclusiveChoice"
      BY <1>4 DEF RunExclusiveChoice, Running
    <2>2. PICK output \in Net[s].cond \union {Net[s].default} : RunSplit(t, <<output>>, 1, 0)
      BY <1>4 DEF RunExclusiveChoice
    <2>3. Gapped(<<output>>, 1)
      BY <1>2, <2>1, NetTyped DEF Gapped
    <2> HIDE DEF s
    <2> QED
      BY <1>1, <2>2, <2>3, SyncRan
  <1>5. CASE RunMultiInstance(t) \/ RunThreadSplit(t)
    <2>1. PICK n \in Net[s].times :
             \/ RunSplit(t, PredictedOutputs(s, n), OutputCount(s, n), 1)
             \/ RunRaises(t)
             \/ /\ tasks' = SyncChildren(tasks, t, PredictedOutputs(s, n), OutputCount(s, n), "FUTURE")
                /\ RunWith(t, <<>>)
      BY <1>5 DEF RunMultiInstance, RunThreadSplit
    <2>2. Gapped(PredictedOutputs(s, n), OutputCount(s, n))
      BY <1>2, NetTyped, PredictedOutputsGapped
    <2> HIDE DEF s
    <2> QED
      BY <1>1, <2>1, <2>2, SyncRan
  <1> QED
    BY <1>3, <1>4, <1>5

\* A ThreadStart makes its children READY, and nothing above it is dead.
LEMMA ThreadStartRan ==
  ASSUME IInv, IInv', ReachInv, NEW t \in DOMAIN tasks, RunThreadStart(t)
  PROVE  (\E S : Ran(t, S)) /\ NoneBack(tasks, tasks')
  <1> DEFINE T    == AssignThread(tasks, t, threads + 1)
             outs == Outputs(tasks[t].spec)
             U    == SyncChildren(T, t, outs, Len(outs), "READY")
             none == <<>>
  <1>1. /\ Tree(tasks, Specs) /\ Tree(tasks', Specs) /\ tasks[t].spec \in Specs /\ t \in Path
        /\ tasks[t].state = "READY" /\ threads + 1 \in Nat /\ calls = <<>>
    BY RunnableReach, IInvSplit, IInvSplitPrime DEF RunThreadStart, OthersTyped
  <1>2. /\ Tree(T, Specs) /\ DOMAIN T = DOMAIN tasks
        /\ \A d \in DOMAIN tasks : /\ T[d].state = tasks[d].state /\ T[d].spec = tasks[d].spec
                                   /\ T[d].born = tasks[d].born
    BY <1>1, AssignThreadTree
  <1>3. \/ tasks' = SetState(T, {t}, "ERROR") /\ UNCHANGED calls
        \/ tasks' = U /\ RunWith(t, none)
    BY DEF RunThreadStart
  <1>4. Gapped(outs, Len(outs))
    BY <1>1, OutputsGapped
  <1> HIDE DEF T, outs
  <1>5. Turns(tasks, T, {}) /\ \A p \in Path : Known(tasks, p) => Known(T, p)
    BY <1>2 DEF Turns, Known
  <1>6. Tree(U, Specs) /\ Grown(T, U, t, {"READY"})
    <2>1. Len(outs) \in Nat /\ "READY" \in ANY /\ t \in DOMAIN T
      BY <1>2, <1>4, MasksTyped DEF Gapped
    <2> QED
      BY <1>2, <1>4, <2>1, SyncChildrenTree DEF Gapped
  <1> HIDE DEF U
  <1>7. CASE tasks' = SetState(T, {t}, "ERROR") /\ UNCHANGED calls
    <2>1. Turns(tasks, tasks', {t})
      BY <1>2, <1>5, <1>7, SetTurns, TurnsTwice
    <2>2. Ran(t, {t})
      BY <1>1, <1>7, <2>1 DEF Ran
    <2>3. DOMAIN tasks' = DOMAIN tasks
      BY <1>2, <1>7, SetStateEffect
    <2> QED
      BY <2>2, <2>3 DEF NoneBack
  <1>8. CASE tasks' = U /\ RunWith(t, none)
    <2> DEFINE S == {c \in Children(tasks', t) : tasks'[c].state \in {"READY"}}
    <2>1. Turns(tasks, tasks', S)
      <3>1. Turns(T, tasks', S)
        BY <1>6, <1>8, GrownTurns
      <3> HIDE DEF S
      <3> QED
        BY <1>5, <3>1, TurnsTwice
    <2>2. t \in DOMAIN tasks' /\ tasks'[t].state = "READY"
      BY <1>1, <1>2, <1>6, <1>8 DEF Grown
    <2>3. none \in Seq(FrameType) /\ DOMAIN none = {}
      OBVIOUS
    <2> HIDE DEF none
    <2>4. Ran(t, S)
      BY <1>8, <2>1, <2>2, <2>3 DEF Ran, Children
    <2>5. \A p \in Path : Known(T, p) /\ p \in DOMAIN U => p \in DOMAIN T
      BY <1>2, <1>6, GrownKnown
    <2>6. NoneBack(tasks, tasks')
      BY <1>2, <1>5, <1>8, <2>5 DEF NoneBack
    <2> QED
      BY <2>4, <2>6
  <1> QED
    BY <1>3, <1>7, <1>8

LEMMA CancelTaskRan ==
  ASSUME IInv, ReachInv, NEW t, RunCancelTask(t)
  PROVE  \E S : Ran(t, S)
  <1> DEFINE context == Net[tasks[t].spec].context
             frames  == [i \in DOMAIN context |-> Frame("cancel", t, OfSpec(tasks, context[i]))]
  <1>1. Tree(tasks, Specs) /\ t \in DOMAIN tasks /\ t \in Path /\ tasks[t].spec \in Specs
    BY RunnableReach DEF RunCancelTask
  <1>2. frames \in Seq(FrameType) /\ \A i \in DOMAIN frames : frames[i].op = "cancel"
    BY <1>1, ContextFrames
  <1>3. RunWith(t, frames) /\ UNCHANGED tasks
    BY DEF RunCancelTask
  <1> HIDE DEF frames
  <1>4. Turns(tasks, tasks', {})
    BY <1>3, SameTurns
  <1> QED
    BY <1>2, <1>3, <1>4, QuietRan

LEMMA TasksRan ==
  ASSUME IInv, IInv', ReachInv, NEW t \in DOMAIN tasks, RunTask(t)
  PROVE  (\E kinds : Running(t, kinds)) /\ (\E S : Ran(t, S))
  <1> DEFINE none == <<>>
  <1>1. PICK kinds : Running(t, kinds)
    BY DEF RunTask, RunSimple, RunFails, RunMultiChoice, RunExclusiveChoice, RunMultiInstance,
           RunThreadSplit, RunThreadStart, RunReleaseMutex, RunCancel, RunCancelTask
  <1>2. Tree(tasks, Specs)
    BY IInvSplit
  <1>3. none \in Seq(FrameType) /\ DOMAIN none = {}
    OBVIOUS
  <1>4. CASE RunWith(t, none) /\ (UNCHANGED tasks \/ RunCancel(t))
    <2>1. Turns(tasks, tasks', {})
      BY <1>2, <1>4, SameTurns, CancelBranchShrunk, ShrunkTurns DEF RunCancel
    <2> HIDE DEF none
    <2> QED
      BY <1>1, <1>3, <1>4, <2>1, QuietRan
  <1>5. CASE RunRaises(t)
    BY <1>1, <1>5, RaiseRan
  <1>6. RunSimple(t) \/ RunReleaseMutex(t) \/ RunFails(t) \/ RunCancel(t) =>
           (RunWith(t, none) /\ (UNCHANGED tasks \/ RunCancel(t))) \/ RunRaises(t)
    BY DEF RunSimple, RunReleaseMutex, RunFails, RunCancel
  <1> QED
    BY <1>1, <1>4, <1>5, <1>6, SplitsRan, ThreadStartRan, CancelTaskRan DEF RunTask

\* A task that has failed or been cancelled does not run, nor does what is behind it: no join
\* fails but one that runs.
LEMMA RunFirm ==
  ASSUME IInv, IInv', ReachInv, FiringInv, NEW t \in DOMAIN tasks, RunTask(t)
  PROVE  Firm(tasks, tasks') /\ NoneBack(tasks, tasks')
  <1>1. resets' = resets /\ Run
    BY DEF Run, RunTask, RunSimple, RunFails, RunMultiChoice, RunExclusiveChoice, RunMultiInstance,
           RunThreadSplit, RunThreadStart, RunReleaseMutex, RunCancel, RunCancelTask, counters
  <1>2. Keeps(tasks, tasks') /\ SameSpecs(tasks, tasks')
    BY <1>1, NextKeeps, NextByNet DEF OrderlyNext, StepByNet, ByNet
  <1>3. JoinsSound(tasks, tasks')
    <2>1. PICK kinds, S : Running(t, kinds) /\ Ran(t, S)
      BY TasksRan
    <2>2. Tree(tasks', Specs) /\ tasks[t].state = "READY"
      BY <2>1, RunnableReach, IInvSplitPrime
    <2>3. ASSUME NEW d \in DOMAIN tasks \intersect DOMAIN tasks', tasks'[d].state = "ERROR"
          PROVE  tasks[d].state \in {"ERROR", "READY"}
      <3>1. d \in S \/ tasks[d].state = "ERROR"
        BY <2>1, <2>3 DEF Ran, Turns, REACHED
      <3>2. d \in S => d = t
        BY <2>1, <2>3 DEF Ran
      <3> QED
        BY <2>2, <3>1, <3>2
    <2> QED
      BY <2>3 DEF JoinsSound
  <1>4. NoneBack(tasks, tasks')
    BY RunGently, ThreadStartRan DEF RunsGently, Gentle, NoneBack
  <1> QED
    BY <1>2, <1>3, <1>4, FirmFrom

LEMMA RunsPass ==
  ASSUME IInv, IInv', ReachInv, FiringInv, PassInv, Run
  PROVE  PassInv'
  BY TasksRan, RunFirm, RunPasses DEF Run

LEMMA MethodsPass ==
  ASSUME IInv, IInv', ReachInv, PassInv, UpdateWaitingTasks \/ Cancel
  PROVE  PassInv'
  <1>1. /\ Tree(tasks, Specs) /\ Tree(tasks', Specs) /\ Reach(tasks)
    BY AtRest, IInvSplitPrime DEF UpdateWaitingTasks, Cancel
  <1>2. CASE UpdateWaitingTasks
    <2> DEFINE f == Frame("visit", Root, {Root})
               one == <<f>>
    <2>1. UNCHANGED tasks /\ calls' = one
      BY <1>2 DEF UpdateWaitingTasks
    <2>2. f.op = "visit"
      BY DEF Frame
    <2> HIDE DEF f
    <2>3. AllPass(tasks', one)
      <3>1. PassOK(tasks', f)
        BY <2>2, IdlePasses
      <3> QED
        BY <3>1 DEF AllPass
    <2> HIDE DEF one
    <2> QED
      BY <2>1, <2>3 DEF PassInv
  <1>3. CASE Cancel
    <2>1. tasks' = CancelBranch(tasks, Root) /\ calls' = <<>>
      BY <1>3 DEF Cancel, Quiescent
    <2>2. Turns(tasks, tasks', {}) /\ SameSpecs(tasks, tasks') /\ Shrunk(tasks, tasks')
      BY <1>1, <2>1, CancelBranchShrunk, ShrunkTurns, ShrunkByNet DEF ByNet
    <2>3. Keeps(tasks, tasks')
      BY <1>1, <2>1, CancelBranchCalm DEF Calm
    <2>4. JoinsSound(tasks, tasks')
      BY <2>2, StatesDiffer DEF JoinsSound, Shrunk
    <2>5. TreePasses(tasks')
      BY <1>1, <2>2, <2>3, <2>4, FirmFrom, TreePassesStays DEF PassInv
    <2> QED
      BY <2>1, <2>5, AllPassNone DEF PassInv
  <1> QED
    BY <1>2, <1>3

\* A task that is reset has been completed up to its parent, and what was behind it is gone.
LEMMA ResetPasses ==
  ASSUME IInv, IInv', ReachInv, PassInv, OrderlyReset
  PROVE  PassInv'
  <1>1. PICK t \in DOMAIN tasks : GoBack(t)
    BY OrderlyResetGoesBack
  <1> DEFINE pruned == RemoveBranches(tasks, Children(tasks, t))
             bare   == SetState(pruned, {t}, "FUTURE")
             mask   == PREDICTED \union {"FUTURE"}
             next   == PredictNext(tasks', t, 0, mask)
             f      == PredictFrame(t, next, 1, mask)
             g      == Frame("hook", t, {})
             first  == <<f>>
             then   == <<g>>
  <1>2. /\ Tree(tasks, Specs) /\ Tree(tasks', Specs) /\ Reach(tasks) /\ t \in Path
        /\ calls' = first \o then
    BY <1>1, IInvSplit, IInvSplitPrime, StateTyped, AtRest
    DEF GoBack, ResetBranch, MayReset
  <1>3. t # Root /\ tasks[Parent(t)].state = "COMPLETED"
    BY <1>1 DEF GoBack, MayReset, In
  <1>4. /\ Tree(pruned, Specs) /\ t \in DOMAIN pruned /\ Shrunk(tasks, pruned)
        /\ \A d \in DOMAIN pruned \ {Root} : Parent(d) # t
        /\ \A d \in DOMAIN pruned : pruned[d] = tasks[d]
        /\ Tree(bare, Specs) /\ t \in DOMAIN bare /\ bare[t].state = "FUTURE"
        /\ \E n \in Nat : tasks' = PredictHook(bare, t, n)
    BY <1>1, ResetParts
  <1>5. PICK n \in Nat : tasks' = PredictHook(bare, t, n)
    BY <1>4
  <1>6. next \in SUBSET Path /\ mask \in SUBSET ANY
    BY <1>2, PredictNextTyped, MasksTyped
  <1> HIDE DEF next, mask, pruned
  <1>7. /\ DOMAIN bare = DOMAIN pruned /\ DOMAIN pruned \subseteq DOMAIN tasks
        /\ \A d \in DOMAIN pruned : /\ bare[d].spec = tasks[d].spec
                                    /\ bare[d].state = IF d = t THEN "FUTURE" ELSE tasks[d].state
    BY <1>4, SetStateEffect DEF Shrunk
  <1>8. Unbarred(tasks, t)
    <2>1. Parent(t) \in DOMAIN tasks /\ Parent(t) \in Path
      BY <1>2, <1>3, ParentLive
    <2>2. Unbarred(tasks, Parent(t)) /\ ~Dead(tasks, Parent(t))
      BY <1>3, <2>1, StatesDiffer DEF PassInv, TreePasses, REACHED, Dead
    <2>3. ASSUME NEW a \in DOMAIN tasks, Above(a, t) PROVE a = Parent(t) \/ Above(a, Parent(t))
      BY <1>2, <1>3, <2>3, StateTyped, AncestorOrParent
    <2> QED
      BY <2>2, <2>3 DEF Unbarred
  <1> HIDE DEF bare
  <1>9. \A a \in DOMAIN bare : Dead(bare, a) => a \in DOMAIN tasks /\ Dead(tasks, a)
    BY <1>7 DEF Dead
  <1>10. TreePasses(bare) /\ Unbarred(bare, t)
    BY <1>7, <1>8, <1>9 DEF PassInv, TreePasses, Unbarred, REACHED
  <1>11. PICK states : /\ Grown(bare, tasks', t, states) /\ states \intersect REACHED = {}
                       /\ states \subseteq EXPECTED
    <2>1. bare[t].state \in EXPECTED
      BY <1>4, StatesDiffer
    <2>2. PICK states : Grown(bare, tasks', t, states) /\ Foresees(bare, t, states)
      BY <1>4, <1>5, <2>1, PredictHookGrown
    <2>3. states \intersect REACHED = {} /\ states \subseteq EXPECTED
      BY <2>2, StatesDiffer DEF Foresees, REACHED
    <2> QED
      BY <2>2, <2>3
  <1>12. \A a \in DOMAIN tasks' : Dead(tasks', a) => a \in DOMAIN bare /\ Dead(bare, a)
    <2> SUFFICES ASSUME NEW a \in DOMAIN tasks', Dead(tasks', a)
                 PROVE  a \in DOMAIN bare /\ Dead(bare, a)
      OBVIOUS
    <2>1. tasks'[a].state \notin states
      BY <1>11, StatesDiffer DEF Dead
    <2>2. a \in DOMAIN bare
      BY <1>11, <2>1 DEF Grown
    <2>3. tasks'[a].spec = bare[a].spec /\ tasks'[a].state = bare[a].state
      BY <1>11, <2>1, <2>2 DEF Grown
    <2> QED
      BY <2>2, <2>3 DEF Dead
  <1>13. \A d \in DOMAIN bare : Unbarred(bare, d) => Unbarred(tasks', d)
    BY <1>12 DEF Unbarred
  <1>14. TreePasses(tasks')
    <2>1. Turns(bare, tasks', {})
      BY <1>11, GrownTurns
    <2> QED
      BY <1>10, <1>13, <2>1 DEF TreePasses, Turns
  <1>15. f \in FrameType /\ f.op = "predict" /\ g \in FrameType /\ g.op = "hook" /\ g.task = t
    BY <1>2, <1>6, PredictFrameTyped, FrameTyped DEF PredictFrame, Ops, Frame
  <1> HIDE DEF f, g
  <1>16. PassOK(tasks', f) /\ PassOK(tasks', g)
    BY <1>4, <1>10, <1>13, <1>15 DEF PassOK
  <1>17. first \in Seq(FrameType) /\ AllPass(tasks', first)
    BY <1>15, <1>16, AllPassOne
  <1>18. then \in Seq(FrameType) /\ AllPass(tasks', then)
    BY <1>15, <1>16, AllPassOne
  <1> HIDE DEF first, then
  <1>19. AllPass(tasks', calls')
    BY <1>2, <1>17, <1>18, AllPassConcat
  <1> QED
    BY <1>14, <1>19 DEF PassInv

LEMMA InitPasses == ASSUME Init PROVE PassInv
  <1> DEFINE f == PredictFrame(Root, {Root}, 0, NOT_FINISHED)
             g == Frame("hook", Root, {})
             both == <<f, g>>
  <1>1. /\ calls = both /\ DOMAIN tasks = {Root} /\ tasks[Root].state = "FUTURE"
    BY DEF Init
  <1>2. f.op = "predict" /\ g.op = "hook" /\ g.task = Root
    BY DEF PredictFrame, Frame
  <1> HIDE DEF f, g
  <1>3. ~Dead(tasks, Root)
    BY <1>1 DEF Dead
  <1>4. TreePasses(tasks) /\ PassOK(tasks, f) /\ PassOK(tasks, g)
    BY <1>1, <1>2, <1>3 DEF TreePasses, PassOK, Unbarred
  <1>5. DOMAIN both = {1, 2} /\ both[1] = f /\ both[2] = g
    OBVIOUS
  <1> HIDE DEF both
  <1> QED
    BY <1>1, <1>4, <1>5 DEF PassInv, AllPass

LEMMA NextPasses ==
  ASSUME IInv, ReachInv, FiringInv, JoinsComplete, PassInv, [OrderlyNext]_vars
  PROVE  PassInv'
  <1>1. IInv'
    BY OrderlyIInv
  <1>2. CASE UNCHANGED vars
    <2>1. UNCHANGED <<tasks, calls>>
      BY <1>2 DEF vars
    <2> QED
      BY <2>1 DEF PassInv
  <1> QED
    BY <1>1, <1>2, StepPasses, RunsPass, MethodsPass, ResetPasses DEF OrderlyNext
-----------------------------------------------------------------------------
(* The theorems                                                            *)

LEMMA NextJoinsComplete ==
  ASSUME IInv, ReachInv, JoinsComplete, [OrderlyNext]_vars
  PROVE  JoinsComplete'
  <1>1. IInv' /\ Tree(tasks, Specs)
    BY OrderlyIInv, IInvSplit
  <1>2. SameSpecs(tasks, tasks')
    BY <1>1, NextByNet DEF StepByNet, ByNet
  <1>3. CASE UNCHANGED vars
    <2>1. UNCHANGED <<tasks, calls>>
      BY <1>3 DEF vars
    <2> QED
      BY <2>1 DEF JoinsComplete
  <1>4. CASE CompleteTask
    <2> DEFINE frames == <<Frame("children", Top.task, Children(tasks, Top.task)),
                           Frame("visit", Top.task, {Root}), Frame("finish", Top.task, {})>>
    <2>1. calls' = frames \o Tail(calls) /\ Tail(calls) = <<>>
      BY <1>4, BottomAlone DEF CompleteTask, ReturnTo
    <2>2. /\ frames \in Seq({frames[1], frames[2], frames[3]}) /\ DOMAIN frames = 1..3
          /\ \A i \in 1..3 : frames[i].op # "complete"
      BY DEF Frame
    <2> HIDE DEF frames
    <2>3. calls' = frames
      BY <2>1, <2>2, ConcatEmptySeq
    <2>4. Completing(calls') = {}
      BY <2>2, <2>3 DEF Completing
    <2> QED
      BY <2>4 DEF JoinsComplete
  <1>5. ASSUME Completing(calls') \subseteq Completing(calls), ~Doing("complete"),
               \A a \in Completing(calls) : a \in DOMAIN tasks' => a \in DOMAIN tasks
        PROVE  JoinsComplete'
    <2> SUFFICES ASSUME NEW a \in Completing(calls') \intersect DOMAIN tasks',
                        Kind(tasks'[a].spec) = "Join"
                 PROVE  FALSE
      BY DEF JoinsComplete
    <2>1. a \in Completing(calls) \intersect DOMAIN tasks /\ Kind(tasks[a].spec) = "Join"
      BY <1>2, <1>5 DEF SameSpecs
    <2>2. Sole(calls)
      BY <2>1 DEF JoinsComplete
    <2> QED
      BY <1>5, <2>2 DEF Sole, Doing
  <1>6. CASE Step
    <2>1. CompleteTask \/ ~Doing("complete")
      BY <1>6 DEF Step, Predict, UpdateSimple, UpdateFails, UpdateExecute, UpdateGate,
         UpdateAcquire, UpdateJoin, CancelNext, JoinFires, ChildrenNext, VisitNext, Finish,
         Hook, Doing
    <2>2. CASE Gently /\ ~Doing("complete")
      BY <1>5, <2>2, CompletingKnown DEF Gently, Gentle
    <2>3. CASE JoinFires
      <3>1. calls # <<>> /\ Return /\ ~Doing("complete")
        BY <2>3 DEF JoinFires, Doing
      <3>2. Completing(calls') \subseteq Completing(calls)
        BY <3>1, ReturnCompleting
      <3>3. DOMAIN tasks' \subseteq DOMAIN tasks
        <4>1. PICK V : Same(tasks, V) /\ tasks' = Ready(V, Top.task)
          BY <2>3, JoinFiresParts
        <4> QED
          BY <4>1 DEF Ready, SetState, Same
      <3> QED
        BY <1>5, <3>1, <3>2, <3>3
    <2> QED
      BY <1>1, <1>4, <1>6, <2>1, <2>2, <2>3, StepGently
  <1>7. CASE Run
    <2>1. PICK t \in DOMAIN tasks : RunTask(t)
      BY <1>7 DEF Run
    <2>2. PICK kinds, S : Running(t, kinds) /\ Ran(t, S)
      BY <1>1, <2>1, TasksRan
    <2>3. t \in Path /\ calls = <<>> /\ tasks[t].state = "READY"
      BY <2>2, RunnableReach
    <2> DEFINE f == Frame("complete", t, {})
    <2>4. CASE calls' = <<f>> /\ UNCHANGED tasks
      <3>1. Sole(calls') /\ Completing(calls') = {t}
        BY <2>4 DEF Sole, Completing, Frame
      <3> QED
        BY <2>3, <2>4, <3>1 DEF JoinsComplete, Sole
    <2>5. CASE Kind(tasks[t].spec) # "Join" /\ t \in DOMAIN tasks
      <3>1. Completing(calls') \subseteq {t}
        <4>1. CASE calls' = <<>>
          BY <4>1 DEF Completing
        <4>2. ASSUME NEW frames \in Seq(FrameType), RunWith(t, frames),
                     \A i \in DOMAIN frames : frames[i].op \in {"predict", "cancel"}
              PROVE  Completing(calls') \subseteq {t}
          <5>1. Quiet(frames)
            BY <4>2 DEF Quiet
          <5> QED
            BY <2>3, <4>2, <5>1, RunWithCompleting
        <4> QED
          BY <2>2, <4>1, <4>2 DEF Ran
      <3> QED
        BY <1>2, <2>5, <3>1 DEF JoinsComplete, SameSpecs
    <2>6. CASE calls' = <<>>
      BY <2>6 DEF JoinsComplete, Completing
    <2>7. Kind(tasks[t].spec) # "Join" \/ calls' = <<>> \/ (calls' = <<f>> /\ UNCHANGED tasks)
      <3>1. RunThreadStart(t) => Kind(tasks[t].spec) = "ThreadStart"
        BY DEF RunThreadStart, Running
      <3> QED
        BY <1>1, <2>1, <3>1, RunGently DEF RunsGently
    <2> HIDE DEF f
    <2> QED
      BY <2>1, <2>4, <2>5, <2>6, <2>7
  <1>8. CASE UpdateWaitingTasks \/ Cancel \/ OrderlyReset
    <2>1. calls = <<>>
      BY <1>8, OrderlyResetGoesBack DEF UpdateWaitingTasks, Cancel, GoBack, MayReset, Quiescent
    <2>2. Completing(calls) = {} /\ ~Doing("complete")
      BY <2>1 DEF Doing, Completing
    <2> QED
      BY <1>1, <1>5, <1>8, <2>2, MethodsGently, ResetGently DEF Gently
  <1> QED
    BY <1>3, <1>6, <1>7, <1>8 DEF OrderlyNext

LEMMA InitJoinsComplete == ASSUME Init PROVE JoinsComplete
  <1> DEFINE f == PredictFrame(Root, {Root}, 0, NOT_FINISHED)
             g == Frame("hook", Root, {})
  <1>1. calls = <<f, g>> /\ f.op = "predict" /\ g.op = "hook"
    BY DEF Init, PredictFrame, Frame
  <1> HIDE DEF f, g
  <1>2. Completing(calls) = {}
    BY <1>1 DEF Completing
  <1> QED
    BY <1>2 DEF JoinsComplete

\* What has been proved of the frames and of what they pass.
Passes == FiringInv /\ JoinsComplete /\ PassInv

LEMMA NextKeepsPasses ==
  ASSUME IInv, ReachInv, Passes, [OrderlyNext]_vars
  PROVE  Passes'
  BY NextFiring, NextJoinsComplete, NextPasses DEF Passes

LEMMA InitPass == ASSUME Init PROVE Passes
  BY InitFiring, InitJoinsComplete, InitPasses DEF Passes

LEMMA DefiniteFromPasses == ASSUME IInv, ReachInv, PassInv PROVE DefiniteReachable
  <1> SUFFICES ASSUME Quiescent, NEW t \in InState(tasks, REACHED), NEW a \in DOMAIN tasks, Above(a, t)
               PROVE  \/ In(tasks, a, {"COMPLETED"})
                      \/ In(tasks, a, {"CANCELLED"}) /\ Kind(tasks[a].spec) = "Join"
    BY DefiniteFromReach DEF DefiniteReachable
  <1>1. tasks[a].state \in FINISHED
    BY DefiniteFromReach DEF In
  <1>2. ~Dead(tasks, a)
    BY DEF InState, In, PassInv, TreePasses, Unbarred
  <1> QED
    BY <1>1, <1>2, StatesDiffer DEF Dead, In

\* Predicted tasks follow definite ones and never the other way round, in the middle of a call
\* as well; and between two calls whatever is waited for, is to be run or has been run lies behind
\* completed tasks only: no synchronization of children, join, cancellation, exception or reset
\* leaves a task that could run although some task before it has failed, has been cancelled or
\* has not been completed.
THEOREM DefinitesReachable == OrderlySpec => []DefiniteReachable
  <1>1. OrderlySpec => [](IInv /\ ReachInv /\ Passes)
    BY InitPass, NextKeepsPasses, ReachAlways, PTL DEF OrderlySpec
  <1>2. IInv /\ ReachInv /\ Passes => DefiniteReachable
    BY DefiniteFromPasses DEF Passes
  <1> QED
    BY <1>1, <1>2, PTL

LEMMA ReloadPasses == ASSUME IInv, ReachInv, Passes, Reload PROVE Passes'
  <1>1. /\ Tree(tasks, Specs) /\ calls' = <<>> /\ tasks' = LoadedTree(tasks)
    BY AtRest DEF Reload, Quiescent
  <1>2. /\ DOMAIN tasks' = DOMAIN tasks
        /\ \A t \in DOMAIN tasks : /\ tasks'[t].state = tasks[t].state
                                   /\ tasks'[t].spec = tasks[t].spec
    BY <1>1 DEF LoadedTree, SavedTasks, Tree, IsTree, TaskType
  <1>3. TreePasses(tasks')
    BY <1>2 DEF Passes, PassInv, TreePasses, Unbarred, Dead
  <1>4. AllPass(tasks', calls') /\ FiringInv' /\ JoinsComplete'
    BY <1>1 DEF AllPass, FiringInv, JoinsComplete, Completing
  <1> QED
    BY <1>3, <1>4 DEF Passes, PassInv

\* In a loaded workflow, too, all that comes before what is waited for, is to be run or has been
\* run is completed: the documents keep the state of each task.
THEOREM DefinitesReachableAcrossRestarts == OrderlyRestartSpec => []DefiniteReachable
  <1>1. RInv /\ Passes /\ [OrderlyRestartNext]_vars => Passes'
    BY NextKeepsPasses, ReloadPasses DEF RInv, OrderlyRestartNext, DictRestart, XmlRestart
  <1>2. RInv /\ Passes => DefiniteReachable
    BY DefiniteFromPasses DEF RInv, Passes
  <1> QED
    BY <1>1, <1>2, InitPass, RestartInv, PTL DEF OrderlyRestartSpec

-----------------------------------------------------------------------------
(* A join fires with as many of its inputs as it is to wait for.  It counts *)
(* completed tasks, and two of one input would do; so this takes a net      *)
(* whose joins have inputs that a thread comes to only once.  That such a   *)
(* net is executed so is what siblings, and the threads, have to do with it.*)

\* The children of a task are of different specs, unless it is to be multiplied.
SiblingsDiffer(T) ==
    \A t \in DOMAIN T :
        \/ IsMultiple(T[t].spec)
        \/ \A c, d \in Children(T, t) : T[c].spec = T[d].spec => c = d

LEMMA LessSiblings ==
  ASSUME NEW T, NEW U, DOMAIN U \subseteq DOMAIN T, SameSpecs(T, U), SiblingsDiffer(T)
  PROVE  SiblingsDiffer(U)
  BY DEF SiblingsDiffer, SameSpecs, Children

LEMMA SameSiblings == ASSUME NEW T, NEW U, Same(T, U), SiblingsDiffer(T) PROVE SiblingsDiffer(U)
  BY LessSiblings DEF Same, SameSpecs

LEMMA SetSiblings ==
  ASSUME NEW T, Tree(T, Specs), NEW S, NEW state, SiblingsDiffer(T)
  PROVE  SiblingsDiffer(SetState(T, S, state))
  BY SetStateEffect, LessSiblings DEF SameSpecs

LEMMA GrownSiblings ==
  ASSUME NEW T, NEW U, Tree(T, Specs), Tree(U, Specs), NEW t, NEW states, Grown(T, U, t, states),
         SiblingsDiffer(T),
         \/ IsMultiple(T[t].spec)
         \/ \A c, d \in Children(U, t) : U[c].spec = U[d].spec => c = d
  PROVE  SiblingsDiffer(U)
  <1> SUFFICES ASSUME NEW p \in DOMAIN U, ~IsMultiple(U[p].spec),
                      NEW c \in Children(U, p), NEW d \in Children(U, p), U[c].spec = U[d].spec
               PROVE  c = d
    BY DEF SiblingsDiffer
  <1>1. CASE p = t
    BY <1>1 DEF Grown
  <1>2. CASE p # t
    <2>1. c \in DOMAIN T /\ d \in DOMAIN T /\ c # Root
      BY <1>2 DEF Grown, Children
    <2>2. p \in DOMAIN T
      BY <2>1, ParentLive DEF Children
    <2>3. /\ c \in Children(T, p) /\ d \in Children(T, p)
          /\ T[c].spec = U[c].spec /\ T[d].spec = U[d].spec /\ T[p].spec = U[p].spec
      BY <2>1, <2>2 DEF Grown, Children
    <2> QED
      BY <2>2, <2>3 DEF SiblingsDiffer
  <1> QED
    BY <1>1, <1>2

\* A list of outputs none of which is named twice.
Distinct(outs) == \A i, k \in DOMAIN outs : outs[i] = outs[k] => i = k

LEMMA OutputsDistinct ==
  ASSUME NEW s \in Specs
  PROVE  Distinct(Outputs(s)) /\ \A S : Distinct(Pick(Outputs(s), S))
  <1>1. Distinct(Outputs(s))
    BY NetAssumption DEF Distinct, Outputs
  <1>2. Outputs(s) \in Seq(Specs) /\ DOMAIN Outputs(s) = 1..Len(Outputs(s))
    BY NetTyped
  <1> QED
    BY <1>1, <1>2 DEF Distinct, Pick

LEMMA SyncSiblings ==
  ASSUME NEW T, Tree(T, Specs), NEW t \in DOMAIN T, NEW n \in Nat, NEW outs, Gapped(outs, n),
         NEW state \in ANY, IsMultiple(T[t].spec) \/ Distinct(outs), SiblingsDiffer(T)
  PROVE  SiblingsDiffer(SyncChildren(T, t, outs, n, state))
  <1> DEFINE U == SyncChildren(T, t, outs, n, state)
  <1>1. Tree(U, Specs) /\ Grown(T, U, t, {state})
    BY SyncChildrenTree DEF Gapped
  <1>2. Distinct(outs) => \A c, d \in Children(U, t) : U[c].spec = U[d].spec => c = d
    BY SyncOnce DEF Distinct
  <1> HIDE DEF U
  <1>3. SiblingsDiffer(U)
    BY <1>1, <1>2, GrownSiblings
  <1> QED
    BY <1>3 DEF U

\* What _sync_children leaves is on the list.
LEMMA SyncedAmong ==
  ASSUME NEW T, Tree(T, Specs), NEW t \in DOMAIN T, NEW n \in Nat, NEW outs, Gapped(outs, n),
         NEW state \in ANY, NEW c \in Children(SyncChildren(T, t, outs, n, state), t)
  PROVE  \E i \in DOMAIN outs : SyncChildren(T, t, outs, n, state)[c].spec = outs[i]
  <1> DEFINE U == SyncChildren(T, t, outs, n, state)
  <1>1. \/ c \in Kept(T, t, outs, n) /\ U[c].spec = T[c].spec
        \/ \E i \in Missing(T, t, outs) : U[c].spec = outs[i]
    BY SyncedChildren
  <1> HIDE DEF U
  <1>2. CASE c \in Kept(T, t, outs, n) /\ U[c].spec = T[c].spec
    <2> DEFINE s == T[c].spec
    <2>1. c \in Children(T, t) /\ Cardinality(Older(T, t, c)) <= Cardinality(Places(outs, s, n))
      BY <1>2 DEF Kept, Occurrences, Older, Places
    <2>2. Slot(c) \in Nat
      BY <2>1, ChildrenFinite
    <2>3. c \in Older(T, t, c) /\ Older(T, t, c) \in SUBSET Children(T, t)
      BY <2>1, <2>2 DEF Older
    <2>4. IsFiniteSet(Older(T, t, c)) /\ Cardinality(Older(T, t, c)) \in Nat
      BY <2>3, ChildrenFinite
    <2>5. Cardinality(Older(T, t, c)) # 0
      BY <2>3, <2>4, FS_EmptySet
    <2>6. Places(outs, s, n) # {}
      BY <2>1, <2>4, <2>5, FS_EmptySet
    <2> QED
      BY <1>2, <2>6 DEF Places, U
  <1>3. CASE \E i \in Missing(T, t, outs) : U[c].spec = outs[i]
    BY <1>3 DEF Missing, U
  <1> QED
    BY <1>1, <1>2, <1>3 DEF U

\* The children that are there after some have been added.
LEMMA AddedChildren ==
  ASSUME NEW T, Tree(T, Specs), NEW t \in DOMAIN T, NEW n \in Nat, NEW outs, Gapped(outs, n),
         NEW state \in ANY, NEW c \in Children(AddChildren(T, t, outs, n, state), t)
  PROVE  LET U == AddChildren(T, t, outs, n, state)
         IN  \/ c \in Children(T, t) /\ U[c].spec = T[c].spec
             \/ \E i \in DOMAIN outs : c = Append(t, T[t].born + i) /\ U[c].spec = outs[i]
  <1> DEFINE U     == AddChildren(T, t, outs, n, state)
             added == {Append(t, T[t].born + i) : i \in DOMAIN outs}
  <1>1. T[t].born \in Nat /\ t \in Path
    BY StateTyped DEF Tree, IsTree, TaskType
  <1>2. DOMAIN U = DOMAIN T \union added
    BY DEF AddChildren
  <1>3. c # Root /\ Parent(c) = t /\ c \in DOMAIN U
    BY DEF Children
  <1>4. CASE c \in added
    <2>1. PICK i \in DOMAIN outs : c = Append(t, T[t].born + i)
      BY <1>4
    <2>2. i \in Nat /\ T[t].born + i \in Nat /\ (T[t].born + i) - T[t].born = i
      BY <1>1 DEF Gapped
    <2>3. Slot(c) - T[t].born = i
      BY <1>1, <2>1, <2>2, AppendPath
    <2>4. U[c].spec = outs[i]
      BY <1>2, <1>4, <2>3 DEF AddChildren
    <2> QED
      BY <2>1, <2>4
  <1>5. CASE c \notin added
    <2>1. c \in DOMAIN T
      BY <1>2, <1>3, <1>5
    <2>2. U[c].spec = T[c].spec
      BY <1>2, <1>5, <2>1 DEF AddChildren
    <2> QED
      BY <1>3, <2>1, <2>2 DEF Children
  <1> QED
    BY <1>4, <1>5

LEMMA PredictHookSiblings ==
  ASSUME NEW T, Tree(T, Specs), NEW t \in DOMAIN T, NEW n \in Nat, T[t].state \in EXPECTED,
         SiblingsDiffer(T)
  PROVE  SiblingsDiffer(PredictHook(T, t, n))
  <1> DEFINE s == T[t].spec
             k == Len(Outputs(s))
             V == SyncChildren(T, t, PredictedOutputs(s, n), OutputCount(s, n), PredictedState(T, t))
             W == AddChildren(V, t, Conditional(s), k, "MAYBE")
  <1>1. s \in Specs /\ PredictedState(T, t) \in ANY /\ "MAYBE" \in ANY
    BY PredictedStateTyped, StateTyped, StatesDiffer
  <1>2. /\ Gapped(PredictedOutputs(s, n), OutputCount(s, n)) /\ OutputCount(s, n) \in Nat
        /\ Gapped(Conditional(s), k) /\ k \in Nat
    BY <1>1, PredictedOutputsGapped, PickGapped DEF Conditional, Gapped
  <1>3. /\ IsMultiple(s) \/ Distinct(PredictedOutputs(s, n))
        /\ Distinct(Conditional(s))
    BY <1>1, OutputsDistinct DEF PredictedOutputs, Unconditional, Conditional
  <1>4. SiblingsDiffer(V)
    BY <1>1, <1>2, <1>3, SyncSiblings
  <1>5. Tree(V, Specs) /\ t \in DOMAIN V /\ Grown(T, V, t, {PredictedState(T, t)})
    BY <1>1, <1>2, SyncChildrenTree DEF Gapped
  <1>6. Tree(W, Specs) /\ Grown(V, W, t, {"MAYBE"})
    BY <1>1, <1>2, <1>5, AddChildrenTree DEF Gapped
  <1>7. ASSUME IsChoice(s), NEW c \in Children(V, t)
        PROVE  V[c].spec \notin Net[s].cond
    <2>1. PICK i \in DOMAIN PredictedOutputs(s, n) : V[c].spec = PredictedOutputs(s, n)[i]
      BY <1>1, <1>2, <1>7, SyncedAmong
    <2> QED
      BY <1>7, <2>1 DEF PredictedOutputs, Unconditional, Pick
  <1>8. \A i \in DOMAIN Conditional(s) : Conditional(s)[i] \in Net[s].cond
    BY DEF Conditional, Pick
  <1>9. PredictHook(T, t, n) = IF IsChoice(s) THEN W ELSE V
    BY DEF PredictHook
  <1> HIDE DEF V
  <1> DEFINE isOld(b) == b \in Children(V, t) /\ W[b].spec = V[b].spec
             isNew(b) == \E i \in DOMAIN Conditional(s) :
                            b = Append(t, V[t].born + i) /\ W[b].spec = Conditional(s)[i]
  <1>10. \A c \in Children(W, t) : isOld(c) \/ isNew(c)
    BY <1>1, <1>2, <1>5, AddedChildren
  <1> HIDE DEF W
  <1>11. ASSUME IsChoice(s), ~IsMultiple(s)
         PROVE  SiblingsDiffer(W)
    <2>1. V[t].spec = s
      BY <1>5 DEF Grown
    <2>2. ASSUME NEW c \in Children(W, t), NEW d \in Children(W, t), W[c].spec = W[d].spec
          PROVE  c = d
      <3>1. CASE isOld(c) /\ isOld(d)
        BY <1>4, <1>5, <1>11, <2>1, <2>2, <3>1 DEF SiblingsDiffer
      <3>2. CASE isNew(c) /\ isNew(d)
        <4>1. PICK i \in DOMAIN Conditional(s) :
                 c = Append(t, V[t].born + i) /\ W[c].spec = Conditional(s)[i]
          BY <3>2
        <4>2. PICK l \in DOMAIN Conditional(s) :
                 d = Append(t, V[t].born + l) /\ W[d].spec = Conditional(s)[l]
          BY <3>2
        <4>3. i = l
          BY <1>3, <2>2, <4>1, <4>2 DEF Distinct
        <4> QED
          BY <4>1, <4>2, <4>3
      <3>3. CASE (isOld(c) /\ isNew(d)) \/ (isNew(c) /\ isOld(d))
        BY <1>7, <1>8, <1>11, <2>2, <3>3
      <3> HIDE DEF isOld, isNew
      <3> QED
        BY <1>10, <3>1, <3>2, <3>3
    <2> QED
      BY <1>4, <1>5, <1>6, <2>2, GrownSiblings
  <1>12. IsChoice(s) => ~IsMultiple(s)
    BY DEF IsChoice, IsMultiple
  <1> QED
    BY <1>4, <1>9, <1>11, <1>12

\* All steps leave it so.
LEMMA PredictSiblings ==
  ASSUME IInv, ReachInv, SiblingsDiffer(tasks), Predict
  PROVE  SiblingsDiffer(tasks')
  <1>1. calls # <<>> /\ Top.op = "predict"
    BY DEF Predict, Doing, Top
  <1>2. Tree(tasks, Specs) /\ Top \in FrameType /\ FrameOK(tasks, Top)
    BY <1>1, InProgress
  <1>3. CASE UNCHANGED tasks
    BY <1>3
  <1>4. CASE Raise
    BY <1>2, <1>4, SetSiblings DEF Raise
  <1>5. ASSUME NEW t \in DOMAIN tasks, In(tasks, t, Top.mask),
               tasks' = PredictHook(tasks, t, PredictedTimes(tasks[t].spec))
        PROVE  SiblingsDiffer(tasks')
    <2>1. tasks[t].state \in EXPECTED
      BY <1>1, <1>2, <1>5 DEF FrameOK, In
    <2>2. PredictedTimes(tasks[t].spec) \in Nat
      BY <1>2, StateTyped, PredictedTimesTyped
    <2> QED
      BY <1>2, <1>5, <2>1, <2>2, PredictHookSiblings
  <1> QED
    BY <1>3, <1>4, <1>5 DEF Predict

LEMMA ReadySiblings ==
  ASSUME NEW T, Tree(T, Specs), SiblingsDiffer(T), NEW t
  PROVE  SiblingsDiffer(Ready(T, t))
  BY SetSiblings DEF Ready

LEMMA StepsSiblings ==
  ASSUME IInv, ReachInv, SiblingsDiffer(tasks), Step
  PROVE  SiblingsDiffer(tasks')
  <1>1. Tree(tasks, Specs)
    BY IInvSplit
  <1>2. CASE UNCHANGED tasks
    BY <1>2
  <1>3. CASE SetReady(Top.task)
    BY <1>1, <1>3, ReadySiblings DEF SetReady
  <1>4. CASE SetWaiting(Top.task) \/ Raise \/ CompleteTask
    BY <1>1, <1>4, SetSiblings DEF SetWaiting, Raise, CompleteTask
  <1>5. CASE CancelNext
    BY <1>1, <1>2, <1>5, CancelBranchShrunk, ShrunkSame, SameSiblings DEF CancelNext
  <1>6. CASE UpdateSimple \/ UpdateFails \/ UpdateExecute \/ UpdateGate \/ UpdateAcquire
    BY <1>3, <1>4, <1>6 DEF UpdateSimple, UpdateFails, UpdateExecute, UpdateGate, UpdateAcquire
  <1>7. CASE UpdateJoin
    BY <1>2, <1>4, <1>7 DEF UpdateJoin
  <1>8. CASE ChildrenNext \/ VisitNext \/ Finish
    BY <1>2, <1>8 DEF ChildrenNext, VisitNext, Finish
  <1>9. CASE JoinFires
    <2>1. PICK V : Tree(V, Specs) /\ Same(tasks, V) /\ tasks' = Ready(V, Top.task)
      BY <1>9, JoinFiresParts
    <2> QED
      BY <2>1, SameSiblings, ReadySiblings
  <1> QED
    BY <1>4, <1>5, <1>6, <1>7, <1>8, <1>9, PredictSiblings DEF Step

LEMMA RunRaisesSiblings ==
  ASSUME IInv, SiblingsDiffer(tasks), NEW t, RunRaises(t)
  PROVE  SiblingsDiffer(tasks')
  BY IInvSplit, SetSiblings DEF RunRaises

LEMMA RunSyncSiblings ==
  ASSUME IInv, SiblingsDiffer(tasks), NEW t \in DOMAIN tasks, NEW outs, NEW n, Gapped(outs, n),
         IsMultiple(tasks[t].spec) \/ Distinct(outs),
         RunRaises(t) \/ tasks' = SyncChildren(tasks, t, outs, n, "FUTURE")
  PROVE  SiblingsDiffer(tasks')
  <1>1. Tree(tasks, Specs) /\ n \in Nat /\ "FUTURE" \in ANY
    BY IInvSplit, MasksTyped DEF Gapped
  <1>2. CASE RunRaises(t)
    BY <1>2, RunRaisesSiblings
  <1>3. CASE tasks' = SyncChildren(tasks, t, outs, n, "FUTURE")
    BY <1>1, <1>3, SyncSiblings
  <1> QED
    BY <1>2, <1>3

LEMMA RunSplitSiblings ==
  ASSUME IInv, SiblingsDiffer(tasks), NEW t \in DOMAIN tasks,
         RunMultiChoice(t) \/ RunExclusiveChoice(t) \/ RunMultiInstance(t) \/ RunThreadSplit(t)
  PROVE  SiblingsDiffer(tasks')
  <1> DEFINE s == tasks[t].spec
  <1>1. s \in Specs
    BY IInvSplit, StateTyped
  <1>2. CASE RunMultiInstance(t) \/ RunThreadSplit(t)
    <2>1. IsMultiple(s)
      BY <1>2 DEF RunMultiInstance, RunThreadSplit, Running, IsMultiple
    <2>2. PICK n \in Net[s].times :
             \/ RunRaises(t)
             \/ tasks' = SyncChildren(tasks, t, PredictedOutputs(s, n), OutputCount(s, n), "FUTURE")
      BY <1>2 DEF RunMultiInstance, RunThreadSplit, RunSplit
    <2>3. n \in Nat
      BY <1>1, NetTyped
    <2>4. Gapped(PredictedOutputs(s, n), OutputCount(s, n))
      BY <1>1, <2>3, PredictedOutputsGapped
    <2> QED
      BY <2>1, <2>2, <2>4, RunSyncSiblings
  <1>3. CASE RunMultiChoice(t)
    <2>1. PICK S : RunSplit(t, Pick(Outputs(s), S), Len(Outputs(s)), 0)
      BY <1>3 DEF RunMultiChoice
    <2>2. Gapped(Pick(Outputs(s), S), Len(Outputs(s))) /\ Distinct(Pick(Outputs(s), S))
      BY <1>1, PickGapped, OutputsDistinct
    <2> QED
      BY <2>1, <2>2, RunSyncSiblings DEF RunSplit
  <1>4. CASE RunExclusiveChoice(t)
    <2>1. PICK output \in Net[s].cond \union {Net[s].default} : RunSplit(t, <<output>>, 1, 0)
      BY <1>4 DEF RunExclusiveChoice
    <2>2. Kind(s) = "ExclusiveChoice"
      BY <1>4 DEF RunExclusiveChoice, Running
    <2>3. output \in Specs
      BY <1>1, <2>2, ChosenIsOutput
    <2> HIDE DEF s
    <2>4. Gapped(<<output>>, 1) /\ Distinct(<<output>>)
      BY <2>3 DEF Gapped, Distinct
    <2> QED
      BY <2>1, <2>4, RunSyncSiblings DEF RunSplit, s
  <1> QED
    BY <1>2, <1>3, <1>4

LEMMA ThreadStartSiblings ==
  ASSUME IInv, SiblingsDiffer(tasks), NEW t \in DOMAIN tasks, RunThreadStart(t)
  PROVE  SiblingsDiffer(tasks')
  <1> DEFINE T    == AssignThread(tasks, t, threads + 1)
             outs == Outputs(tasks[t].spec)
  <1>1. Tree(tasks, Specs) /\ threads \in Nat /\ threads + 1 \in Nat /\ tasks[t].spec \in Specs
    BY IInvSplit, StateTyped DEF OthersTyped
  <1>2. /\ Tree(T, Specs) /\ DOMAIN T = DOMAIN tasks
        /\ \A d \in DOMAIN tasks : T[d].spec = tasks[d].spec
    BY <1>1, AssignThreadTree
  <1>3. /\ Gapped(outs, Len(outs)) /\ Distinct(outs) /\ Len(outs) \in Nat /\ "READY" \in ANY
    BY <1>1, OutputsGapped, OutputsDistinct, MasksTyped DEF Gapped
  <1>4. tasks' = SetState(T, {t}, "ERROR") \/ tasks' = SyncChildren(T, t, outs, Len(outs), "READY")
    BY DEF RunThreadStart
  <1> HIDE DEF T, outs
  <1>5. SiblingsDiffer(T)
    BY <1>2, LessSiblings DEF SameSpecs
  <1> QED
    BY <1>2, <1>3, <1>4, <1>5, SetSiblings, SyncSiblings

LEMMA RunsSiblings == ASSUME IInv, SiblingsDiffer(tasks), Run PROVE SiblingsDiffer(tasks')
  <1>1. PICK t \in DOMAIN tasks : RunTask(t)
    BY DEF Run
  <1>2. CASE RunSimple(t) \/ RunCancelTask(t)
    BY <1>2 DEF RunSimple, RunCancelTask
  <1>3. CASE RunFails(t) \/ RunReleaseMutex(t)
    BY <1>3, RunRaisesSiblings DEF RunFails, RunReleaseMutex
  <1>4. CASE RunCancel(t)
    BY <1>4, IInvSplit, CancelBranchShrunk, ShrunkSame, SameSiblings DEF RunCancel
  <1> QED
    BY <1>1, <1>2, <1>3, <1>4, RunSplitSiblings, ThreadStartSiblings DEF RunTask

LEMMA ResetSiblings == ASSUME IInv, SiblingsDiffer(tasks), OrderlyReset PROVE SiblingsDiffer(tasks')
  <1>1. PICK t \in DOMAIN tasks : GoBack(t)
    BY OrderlyResetGoesBack
  <1> DEFINE pruned == RemoveBranches(tasks, Children(tasks, t))
             bare   == SetState(pruned, {t}, "FUTURE")
  <1>2. /\ Tree(pruned, Specs) /\ Shrunk(tasks, pruned)
        /\ Tree(bare, Specs) /\ t \in DOMAIN bare /\ bare[t].state = "FUTURE"
    BY <1>1, ResetParts
  <1>3. PICK n \in Nat : tasks' = PredictHook(bare, t, n)
    BY <1>1, ResetParts
  <1> HIDE DEF pruned
  <1>4. SiblingsDiffer(pruned)
    BY <1>2, ShrunkSame, SameSiblings
  <1>5. SiblingsDiffer(bare)
    BY <1>2, <1>4, SetSiblings
  <1> HIDE DEF bare
  <1>6. bare[t].state \in EXPECTED
    BY <1>2, StatesDiffer
  <1> QED
    BY <1>2, <1>3, <1>5, <1>6, PredictHookSiblings

\* The root is an instance of the start spec, and the spec of any other task follows its parent's.
FollowsNet(T) ==
    \A d \in DOMAIN T : \/ d = Root /\ T[d].spec = Start
                        \/ d # Root /\ T[d].spec \in Follows(T[Parent(d)].spec)

LEMMA FollowsStays ==
  ASSUME NEW T, NEW U, Tree(T, Specs), Tree(U, Specs), ByNet(T, U), FollowsNet(T)
  PROVE  FollowsNet(U)
  <1> SUFFICES ASSUME NEW d \in DOMAIN U
               PROVE  \/ d = Root /\ U[d].spec = Start
                      \/ d # Root /\ U[d].spec \in Follows(U[Parent(d)].spec)
    BY DEF FollowsNet
  <1>1. d # Root => Parent(d) \in DOMAIN U
    BY ParentLive
  <1>2. CASE d \in DOMAIN T
    <2>1. d # Root => Parent(d) \in DOMAIN T
      BY <1>2, ParentLive
    <2> QED
      BY <1>1, <1>2, <2>1 DEF FollowsNet, ByNet, SameSpecs
  <1>3. CASE d \notin DOMAIN T
    BY <1>1, <1>3 DEF ByNet, SameSpecs
  <1> QED
    BY <1>2, <1>3

\* The tree is made of what the net says, and of each output once.
ShapeInv == FollowsNet(tasks) /\ SiblingsDiffer(tasks)

LEMMA InitShape == ASSUME Init PROVE ShapeInv
  <1>1. DOMAIN tasks = {Root} /\ tasks[Root].spec = Start
    BY DEF Init
  <1> QED
    BY <1>1 DEF ShapeInv, FollowsNet, SiblingsDiffer, Children

LEMMA NextShape == ASSUME IInv, ReachInv, ShapeInv, [OrderlyNext]_vars PROVE ShapeInv'
  <1>1. IInv' /\ Tree(tasks, Specs) /\ Tree(tasks', Specs)
    BY OrderlyIInv, IInvSplit, IInvSplitPrime
  <1>2. FollowsNet(tasks')
    BY <1>1, NextByNet, FollowsStays DEF StepByNet, ShapeInv
  <1>3. SiblingsDiffer(tasks) /\ (UNCHANGED tasks => SiblingsDiffer(tasks'))
    BY DEF ShapeInv
  <1>4. UpdateWaitingTasks \/ UNCHANGED vars => SiblingsDiffer(tasks')
    BY <1>3 DEF UpdateWaitingTasks, vars
  <1>5. Cancel => SiblingsDiffer(tasks')
    BY <1>1, <1>3, CancelBranchShrunk, ShrunkSame, SameSiblings DEF Cancel
  <1>6. SiblingsDiffer(tasks')
    BY <1>3, <1>4, <1>5, StepsSiblings, RunsSiblings, ResetSiblings DEF OrderlyNext
  <1> QED
    BY <1>2, <1>6 DEF ShapeInv

-----------------------------------------------------------------------------
(* In such a net, a task that has been completed is the only one of its    *)
(* spec in its thread; so those that a join counts are of different inputs.*)

LEMMA CompletedOnce ==
  ASSUME NEW T, Tree(T, Specs), Reach(T), TreePasses(T), FollowsNet(T), SiblingsDiffer(T),
         NEW n \in Nat, Threaded(T, n),
         \A a \in DOMAIN T : IsHead(T, a) /\ T[a].state = "COMPLETED" => a \in Owners(T),
         NEW single, InputsOnce(single),
         NEW x \in DOMAIN T, T[x].state = "COMPLETED", T[x].spec \in single,
         NEW y \in DOMAIN T, T[y].state = "COMPLETED", T[y].spec = T[x].spec,
         T[y].thread = T[x].thread
  PROVE  x = y
  <1> DEFINE Twin(d, e) == /\ T[d].state = "COMPLETED" /\ T[e].state = "COMPLETED"
                           /\ T[d].spec \in single /\ T[e].spec = T[d].spec
                           /\ T[e].thread = T[d].thread /\ d # e
             twins == {d \in DOMAIN T : \E e \in DOMAIN T : Twin(d, e)}
  <1> SUFFICES ASSUME x # y PROVE FALSE
    OBVIOUS
  <1>1. twins \in SUBSET Path /\ twins # {}
    <2>1. \A d \in DOMAIN T : d \in Path
      BY StateTyped
    <2>2. x \in twins
      OBVIOUS
    <2> QED
      BY <2>1, <2>2
  <1>2. PICK d \in twins : \A u \in twins : ~Above(u, d)
    <2> HIDE DEF twins
    <2> QED
      BY <1>1, TopmostExists
  <1>3. PICK e \in DOMAIN T : Twin(d, e)
    BY <1>2
  <1> DEFINE s == T[d].spec
  <1>4. /\ d \in DOMAIN T /\ e \in DOMAIN T /\ d # e
        /\ T[d].state = "COMPLETED" /\ T[e].state = "COMPLETED"
        /\ s \in single /\ T[e].spec = s /\ T[e].thread = T[d].thread
    BY <1>2, <1>3
  <1>5. Kind(s) # "ThreadStart"
    <2> SUFFICES ASSUME Kind(s) = "ThreadStart" PROVE FALSE
      OBVIOUS
    <2>1. d \in Owners(T) /\ e \in Owners(T)
      BY <1>4 DEF IsHead
    <2> QED
      BY <1>4, <2>1 DEF Threaded
  <1>6. ASSUME NEW c \in {d, e}, c # Root
        PROVE  /\ Parent(c) \in DOMAIN T /\ T[Parent(c)].spec \in Specs
               /\ s \in Follows(T[Parent(c)].spec)
               /\ Kind(T[Parent(c)].spec) # "Join" => T[Parent(c)].state = "COMPLETED"
               /\ T[Parent(c)].thread = T[d].thread
               /\ Above(Parent(c), c) /\ c \in Children(T, Parent(c))
    <2>1. c \in DOMAIN T /\ T[c].spec = s /\ T[c].state = "COMPLETED" /\ T[c].thread = T[d].thread
      BY <1>4
    <2>2. /\ Parent(c) \in DOMAIN T /\ T[Parent(c)].spec \in Specs
          /\ Parent(c) \in Path /\ c \in Path /\ Above(Parent(c), c)
      BY <1>6, <2>1, ParentLive, StateTyped, AboveParent
    <2>3. s \in Follows(T[Parent(c)].spec)
      BY <1>6, <2>1 DEF FollowsNet
    <2>4. T[Parent(c)].state \in FINISHED /\ ~Dead(T, Parent(c))
      BY <2>1, <2>2 DEF Reach, REACHED, Attached, TreePasses, Unbarred
    <2>5. Kind(T[Parent(c)].spec) # "Join" => T[Parent(c)].state = "COMPLETED"
      BY <2>4, StatesDiffer DEF Dead
    <2>6. c \notin Owners(T)
      BY <1>5, <2>1 DEF Threaded, IsHead
    <2>7. T[Parent(c)].thread = T[d].thread
      BY <1>6, <2>1, <2>6 DEF Owners, Given
    <2> QED
      BY <1>6, <2>1, <2>2, <2>3, <2>5, <2>7 DEF Children
  <1>7. \/ d # Root /\ e # Root
        \/ s = Start /\ \E c \in {d, e} : c # Root
    BY <1>4 DEF FollowsNet
  <1>8. CASE s = Start /\ \A q \in Specs : s \notin Follows(q)
    BY <1>6, <1>7, <1>8
  <1>9. CASE s # Start /\ \E p \in single : /\ ~IsMultiple(p)
                                            /\ \A q \in Specs : s \in Follows(q) => q = p
    <2>1. PICK p \in single : ~IsMultiple(p) /\ \A q \in Specs : s \in Follows(q) => q = p
      BY <1>9
    <2>2. Kind(p) # "Join"
      BY DEF InputsOnce
    <2>3. /\ Parent(d) \in DOMAIN T /\ T[Parent(d)].spec = p /\ T[Parent(d)].state = "COMPLETED"
          /\ T[Parent(d)].thread = T[d].thread
          /\ Above(Parent(d), d) /\ d \in Children(T, Parent(d))
      BY <1>6, <1>7, <1>9, <2>1, <2>2
    <2>4. /\ Parent(e) \in DOMAIN T /\ T[Parent(e)].spec = p /\ T[Parent(e)].state = "COMPLETED"
          /\ T[Parent(e)].thread = T[d].thread
          /\ e \in Children(T, Parent(e))
      BY <1>6, <1>7, <1>9, <2>1, <2>2
    <2>5. Parent(d) = Parent(e)
      <3> SUFFICES ASSUME Parent(d) # Parent(e) PROVE FALSE
        OBVIOUS
      <3>1. Twin(Parent(d), Parent(e))
        BY <2>1, <2>3, <2>4
      <3>2. Parent(d) \in twins
        BY <2>3, <2>4, <3>1
      <3> HIDE DEF twins
      <3> QED
        BY <1>2, <2>3, <3>2
    <2> QED
      BY <1>4, <2>1, <2>3, <2>4, <2>5 DEF SiblingsDiffer
  <1> QED
    BY <1>4, <1>5, <1>8, <1>9 DEF InputsOnce, ComesOnce

\* The inputs of a join of which a task has been completed in its thread.
ServedIn(T, j) ==
    {i \in DOMAIN Inputs(T[j].spec) :
        \E d \in Instances(T, j, Inputs(T[j].spec)[i]) : In(T, d, {"COMPLETED"})}

Supplied(T, j) == Cardinality(ServedIn(T, j)) >= Threshold(T, j)

LEMMA ServedFinite ==
  ASSUME NEW T, Tree(T, Specs), NEW j \in DOMAIN T, Unstructured(T, j)
  PROVE  /\ IsFiniteSet(ServedIn(T, j)) /\ Cardinality(ServedIn(T, j)) \in Nat
         /\ Threshold(T, j) \in Nat
  <1>1. T[j].spec \in Specs
    BY StateTyped
  <1>2. /\ Inputs(T[j].spec) \in Seq(Specs) /\ Len(Inputs(T[j].spec)) \in Nat
        /\ DOMAIN Inputs(T[j].spec) = 1..Len(Inputs(T[j].spec))
    BY <1>1, NetTyped
  <1>3. Net[T[j].spec].threshold \in Nat
    BY <1>1, NetAssumption DEF SpecRecord
  <1>4. IsFiniteSet(DOMAIN Inputs(T[j].spec)) /\ ServedIn(T, j) \in SUBSET DOMAIN Inputs(T[j].spec)
    <2>1. IsFiniteSet(1..Len(Inputs(T[j].spec)))
      BY <1>2, FS_Interval
    <2> QED
      BY <1>2, <2>1 DEF ServedIn
  <1>5. IsFiniteSet(ServedIn(T, j)) /\ Cardinality(ServedIn(T, j)) \in Nat
    BY <1>4, FS_Subset, FS_CardinalityType
  <1> QED
    BY <1>2, <1>3, <1>5 DEF Threshold

LEMMA FiresSupplied ==
  ASSUME NEW T, Tree(T, Specs), Reach(T), TreePasses(T), FollowsNet(T), SiblingsDiffer(T),
         NEW n \in Nat, Threaded(T, n),
         \A a \in DOMAIN T : IsHead(T, a) /\ T[a].state = "COMPLETED" => a \in Owners(T),
         NEW single, InputsOnce(single),
         NEW j \in DOMAIN T, Kind(T[j].spec) = "Join", Unstructured(T, j),
         Attached(T, j), Unbarred(T, j), MayFire(T, j)
  PROVE  Supplied(T, j)
  <1> DEFINE ins   == Inputs(T[j].spec)
             count == CompletedInputs(T, j)
             place == [d \in count |-> CHOOSE i \in DOMAIN ins : ins[i] = T[d].spec]
  <1>1. T[j].spec \in Specs /\ j \in Path
    BY StateTyped
  <1>2. \A i \in DOMAIN ins : ins[i] \in single
    BY <1>1 DEF InputsOnce, Unstructured
  <1>3. ASSUME NEW d \in count
        PROVE  /\ d \in DOMAIN T /\ T[d].thread = T[j].thread
               /\ \E i \in DOMAIN ins : ins[i] = T[d].spec
               /\ T[d].state = "COMPLETED"
    <2>1. /\ d \in DOMAIN T /\ T[d].thread = T[j].thread
          /\ \E i \in DOMAIN ins : ins[i] = T[d].spec
          /\ d = Root \/ T[d].state = "COMPLETED"
      BY <1>3 DEF CompletedInputs, InputTasks, Instances, OfSpec, In
    <2>2. CASE d = Root
      <3>1. T[Root].spec = Start /\ Kind(Start) = "Simple"
        BY <2>1, <2>2, NetAssumption DEF FollowsNet, Kind
      <3>2. Root # j
        BY <3>1
      <3>3. Above(Root, j)
        BY <1>1, <3>2, RootOnTop
      <3>4. T[Root].state \in FINISHED /\ ~Dead(T, Root)
        BY <2>1, <2>2, <3>3 DEF Attached, Unbarred
      <3>5. T[Root].state = "COMPLETED"
        BY <3>1, <3>4, StatesDiffer DEF Dead
      <3> QED
        BY <2>1, <2>2, <3>5
    <2> QED
      BY <2>1, <2>2
  <1> HIDE DEF count
  <1>4. ASSUME NEW d \in count
        PROVE  place[d] \in ServedIn(T, j) /\ ins[place[d]] = T[d].spec
    <2>1. place[d] \in DOMAIN ins /\ ins[place[d]] = T[d].spec
      BY <1>3
    <2>2. d \in Instances(T, j, ins[place[d]]) /\ In(T, d, {"COMPLETED"})
      BY <1>3, <2>1 DEF Instances, OfSpec, In
    <2> HIDE DEF place
    <2> QED
      BY <2>1, <2>2 DEF ServedIn
  <1>5. ASSUME NEW d \in count, NEW e \in count, place[d] = place[e] PROVE d = e
    <2>1. T[d].spec = T[e].spec
      BY <1>4, <1>5
    <2>2. T[d].spec \in single
      BY <1>2, <1>3
    <2>3. /\ d \in DOMAIN T /\ e \in DOMAIN T /\ T[d].thread = T[e].thread
          /\ T[d].state = "COMPLETED" /\ T[e].state = "COMPLETED"
      BY <1>3
    <2> HIDE DEF place
    <2> QED
      BY <2>1, <2>2, <2>3, CompletedOnce
  <1>6. place \in Injection(count, ServedIn(T, j))
    BY <1>4, <1>5 DEF Injection, IsInjective
  <1>7. Cardinality(count) <= Cardinality(ServedIn(T, j)) /\ IsFiniteSet(count)
    <2> HIDE DEF place
    <2> QED
      BY <1>6, ServedFinite, FS_Injection
  <1>8. Cardinality(count) \in Nat
    BY <1>7, FS_CardinalityType
  <1>9. Cardinality(count) >= Threshold(T, j)
    BY DEF MayFire, count
  <1> QED
    BY <1>7, <1>8, <1>9, ServedFinite DEF Supplied

-----------------------------------------------------------------------------
(* What a join had when it was to fire, it keeps.                          *)

LEMMA SuppliedStays ==
  ASSUME NEW T, Tree(T, Specs), NEW U, SameSpecs(T, U), Keeps(T, U),
         NEW j \in DOMAIN T \intersect DOMAIN U, U[j].thread = T[j].thread,
         \A d \in DOMAIN T \intersect DOMAIN U :
            T[d].state = "COMPLETED" => U[d].thread = T[d].thread,
         \A i \in DOMAIN Inputs(T[j].spec) : Kind(Inputs(T[j].spec)[i]) # "Join",
         Tree(U, Specs), Unstructured(T, j), Supplied(T, j)
  PROVE  Supplied(U, j)
  <1>1. U[j].spec = T[j].spec /\ Unstructured(U, j) /\ Threshold(U, j) = Threshold(T, j)
    BY DEF SameSpecs, Unstructured, Threshold
  <1>2. ASSUME NEW i \in ServedIn(T, j) PROVE i \in ServedIn(U, j)
    <2>1. i \in DOMAIN Inputs(T[j].spec)
      BY DEF ServedIn
    <2>2. PICK d \in DOMAIN T : /\ T[d].spec = Inputs(T[j].spec)[i]
                                /\ T[d].thread = T[j].thread /\ T[d].state = "COMPLETED"
      BY DEF ServedIn, Instances, OfSpec, In
    <2>3. d \in DOMAIN U /\ U[d].state = "COMPLETED"
      BY <2>1, <2>2 DEF Keeps
    <2>4. U[d].spec = T[d].spec /\ U[d].thread = T[d].thread
      BY <2>2, <2>3 DEF SameSpecs
    <2> QED
      BY <1>1, <2>1, <2>2, <2>3, <2>4 DEF ServedIn, Instances, OfSpec, In
  <1>3. ServedIn(T, j) \in SUBSET ServedIn(U, j)
    BY <1>2
  <1>4. Cardinality(ServedIn(T, j)) <= Cardinality(ServedIn(U, j))
    BY <1>1, <1>3, ServedFinite, FS_Subset
  <1> QED
    BY <1>1, <1>4, ServedFinite DEF Supplied

\* The unstructured joins that fire, have fired, or are about to.
Firing(c) == {c[i].task : i \in {k \in DOMAIN c : c[k].op = "join"}}

Decided(T, c) ==
    {j \in DOMAIN T : /\ Kind(T[j].spec) = "Join" /\ Unstructured(T, j)
                      /\ T[j].state \in {"READY", "COMPLETED"} \/ j \in Firing(c)}

\* The inductive invariant, with IInv, ReachInv, Passes, ThreadInv and ShapeInv.
SupplyInv == resets = 0 => \A j \in Decided(tasks, calls) : Supplied(tasks, j)

LEMMA NoJoinFiring == ASSUME NEW c, NoJoins(c) PROVE Firing(c) = {}
  BY DEF NoJoins, Firing

LEMMA FiringConcat ==
  ASSUME NEW a \in Seq(FrameType), NEW b \in Seq(FrameType)
  PROVE  Firing(a \o b) \subseteq Firing(a) \union Firing(b)
  BY ConcatFrames DEF Firing

LEMMA FiringTail ==
  ASSUME NEW c \in Seq(FrameType), c # <<>>
  PROVE  Tail(c) \in Seq(FrameType) /\ Firing(Tail(c)) \subseteq Firing(c)
  <1> DEFINE rest == Tail(c)
  <1>1. /\ rest \in Seq(FrameType) /\ Len(rest) = Len(c) - 1
        /\ \A i \in 1..Len(rest) : rest[i] = c[i + 1]
        /\ Len(c) \in Nat \ {0} /\ Len(rest) \in Nat
    BY HeadTailProperties, LenProperties
  <1>2. DOMAIN c = 1..Len(c) /\ DOMAIN rest = 1..Len(rest)
    BY <1>1, LenProperties
  <1> HIDE DEF rest
  <1>3. \A i \in DOMAIN rest : i + 1 \in DOMAIN c /\ rest[i] = c[i + 1]
    BY <1>1, <1>2
  <1>4. Firing(rest) \subseteq Firing(c)
    BY <1>3 DEF Firing
  <1> QED
    BY <1>1, <1>4 DEF rest

LEMMA CancelFires == ASSUME IInv, CancelNext PROVE Firing(calls') \subseteq Firing(calls)
  <1>1. /\ calls # <<>> /\ Top.op = "cancel" /\ Top \in FrameType /\ Top.todo \in SUBSET Path
        /\ calls \in Seq(FrameType)
    BY IInvSplit, StackTyped DEF CancelNext, Doing, Top
  <1>2. Tail(calls) \in Seq(FrameType) /\ Firing(Tail(calls)) \subseteq Firing(calls)
    BY <1>1, FiringTail
  <1>3. ASSUME NEW S \in SUBSET Path, CallWith(<<>>, S)
        PROVE  Firing(calls') \subseteq Firing(calls)
    <2> DEFINE frame == [Top EXCEPT !.todo = S]
               again == IF S = {} THEN <<>> ELSE <<frame>>
    <2>1. frame \in FrameType /\ frame.op = "cancel"
      BY <1>1, <1>3 DEF FrameType
    <2>2. calls' = (<<>> \o again) \o Tail(calls)
      BY <1>3 DEF CallWith
    <2> HIDE DEF frame
    <2>3. again \in Seq(FrameType) /\ <<>> \o again = again
      BY <2>1
    <2>4. Firing(again) = {}
      BY <2>1 DEF Firing
    <2> HIDE DEF again
    <2>5. Firing(again \o Tail(calls)) \subseteq Firing(again) \union Firing(Tail(calls))
      BY <1>2, <2>3, FiringConcat
    <2> QED
      BY <1>2, <2>2, <2>3, <2>4, <2>5
  <1>4. Return \/ \E S \in SUBSET Path : CallWith(<<>>, S)
    BY <1>1 DEF CancelNext
  <1> QED
    BY <1>2, <1>3, <1>4 DEF Return

\* A join is put on the stack by the update that lets it fire.
Decides(j) ==
    /\ UNCHANGED tasks
    /\ j \in DOMAIN tasks /\ Kind(tasks[j].spec) = "Join"
    /\ tasks[j].state = "READY" \/ MayFire(tasks, j)
    /\ LiveIn(tasks, j, NOT_FINISHED) /\ PassOK(tasks, Top) /\ Top.task = j /\ Reach(tasks)
    /\ Top.op = "hook"

LEMMA StepDecides ==
  ASSUME IInv, ReachInv, PassInv, Step
  PROVE  \/ Firing(calls') \subseteq Firing(calls)
         \/ Firing(calls') \subseteq {Top.task} /\ Decides(Top.task)
  <1>1. CASE ~UpdateJoin /\ ~CancelNext
    <2>1. calls # <<>>
      BY <1>1, StepPushes
    <2>2. Top.op # "cancel"
      BY <1>1
      DEF Step, Predict, UpdateSimple, UpdateFails, UpdateExecute, UpdateGate, UpdateAcquire, Hook,
          JoinFires, CompleteTask, ChildrenNext, VisitNext, Finish, Doing, Top
    <2>3. CASE Raise
      BY <2>3 DEF Raise, Firing
    <2>4. CASE PushesNoJoin
      <3>1. PICK frames \in Seq(FrameType) : NoJoins(frames) /\ calls' = frames \o Tail(calls)
        BY <2>4 DEF PushesNoJoin
      <3>2. Tail(calls) \in Seq(FrameType) /\ NoJoins(Tail(calls))
        BY <2>1, <2>2, NoJoinsRest
      <3>3. NoJoins(calls')
        BY <3>1, <3>2, NoJoinsConcat
      <3> QED
        BY <3>3, NoJoinFiring
    <2> QED
      BY <1>1, <2>3, <2>4, StepPushes
  <1>2. CASE CancelNext
    BY <1>2, CancelFires
  <1>3. CASE UpdateJoin
    <2> DEFINE j       == Top.task
               waiting == WaitingTasks(tasks, j)
               first   == IF Net[tasks[j].spec].cancel
                          THEN [i \in DOMAIN waiting |-> Frame("cancel", j, waiting[i])]
                          ELSE <<>>
               joining == Frame("join", j, {})
               fire    == <<joining>>
               both    == first \o fire
    <2>1. /\ calls # <<>> /\ Top.op = "hook" /\ j \in DOMAIN tasks /\ Kind(tasks[j].spec) = "Join"
          /\ Tree(tasks, Specs) /\ j \in Path /\ Tail(calls) \in Seq(FrameType)
          /\ Reach(tasks) /\ FrameOK(tasks, Top)
      BY <1>3, InProgress, StateTyped DEF UpdateJoin, Hook, Doing, Top
    <2>2. NoJoins(Tail(calls))
      BY <2>1, NoJoinsRest
    <2>3. joining \in FrameType /\ joining.task = j
      BY <2>1, FrameTyped DEF Ops, Frame
    <2>4. first \in Seq(FrameType) /\ \A i \in DOMAIN first : first[i].op = "cancel"
      BY <2>1, WaitingFrames, NoFrame
    <2>5. CASE Return
      BY <2>2, <2>5, NoJoinFiring DEF Return
    <2>6. CASE Raise
      BY <2>6 DEF Raise, Firing
    <2>7. ASSUME ReturnTo(fire) \/ ReturnTo(both), UNCHANGED tasks,
                 tasks[j].state = "READY" \/ MayFire(tasks, j)
          PROVE  Firing(calls') \subseteq {j} /\ Decides(j)
      <3>1. PassOK(tasks, Top)
        <4>1. Top = calls[1] /\ 1 \in DOMAIN calls
          BY <2>1, IInvSplit DEF Top
        <4> QED
          BY <4>1 DEF PassInv, AllPass
      <3>2. Decides(j)
        BY <2>1, <2>7, <3>1 DEF Decides, FrameOK
      <3> HIDE DEF first, joining
      <3>3. fire \in Seq(FrameType) /\ Firing(fire) \subseteq {j}
        BY <2>3 DEF Firing
      <3> HIDE DEF fire
      <3>4. Firing(first) = {} /\ first \in Seq(FrameType)
        BY <2>4 DEF Firing
      <3>5. both \in Seq(FrameType) /\ Firing(both) \subseteq {j}
        BY <3>3, <3>4, ConcatFrames, FiringConcat
      <3> HIDE DEF both
      <3>6. Firing(Tail(calls)) = {}
        BY <2>2, NoJoinFiring
      <3>7. Firing(calls') \subseteq {j}
        BY <2>1, <2>7, <3>3, <3>5, <3>6, FiringConcat DEF ReturnTo
      <3> QED
        BY <3>2, <3>7
    <2>8. \/ Return \/ Raise
          \/ /\ ReturnTo(fire) \/ ReturnTo(both)
             /\ UNCHANGED tasks
             /\ tasks[j].state = "READY" \/ MayFire(tasks, j)
      BY <1>3 DEF UpdateJoin, SetWaiting, In
    <2> QED
      BY <2>5, <2>6, <2>7, <2>8
  <1> QED
    BY <1>1, <1>2, <1>3

\* A join that is put on the stack has been supplied.
NewlyFiring(j) ==
    /\ j \in DOMAIN tasks /\ UNCHANGED tasks
    /\ Unstructured(tasks, j) => Supplied(tasks, j)

\* What has been supplied stays so, when no instance is decided on that was not supplied,
\* and no task that counts gets another thread.
LEMMA SupplyStays ==
  ASSUME Tree(tasks, Specs), Tree(tasks', Specs), FiringInv, SupplyInv, resets = 0,
         NEW single, InputsOnce(single), SameSpecs(tasks, tasks'), Keeps(tasks, tasks'),
         \A j \in Firing(calls') : j \in Firing(calls) \/ NewlyFiring(j),
         FiredIn(tasks') \subseteq FiredIn(tasks) \union Firing(calls),
         \A d \in DOMAIN tasks \intersect DOMAIN tasks' :
            tasks[d].state = "COMPLETED" \/ d \in Decided(tasks, calls) =>
                tasks'[d].thread = tasks[d].thread
  PROVE  SupplyInv'
  <1> SUFFICES ASSUME NEW j \in Decided(tasks', calls')
               PROVE  Supplied(tasks', j)
    BY DEF SupplyInv
  <1>1. /\ j \in DOMAIN tasks' /\ Kind(tasks'[j].spec) = "Join" /\ Unstructured(tasks', j)
        /\ j \in FiredIn(tasks') \union Firing(calls')
    BY DEF Decided, FiredIn, InState, In
  <1>2. j \in FiredIn(tasks) \union Firing(calls) \/ NewlyFiring(j)
    BY <1>1
  <1>3. j \in DOMAIN tasks
    BY <1>2 DEF FiredIn, InState, Firing, FiringInv, NewlyFiring
  <1>4. tasks'[j].spec = tasks[j].spec
    BY <1>1, <1>3 DEF SameSpecs
  <1>5. Kind(tasks[j].spec) = "Join" /\ Unstructured(tasks, j) /\ tasks[j].spec \in Specs
    BY <1>1, <1>3, <1>4, StateTyped DEF Unstructured
  <1>6. j \in Decided(tasks, calls) \/ NewlyFiring(j)
    BY <1>2, <1>3, <1>5 DEF Decided, FiredIn, InState, In
  <1>7. Supplied(tasks, j)
    BY <1>5, <1>6 DEF SupplyInv, NewlyFiring
  <1>8. tasks'[j].thread = tasks[j].thread
    BY <1>1, <1>3, <1>6 DEF NewlyFiring
  <1>9. \A i \in DOMAIN Inputs(tasks[j].spec) : Kind(Inputs(tasks[j].spec)[i]) # "Join"
    BY <1>5 DEF InputsOnce, Unstructured
  <1> QED
    BY <1>1, <1>3, <1>5, <1>7, <1>8, <1>9, SuppliedStays

LEMMA DecidesSupplied ==
  ASSUME IInv, Passes, ThreadInv, ShapeInv, SupplyInv, resets = 0,
         NEW single, InputsOnce(single), NEW j, Decides(j), Unstructured(tasks, j)
  PROVE  Supplied(tasks, j)
  <1>1. Tree(tasks, Specs) /\ threads \in Nat
    BY IInvSplit DEF OthersTyped
  <1>2. j \in DOMAIN tasks /\ Kind(tasks[j].spec) = "Join"
    BY DEF Decides
  <1>3. CASE tasks[j].state = "READY"
    BY <1>2, <1>3 DEF SupplyInv, Decided
  <1>4. CASE MayFire(tasks, j)
    <2>1. Attached(tasks, j) /\ Unbarred(tasks, j) /\ Reach(tasks)
      BY <1>2 DEF Decides, LiveIn, PassOK
    <2>2. \A a \in DOMAIN tasks : IsHead(tasks, a) /\ tasks[a].state = "COMPLETED" => a \in Owners(tasks)
      BY DEF ThreadInv, Begun
    <2>3. /\ Threaded(tasks, threads) /\ TreePasses(tasks)
          /\ FollowsNet(tasks) /\ SiblingsDiffer(tasks)
      BY DEF ThreadInv, Passes, PassInv, ShapeInv
    <2> QED
      BY <1>1, <1>2, <1>4, <2>1, <2>2, <2>3, FiresSupplied
  <1> QED
    BY <1>3, <1>4 DEF Decides

\* The joins that have fired when a step has let none fire, one, or completed one.
LEMMA GentleFired ==
  ASSUME NEW T, NEW U, Gentle(T, U)
  PROVE  FiredIn(U) \subseteq FiredIn(T)
  BY DEF Gentle, Handed, NoneFires, FiredIn, InState, In

LEMMA JoinFiresFired ==
  ASSUME IInv, JoinFires
  PROVE  /\ FiredIn(tasks') \subseteq FiredIn(tasks) \union Firing(calls)
         /\ \A d \in DOMAIN tasks \intersect DOMAIN tasks' : tasks'[d].thread = tasks[d].thread
  <1>1. PICK V : Tree(V, Specs) /\ Same(tasks, V) /\ tasks' = Ready(V, Top.task)
    BY JoinFiresParts
  <1>2. Top.task \in Firing(calls)
    <2>1. Top = calls[1] /\ 1 \in DOMAIN calls /\ Top.op = "join"
      BY IInvSplit DEF JoinFires, Doing, Top
    <2> QED
      BY <2>1 DEF Firing
  <1>3. /\ DOMAIN tasks' = DOMAIN V
        /\ \A d \in DOMAIN V : /\ tasks'[d].spec = V[d].spec /\ tasks'[d].thread = V[d].thread
                               /\ d # Top.task => tasks'[d].state = V[d].state
    BY <1>1, SetStateEffect DEF Ready
  <1>4. \A d \in DOMAIN V : d \in DOMAIN tasks /\ V[d].spec = tasks[d].spec /\ V[d].thread = tasks[d].thread
    BY <1>1 DEF Same
  <1>5. FiredIn(tasks') \subseteq FiredIn(tasks) \union Firing(calls)
    BY <1>1, <1>2, <1>3, <1>4 DEF Same, NoneFires, FiredIn, InState, In
  <1> QED
    BY <1>3, <1>4, <1>5

LEMMA CompleteTaskFired ==
  ASSUME IInv, JoinsComplete, CompleteTask
  PROVE  /\ FiredIn(tasks') \subseteq FiredIn(tasks)
         /\ \A d \in DOMAIN tasks \intersect DOMAIN tasks' : tasks'[d].thread = tasks[d].thread
  <1>1. tasks' = SetState(tasks, {Top.task}, "COMPLETED") /\ Tree(tasks, Specs)
    BY IInvSplit DEF CompleteTask
  <1>2. /\ DOMAIN tasks' = DOMAIN tasks
        /\ \A d \in DOMAIN tasks : /\ tasks'[d].spec = tasks[d].spec
                                   /\ tasks'[d].thread = tasks[d].thread
                                   /\ d # Top.task => tasks'[d].state = tasks[d].state
    BY <1>1, SetStateEffect
  <1>3. Top.task \in Completing(calls)
    <2>1. Top = calls[1] /\ 1 \in DOMAIN calls /\ Top.op = "complete"
      BY IInvSplit DEF CompleteTask, Doing, Top
    <2> QED
      BY <2>1 DEF Completing
  <1>4. Top.task \in DOMAIN tasks /\ Kind(tasks[Top.task].spec) = "Join" => tasks[Top.task].state = "READY"
    BY <1>3 DEF JoinsComplete
  <1> QED
    BY <1>2, <1>4 DEF FiredIn, InState, In

LEMMA StepSupplied ==
  ASSUME IInv, IInv', ReachInv, Passes, ThreadInv, ShapeInv, SupplyInv, resets = 0,
         NEW single, InputsOnce(single), Keeps(tasks, tasks'), Step
  PROVE  SupplyInv'
  <1>1. /\ Tree(tasks, Specs) /\ Tree(tasks', Specs) /\ SameSpecs(tasks, tasks')
        /\ FiringInv /\ JoinsComplete /\ PassInv
    <2>1. StepByNet
      BY NextByNet DEF OrderlyNext
    <2> QED
      BY <2>1, IInvSplit, IInvSplitPrime DEF StepByNet, ByNet, Passes
  <1>2. /\ FiredIn(tasks') \subseteq FiredIn(tasks) \union Firing(calls)
        /\ \A d \in DOMAIN tasks \intersect DOMAIN tasks' : tasks'[d].thread = tasks[d].thread
    <2>1. CASE Gently
      BY <2>1, GentleFired DEF Gently, Gentle, Handed
    <2> QED
      BY <1>1, <2>1, StepGently, JoinFiresFired, CompleteTaskFired
  <1>3. \A j \in Firing(calls') : j \in Firing(calls) \/ NewlyFiring(j)
    <2>1. CASE Firing(calls') \subseteq {Top.task} /\ Decides(Top.task)
      <3>1. Unstructured(tasks, Top.task) => Supplied(tasks, Top.task)
        BY <2>1, DecidesSupplied
      <3> QED
        BY <2>1, <3>1 DEF NewlyFiring, Decides
    <2> QED
      BY <1>1, <2>1, StepDecides
  <1> QED
    BY <1>1, <1>2, <1>3, SupplyStays

\* A run puts no join on the stack, and lets none fire but by the children of a ThreadStart.
LEMMA RunFires == ASSUME IInv, IInv', ReachInv, NEW t \in DOMAIN tasks, RunTask(t)
  PROVE  calls = <<>> /\ Firing(calls') = {}
  <1>1. calls = <<>> /\ t \in Path
    BY IInvSplit, StateTyped
    DEF RunTask, RunSimple, RunFails, RunMultiChoice, RunExclusiveChoice, RunMultiInstance,
        RunThreadSplit, RunThreadStart, RunReleaseMutex, RunCancel, RunCancelTask, Running, Quiescent
  <1>2. CASE UNCHANGED calls
    BY <1>1, <1>2 DEF Firing
  <1>3. ASSUME NEW frames \in Seq(FrameType), RunWith(t, frames),
               \A i \in DOMAIN frames : frames[i].op \in {"predict", "cancel"}
        PROVE  Firing(calls') = {}
    <2> DEFINE f    == Frame("complete", t, {})
               done == <<f>>
    <2>1. f \in FrameType /\ f.op # "join"
      BY <1>1, FrameTyped DEF Ops, Frame
    <2>2. calls' = frames \o done
      BY <1>3 DEF RunWith
    <2> HIDE DEF f
    <2>3. done \in Seq(FrameType) /\ Firing(done) = {}
      BY <2>1 DEF Firing
    <2> HIDE DEF done
    <2>4. Firing(frames) = {}
      BY <1>3 DEF Firing
    <2> QED
      BY <1>3, <2>2, <2>3, <2>4, FiringConcat
  <1> QED
    BY <1>1, <1>2, <1>3, RunsPush DEF RunPushes

LEMMA ThreadStartFired ==
  ASSUME IInv, ReachInv, NEW t \in DOMAIN tasks, RunThreadStart(t), NoneAtThreadStart({"Join"})
  PROVE  /\ FiredIn(tasks') \subseteq FiredIn(tasks)
         /\ \A d \in DOMAIN tasks \intersect DOMAIN tasks' :
               tasks[d].state = "COMPLETED" \/ d \in FiredIn(tasks) =>
                   tasks'[d].thread = tasks[d].thread
  <1> DEFINE T    == AssignThread(tasks, t, threads + 1)
             outs == Outputs(tasks[t].spec)
  <1>1. /\ Tree(tasks, Specs) /\ Reach(tasks) /\ t \in Path /\ tasks[t].spec \in Specs
        /\ tasks[t].state = "READY" /\ Kind(tasks[t].spec) = "ThreadStart"
        /\ threads \in Nat
    BY RunnableReach, IInvSplit, StateTyped DEF RunThreadStart, OthersTyped
  <1>2. /\ Tree(T, Specs) /\ DOMAIN T = DOMAIN tasks
        /\ \A d \in DOMAIN tasks :
              /\ T[d].state = tasks[d].state /\ T[d].spec = tasks[d].spec
              /\ T[d].thread = IF d \in Branch(tasks, t) THEN threads + 1 ELSE tasks[d].thread
    BY <1>1, AssignThreadTree
  <1>3. \/ tasks' = SetState(T, {t}, "ERROR")
        \/ tasks' = SyncChildren(T, t, outs, Len(outs), "READY")
    BY DEF RunThreadStart
  <1> HIDE DEF T
  <1>4. ASSUME NEW d \in Branch(tasks, t)
        PROVE  d \notin FiredIn(tasks) /\ (d \in DOMAIN tasks => tasks[d].state # "COMPLETED")
    <2>1. CASE d = t
      BY <1>1, <2>1, StatesDiffer DEF FiredIn, InState
    <2>2. ASSUME d # t, d \in DOMAIN tasks, tasks[d].state \in {"READY", "COMPLETED"} PROVE FALSE
      <3>1. Above(t, d) /\ tasks[d].state \in REACHED
        BY <1>4, <2>2 DEF Branch, Below, REACHED
      <3>2. tasks[t].state \in FINISHED
        BY <1>1, <2>2, <3>1 DEF Reach, Attached
      <3> QED
        BY <1>1, <3>2, StatesDiffer
    <2> QED
      BY <2>1, <2>2 DEF FiredIn, InState, In
  <1>5. FiredIn(T) = FiredIn(tasks)
    BY <1>2 DEF FiredIn, InState, In
  <1>6. \A d \in DOMAIN tasks : tasks[d].state = "COMPLETED" \/ d \in FiredIn(tasks) =>
                                    T[d].thread = tasks[d].thread
    BY <1>2, <1>4
  <1>7. CASE tasks' = SetState(T, {t}, "ERROR")
    <2>1. Same(T, tasks')
      BY <1>2, <1>7, SetSame
    <2> QED
      BY <1>2, <1>5, <1>6, <2>1, SameGentle, GentleFired DEF Same
  <1>8. CASE tasks' = SyncChildren(T, t, outs, Len(outs), "READY")
    <2>1. Gapped(outs, Len(outs)) /\ Len(outs) \in Nat /\ "READY" \in ANY /\ t \in DOMAIN T
      BY <1>1, <1>2, OutputsGapped, StateTyped, MasksTyped DEF Gapped
    <2>2. Grown(T, tasks', t, {"READY"})
      <3> HIDE DEF outs
      <3> QED
        BY <1>2, <1>8, <2>1, SyncChildrenTree DEF Gapped
    <2>3. ASSUME NEW d \in Children(tasks', t) PROVE Kind(tasks'[d].spec) # "Join"
      <3>1. PICK i \in DOMAIN outs : tasks'[d].spec = outs[i]
        <4> HIDE DEF outs
        <4> QED
          BY <1>2, <1>8, <2>1, <2>3, SyncedAmong
      <3>2. tasks'[d].spec \in Follows(tasks[t].spec)
        BY <3>1 DEF Follows
      <3> QED
        BY <1>1, <3>2 DEF NoneAtThreadStart
    <2>4. \A d \in DOMAIN tasks' \intersect DOMAIN T :
             tasks'[d].spec = T[d].spec /\ tasks'[d].thread = T[d].thread
      BY <2>2 DEF Grown
    <2>5. ASSUME NEW d \in FiredIn(tasks') PROVE d \in FiredIn(T)
      <3>1. d \in DOMAIN tasks' /\ d \notin Children(tasks', t)
        BY <2>3, <2>5 DEF FiredIn, InState
      <3>2. d \in DOMAIN T /\ tasks'[d].state = T[d].state
        BY <2>2, <3>1 DEF Grown, Children
      <3> QED
        BY <2>4, <2>5, <3>1, <3>2 DEF FiredIn, InState, In
    <2> QED
      BY <1>2, <1>5, <1>6, <2>4, <2>5
  <1> QED
    BY <1>3, <1>7, <1>8

LEMMA RunSupplied ==
  ASSUME IInv, IInv', ReachInv, Passes, SupplyInv, resets = 0,
         NEW single, InputsOnce(single), NoneAtThreadStart({"Join"}),
         Keeps(tasks, tasks'), Run
  PROVE  SupplyInv'
  <1>1. PICK t \in DOMAIN tasks : RunTask(t)
    BY DEF Run
  <1>2. /\ Tree(tasks, Specs) /\ Tree(tasks', Specs) /\ SameSpecs(tasks, tasks') /\ FiringInv
    <2>1. StepByNet
      BY NextByNet DEF OrderlyNext
    <2> QED
      BY <2>1, IInvSplit, IInvSplitPrime DEF StepByNet, ByNet, Passes
  <1>3. calls = <<>> /\ Firing(calls') = {} /\ Firing(calls) = {}
    <2>1. Firing(<<>>) = {}
      BY DEF Firing
    <2> QED
      BY <1>1, <2>1, RunFires
  <1>4. Decided(tasks, calls) \subseteq FiredIn(tasks)
    BY <1>3 DEF Decided, FiredIn, InState, In
  <1>5. /\ FiredIn(tasks') \subseteq FiredIn(tasks)
        /\ \A d \in DOMAIN tasks \intersect DOMAIN tasks' :
              tasks[d].state = "COMPLETED" \/ d \in FiredIn(tasks) =>
                  tasks'[d].thread = tasks[d].thread
    <2>1. CASE RunsGently(t)
      BY <2>1, GentleFired DEF RunsGently, Gentle, Handed
    <2> QED
      BY <1>1, <2>1, RunGently, ThreadStartFired
  <1> QED
    BY <1>2, <1>3, <1>4, <1>5, SupplyStays

LEMMA MethodsSupplied ==
  ASSUME IInv, IInv', ReachInv, Passes, SupplyInv, resets = 0,
         NEW single, InputsOnce(single), Keeps(tasks, tasks'), UpdateWaitingTasks \/ Cancel
  PROVE  SupplyInv'
  <1>1. /\ Tree(tasks, Specs) /\ Tree(tasks', Specs) /\ SameSpecs(tasks, tasks') /\ FiringInv
    <2>1. StepByNet
      BY NextByNet DEF OrderlyNext
    <2> QED
      BY <2>1, IInvSplit, IInvSplitPrime DEF StepByNet, ByNet, Passes
  <1>2. /\ FiredIn(tasks') \subseteq FiredIn(tasks)
        /\ \A d \in DOMAIN tasks \intersect DOMAIN tasks' : tasks'[d].thread = tasks[d].thread
    BY MethodsGently, GentleFired DEF Gently, Gentle, Handed
  <1>3. Firing(calls') = {}
    <2>1. CASE UpdateWaitingTasks
      <3>1. calls' = <<Frame("visit", Root, {Root})>>
        BY <2>1 DEF UpdateWaitingTasks
      <3>2. NoJoins(calls')
        BY <3>1 DEF NoJoins, Frame
      <3> QED
        BY <3>2, NoJoinFiring
    <2>2. CASE Cancel
      BY <2>2 DEF Cancel, Quiescent, Firing
    <2> QED
      BY <2>1, <2>2
  <1> QED
    BY <1>1, <1>2, <1>3, SupplyStays

LEMMA InitSupplied == ASSUME Init PROVE SupplyInv
  <1>1. /\ DOMAIN tasks = {Root} /\ tasks[Root].state = "FUTURE"
        /\ calls = <<PredictFrame(Root, {Root}, 0, NOT_FINISHED), Frame("hook", Root, {})>>
    BY DEF Init
  <1>2. NoJoins(calls)
    BY <1>1 DEF NoJoins, PredictFrame, Frame
  <1>3. Firing(calls) = {}
    BY <1>2, NoJoinFiring
  <1> QED
    BY <1>1, <1>3 DEF SupplyInv, Decided

\* What the inputs of a join rely on.
Arranged == Passes /\ ThreadInv /\ ShapeInv

LEMMA NextSupplied ==
  ASSUME IInv, ReachInv, Arranged, SupplyInv, NEW single, InputsOnce(single),
         NoneAtThreadStart({"Join"}), [OrderlyNext]_vars
  PROVE  SupplyInv'
  <1> SUFFICES ASSUME resets' = 0 PROVE SupplyInv'
    BY DEF SupplyInv
  <1>1. resets = 0 /\ resets' = resets /\ IInv'
    BY ResetsCount, OrderlyIsNext, OrderlyIInv, IInvSplit DEF OthersTyped
  <1>2. Passes /\ ThreadInv /\ ShapeInv /\ FiringInv
    BY DEF Arranged, Passes
  <1>3. Keeps(tasks, tasks')
    BY <1>1, <1>2, NextKeeps
  <1>4. CASE Step
    BY <1>1, <1>2, <1>3, <1>4, StepSupplied
  <1>5. CASE Run
    BY <1>1, <1>2, <1>3, <1>5, RunSupplied
  <1>6. CASE UpdateWaitingTasks \/ Cancel
    BY <1>1, <1>2, <1>3, <1>6, MethodsSupplied
  <1>7. CASE UNCHANGED vars
    <2>1. UNCHANGED <<tasks, calls, resets>>
      BY <1>7 DEF vars, counters
    <2> QED
      BY <2>1 DEF SupplyInv
  <1>8. CASE OrderlyReset
    BY <1>1, <1>8, OrderlyResetGoesBack DEF GoBack, counters
  <1> QED
    BY <1>4, <1>5, <1>6, <1>7, <1>8 DEF OrderlyNext

LEMMA NextOrderly ==
  ASSUME IInv, ReachInv, Arranged, [OrderlyNext]_vars
  PROVE  Arranged'
  BY NextKeepsPasses, NextThreads, NextShape DEF Arranged

\* A join that waits for its inputs fires, and is completed, with as many of them completed in
\* its thread as its threshold says, in a net that comes to an input of a join once in a
\* thread: the join counts completed instances of its inputs, not inputs.
THEOREM JoinsHaveInputs ==
  ASSUME NEW CONSTANT single, InputsOnce(single), NoneAtThreadStart({"Join"})
  PROVE  OrderlySpec => [](resets = 0 => JoinHasInputs)
  <1>1. Init => Arranged /\ SupplyInv
    BY InitPass, InitThreads, InitShape, InitSupplied DEF Arranged
  <1>2. IInv /\ ReachInv /\ Arranged /\ SupplyInv /\ [OrderlyNext]_vars => (Arranged /\ SupplyInv)'
    BY NextOrderly, NextSupplied
  <1>3. SupplyInv => (resets = 0 => JoinHasInputs)
    <2> SUFFICES ASSUME SupplyInv, resets = 0, NEW j \in Fired, Unstructured(tasks, j)
                 PROVE  Cardinality({i \in DOMAIN Inputs(tasks[j].spec) :
                                       \E d \in Instances(tasks, j, Inputs(tasks[j].spec)[i]) :
                                           In(tasks, d, {"COMPLETED"})}) >= Threshold(tasks, j)
      BY DEF JoinHasInputs
    <2>1. j \in Decided(tasks, calls)
      BY DEF Fired, Decided, InState, In
    <2>2. Supplied(tasks, j)
      BY <2>1 DEF SupplyInv
    <2> QED
      BY <2>2 DEF Supplied, ServedIn
  <1> QED
    BY <1>1, <1>2, <1>3, ReachAlways, PTL DEF OrderlySpec

-----------------------------------------------------------------------------
(* When a structured join has fired, nothing is left to do before it.      *)

\* The tree is finite; this is as much of it as is needed.
Bounded(T) == \E m \in Nat : \A t \in DOMAIN T : Len(t) <= m

\* Of a set of tasks there is one with none of the others below it.
LEMMA DeepestExists ==
  ASSUME NEW T, Tree(T, Specs), Bounded(T), NEW S \in SUBSET DOMAIN T, S # {}
  PROVE  \E d \in S : \A e \in S : ~Above(d, e)
  <1>1. PICK m \in Nat : \A t \in DOMAIN T : Len(t) <= m
    BY DEF Bounded
  <1> DEFINE heights == {m - Len(t) : t \in S}
             R       == {p \in Nat \X Nat : p[1] < p[2]}
  <1>2. \A t \in S : t \in Path /\ Len(t) \in Nat /\ m - Len(t) \in Nat
    BY <1>1, StateTyped, PathLength
  <1>3. heights \subseteq Nat /\ heights # {}
    BY <1>2
  <1>4. IsWellFoundedOn(R, Nat)
    BY NatLessThanWellFounded, Zenon DEF OpToRel
  <1> HIDE DEF R
  <1>5. PICK n \in heights : \A k \in heights : <<k, n>> \notin R
    <2> HIDE DEF heights
    <2> QED
      BY <1>3, <1>4, WFMin
  <1>6. PICK d \in S : n = m - Len(d)
    OBVIOUS
  <1>7. ASSUME NEW e \in S PROVE ~Above(d, e)
    <2>1. m - Len(e) \in heights /\ m - Len(e) \in Nat /\ n \in Nat
      BY <1>2, <1>6
    <2>2. ~(m - Len(e) < n)
      BY <1>5, <2>1 DEF R
    <2>3. Len(e) \in Nat /\ Len(d) \in Nat
      BY <1>2
    <2> QED
      BY <1>6, <2>2, <2>3 DEF Above
  <1> QED
    BY <1>7

LEMMA BoundedStays ==
  ASSUME NEW T, NEW U, Tree(T, Specs), Tree(U, Specs), ByNet(T, U), Bounded(T)
  PROVE  Bounded(U)
  <1>1. PICK m \in Nat : \A t \in DOMAIN T : Len(t) <= m
    BY DEF Bounded
  <1>2. ASSUME NEW d \in DOMAIN U PROVE Len(d) <= m + 1
    <2>1. d \in Path /\ Len(d) \in Nat
      BY StateTyped, PathLength
    <2>2. CASE d \in DOMAIN T
      BY <1>1, <2>1, <2>2
    <2>3. CASE d \notin DOMAIN T
      <3>1. d # Root /\ Parent(d) \in DOMAIN T
        BY <2>3 DEF ByNet
      <3>2. Len(Parent(d)) <= m /\ Len(Parent(d)) = Len(d) - 1
        BY <1>1, <2>1, <3>1, ParentPath
      <3> QED
        BY <2>1, <3>2
    <2> QED
      BY <2>2, <2>3
  <1> QED
    BY <1>2 DEF Bounded

\* What lies below a task lies in the branch of one of its children.
LEMMA FirstBelow ==
  ASSUME NEW T, Tree(T, Specs), NEW s \in DOMAIN T, NEW d \in Below(T, s)
  PROVE  \E b \in Children(T, s) : d \in Branch(T, b)
  <1> DEFINE S == {x \in DOMAIN T : Above(s, x) /\ (x = d \/ Above(x, d))}
  <1>1. S \in SUBSET Path /\ d \in S /\ s \in Path /\ d \in Path /\ d \in DOMAIN T
    BY StateTyped DEF Below
  <1>2. PICK b \in S : \A x \in S : ~Above(x, b)
    <2> HIDE DEF S
    <2> QED
      BY <1>1, TopmostExists
  <1>3. b \in DOMAIN T /\ b \in Path /\ Above(s, b) /\ (b = d \/ Above(b, d))
    BY <1>1, <1>2
  <1>4. b # Root /\ (s = Parent(b) \/ Above(s, Parent(b)))
    BY <1>1, <1>3, AncestorOrParent
  <1>5. Parent(b) \in DOMAIN T /\ Parent(b) \in Path
    BY <1>3, <1>4, ParentLive
  <1>6. Above(Parent(b), b)
    BY <1>3, <1>4, <1>5, AboveParent
  <1>7. Above(Parent(b), d)
    BY <1>1, <1>3, <1>5, <1>6, AboveTransitive
  <1>8. ~Above(s, Parent(b))
    BY <1>2, <1>5, <1>6, <1>7
  <1> QED
    BY <1>1, <1>3, <1>4, <1>8 DEF Children, Branch, Below

\* The inner specs of the region R of the join J.
Inner(J, R) == R \ {J}

LEMMA RegionSpecs ==
  ASSUME NEW J, NEW R, Region(J, R), NEW s \in Inner(J, R)
  PROVE  /\ s \in Specs /\ s # J /\ s \in R
         /\ Kind(s) \notin {"Join", "ThreadSplit", "ThreadStart"}
         /\ Follows(s) # {} /\ Follows(s) \subseteq R /\ 0 \notin Net[s].times
  BY DEF Region, Inner

\* A task is at the join J of the region that begins at s, or behind it.
AtJoin(T, s, d, J) == \E o \in Below(T, s) : T[o].spec = J /\ (o = d \/ Above(o, d))

\* Below the split are only tasks of the region, up to the join.
LEMMA InsideRegion ==
  ASSUME NEW T, Tree(T, Specs), FollowsNet(T), NEW J, NEW R, Region(J, R),
         NEW s \in DOMAIN T, T[s].spec = Net[J].split, NEW d \in Below(T, s),
         ~AtJoin(T, s, d, J)
  PROVE  T[d].spec \in Inner(J, R)
  <1> DEFINE S == {x \in Below(T, s) : (x = d \/ Above(x, d)) /\ T[x].spec \notin Inner(J, R)}
  <1> SUFFICES ASSUME S # {} PROVE FALSE
    OBVIOUS
  <1>1. S \in SUBSET Path /\ s \in Path /\ d \in Path /\ d \in DOMAIN T
    BY StateTyped DEF Below
  <1>2. PICK x \in S : \A y \in S : ~Above(y, x)
    <2> HIDE DEF S
    <2> QED
      BY <1>1, TopmostExists
  <1>3. /\ x \in DOMAIN T /\ x \in Path /\ Above(s, x) /\ (x = d \/ Above(x, d))
        /\ T[x].spec \notin Inner(J, R)
    BY <1>1, <1>2 DEF Below
  <1>4. x # Root /\ (s = Parent(x) \/ Above(s, Parent(x)))
    BY <1>1, <1>3, AncestorOrParent
  <1>5. Parent(x) \in DOMAIN T /\ Parent(x) \in Path
    BY <1>3, <1>4, ParentLive
  <1>6. Above(Parent(x), x)
    BY <1>3, <1>4, <1>5, AboveParent
  <1>7. Above(Parent(x), d)
    BY <1>1, <1>3, <1>5, <1>6, AboveTransitive
  <1>8. T[x].spec \in Follows(T[Parent(x)].spec)
    BY <1>3, <1>4 DEF FollowsNet
  <1>9. T[x].spec \in R
    <2>1. CASE s = Parent(x)
      BY <1>8, <2>1 DEF Region
    <2>2. CASE Above(s, Parent(x))
      <3>1. T[Parent(x)].spec \in Inner(J, R)
        BY <1>2, <1>5, <1>6, <1>7, <2>2 DEF Below
      <3> QED
        BY <1>8, <3>1, RegionSpecs
    <2> QED
      BY <1>4, <2>1, <2>2
  <1>10. T[x].spec # J
    BY <1>3 DEF AtJoin, Below
  <1> QED
    BY <1>3, <1>9, <1>10 DEF Inner

\* Up to the join all tasks of the region are in the thread of the split.
LEMMA RegionThread ==
  ASSUME NEW T, Tree(T, Specs), FollowsNet(T), NEW n \in Nat, Threaded(T, n),
         NEW J, NEW R, Region(J, R), Kind(J) = "Join",
         NEW s \in DOMAIN T, T[s].spec = Net[J].split,
         NEW o \in Below(T, s), T[o].spec = J,
         \A x \in Below(T, s) : Above(x, o) => T[x].spec # J
  PROVE  T[o].thread = T[s].thread
  <1>1. s \in Path /\ o \in Path /\ o \in DOMAIN T
    BY StateTyped DEF Below
  <1>2. ASSUME NEW b \in Owners(T), Above(s, b), o \in Branch(T, b) PROVE FALSE
    <2>1. b \in DOMAIN T /\ Kind(T[b].spec) = "ThreadStart" /\ b \in Below(T, s) /\ b \in Path
      BY <1>2, StateTyped DEF Threaded, Owners, IsHead, Below
    <2>2. b # o
      BY <2>1
    <2>3. Above(b, o)
      BY <1>2, <2>2 DEF Branch, Below
    <2>4. ~AtJoin(T, s, b, J)
      <3> SUFFICES ASSUME NEW x \in Below(T, s), T[x].spec = J, x = b \/ Above(x, b) PROVE FALSE
        BY DEF AtJoin
      <3>1. x \in Path
        BY StateTyped DEF Below
      <3>2. Above(x, o)
        BY <1>1, <2>1, <2>3, <3>1, AboveTransitive
      <3> QED
        BY <3>2
    <2>5. T[b].spec \in Inner(J, R)
      BY <2>1, <2>4, InsideRegion
    <2> QED
      BY <2>1, <2>5, RegionSpecs
  <1> QED
    BY <1>2, NearestOwner

\* The calls in progress, in whatever order.
Frames(c) == {c[i] : i \in DOMAIN c}

LEMMA StackConcat ==
  ASSUME NEW a \in Seq(FrameType), NEW b \in Seq(FrameType)
  PROVE  Frames(a \o b) = Frames(a) \union Frames(b)
  <1> DEFINE d == a \o b
  <1>1. /\ Len(a) \in Nat /\ Len(b) \in Nat /\ DOMAIN a = 1..Len(a) /\ DOMAIN b = 1..Len(b)
        /\ d \in Seq(FrameType) /\ Len(d) = Len(a) + Len(b)
        /\ \A i \in 1..Len(d) : d[i] = IF i <= Len(a) THEN a[i] ELSE b[i - Len(a)]
    BY ConcatProperties, LenProperties
  <1>2. DOMAIN d = 1..Len(d)
    BY <1>1, LenProperties
  <1> HIDE DEF d
  <1>3. \A i \in DOMAIN a : i \in DOMAIN d /\ d[i] = a[i]
    BY <1>1, <1>2
  <1>4. \A i \in DOMAIN b : i + Len(a) \in DOMAIN d /\ d[i + Len(a)] = b[i]
    BY <1>1, <1>2
  <1>5. \A i \in DOMAIN d : (i \in DOMAIN a /\ d[i] = a[i])
                                \/ (i - Len(a) \in DOMAIN b /\ d[i] = b[i - Len(a)])
    BY <1>1, <1>2
  <1>6. ASSUME NEW f \in Frames(d) PROVE f \in Frames(a) \union Frames(b)
    BY <1>5, <1>6 DEF Frames
  <1>7. ASSUME NEW f \in Frames(a) \union Frames(b) PROVE f \in Frames(d)
    <2>1. CASE f \in Frames(a)
      BY <1>3, <2>1 DEF Frames
    <2>2. CASE f \in Frames(b)
      BY <1>4, <2>2 DEF Frames
    <2> QED
      BY <1>7, <2>1, <2>2
  <1> QED
    BY <1>6, <1>7 DEF d

LEMMA StackTail ==
  ASSUME NEW c \in Seq(FrameType), c # <<>>
  PROVE  Frames(c) = {Head(c)} \union Frames(Tail(c)) /\ Tail(c) \in Seq(FrameType)
  <1> DEFINE rest == Tail(c)
  <1>1. /\ rest \in Seq(FrameType) /\ Len(rest) = Len(c) - 1 /\ Head(c) = c[1]
        /\ \A i \in 1..Len(rest) : rest[i] = c[i + 1]
        /\ Len(c) \in Nat \ {0} /\ Len(rest) \in Nat
    BY HeadTailProperties, LenProperties
  <1>2. DOMAIN c = 1..Len(c) /\ DOMAIN rest = 1..Len(rest)
    BY <1>1, LenProperties
  <1> HIDE DEF rest
  <1>3. \A i \in DOMAIN rest : i + 1 \in DOMAIN c /\ rest[i] = c[i + 1]
    BY <1>1, <1>2
  <1>4. \A i \in DOMAIN c : i = 1 \/ (i - 1 \in DOMAIN rest /\ rest[i - 1] = c[i])
    BY <1>1, <1>2
  <1>5. 1 \in DOMAIN c
    BY <1>1, <1>2
  <1>6. ASSUME NEW f \in Frames(c) PROVE f = Head(c) \/ f \in Frames(rest)
    BY <1>1, <1>4, <1>6 DEF Frames
  <1>7. ASSUME NEW f, f = Head(c) \/ f \in Frames(rest) PROVE f \in Frames(c)
    BY <1>1, <1>3, <1>5, <1>7 DEF Frames
  <1> QED
    BY <1>1, <1>6, <1>7 DEF rest

LEMMA StackNone == Frames(<<>>) = {} /\ \A f : Frames(<<f>>) = {f}
  BY DEF Frames

\* Of two tasks above the same one, or that task, the one that is higher is above the other.
LEMMA Comparable ==
  ASSUME NEW a \in Path, NEW b \in Path, NEW d \in Path,
         a = d \/ Above(a, d), b = d \/ Above(b, d), Len(a) <= Len(b)
  PROVE  a = b \/ Above(a, b)
  <1>1. Len(a) \in Nat /\ Len(b) \in Nat /\ Len(d) \in Nat
    BY PathLength
  <1>2. Len(b) <= Len(d) /\ \A i \in 1..Len(b) : b[i] = d[i]
    BY <1>1 DEF Above
  <1>3. \A i \in 1..Len(a) : a[i] = d[i]
    BY <1>1 DEF Above
  <1>4. \A i \in 1..Len(a) : a[i] = b[i]
    BY <1>1, <1>2, <1>3
  <1>5. CASE Len(a) < Len(b)
    BY <1>4, <1>5 DEF Above
  <1>6. CASE Len(a) = Len(b)
    BY <1>1, <1>4, <1>6, SeqEqual DEF Path
  <1> QED
    BY <1>1, <1>5, <1>6

\* What a child of the split has below it is all that lies below the split towards there.
LEMMA TowardsBranch ==
  ASSUME NEW T, Tree(T, Specs), NEW s \in DOMAIN T, NEW b \in Children(T, s),
         NEW d \in Branch(T, b), NEW o \in Below(T, s), o = d \/ Above(o, d)
  PROVE  o \in Branch(T, b)
  <1>1. /\ b \in DOMAIN T /\ b \in Path /\ b # Root /\ Parent(b) = s
        /\ o \in DOMAIN T /\ o \in Path /\ Above(s, o)
        /\ d \in DOMAIN T /\ d \in Path /\ (b = d \/ Above(b, d))
    BY StateTyped DEF Children, Below, Branch
  <1>2. Len(s) \in Nat /\ Len(b) \in Nat /\ Len(o) \in Nat
    BY <1>1, StateTyped, PathLength
  <1>3. Len(s) = Len(b) - 1 /\ Len(s) < Len(o)
    BY <1>1, ParentPath DEF Above
  <1>4. b = o \/ Above(b, o)
    BY <1>1, <1>2, <1>3, Comparable
  <1> QED
    BY <1>1, <1>4 DEF Branch, Below

LEMMA SplitParts ==
  ASSUME NEW T, Tree(T, Specs), NEW j \in DOMAIN T, NEW s \in SplitTask(T, j)
  PROVE  /\ s \in DOMAIN T /\ T[s].spec = Net[T[j].spec].split /\ Above(s, j) /\ j \in Below(T, s)
         /\ SplitTask(T, j) = {s}
  <1>1. s \in DOMAIN T /\ T[s].spec = Net[T[j].spec].split /\ Above(s, j)
    BY DEF SplitTask, Nearest, OfSpec
  <1>2. ASSUME NEW r \in SplitTask(T, j) PROVE r = s
    <2>1. r \in DOMAIN T /\ Above(r, j) /\ Len(r) <= Len(s) /\ Len(s) <= Len(r)
      BY <1>2 DEF SplitTask, Nearest, OfSpec
    <2>2. r \in Path /\ s \in Path /\ j \in Path /\ Len(r) \in Nat /\ Len(s) \in Nat
      BY <1>1, <2>1, StateTyped, PathLength
    <2>3. r = s \/ Above(r, s)
      BY <1>1, <2>1, <2>2, Comparable
    <2> QED
      BY <2>1, <2>2, <2>3 DEF Above
  <1> QED
    BY <1>1, <1>2 DEF Below

-----------------------------------------------------------------------------
(* A branch of a region that is not complete has something to do.          *)

\* What an unfinished task of the region leads to is unfinished too, up to the join: it can
\* neither have been run nor been cancelled before.
LiveBelow(T, J, R) ==
    \A d \in DOMAIN T : T[d].state \in NOT_FINISHED /\ T[d].spec \in Inner(J, R) =>
        \A c \in Children(T, d) : T[c].state \in NOT_FINISHED \/ T[c].spec = J

\* The tasks whose update hook is being called, and those that are to be predicted.
Hooked(c, d)      == \E f \in Frames(c) : f.op = "hook" /\ f.task = d
Foreseen(T, c, d) == \E f \in Frames(c) : f.op = "predict" /\ d \in f.todo /\ T[d].state \in f.mask

\* Every definite task of the region has children, or is about to get them.
Awaited(T, c, d) == \/ T[d].state \in DEFINITE
                    \/ T[d].state \in NOT_FINISHED /\ Hooked(c, d)
Founded(T, c, d) == Children(T, d) # {} \/ Foreseen(T, c, d) \/ d \in Completing(c)
GoesDown(T, c, J, R) ==
    \A d \in DOMAIN T : T[d].spec \in Inner(J, R) /\ Awaited(T, c, d) => Founded(T, c, d)

\* In a branch that may not come to the join any more nothing is unfinished.
LEMMA DeadBranch ==
  ASSUME NEW T, Tree(T, Specs), Bounded(T), FollowsNet(T), NEW J, NEW R, Region(J, R),
         NEW s \in DOMAIN T, T[s].spec = Net[J].split, NEW b \in Children(T, s),
         ~BranchMayMerge(T, b, J), LiveBelow(T, J, R),
         NEW c, GoesDown(T, c, J, R), \A f \in Frames(c) : f.op \notin {"predict", "complete"},
         NEW e \in Branch(T, b)
  PROVE  T[e].state \notin NOT_FINISHED
  <1> DEFINE S == {d \in Branch(T, b) : T[d].state \in NOT_FINISHED}
  <1> SUFFICES ASSUME S # {} PROVE FALSE
    OBVIOUS
  <1>1. /\ b \in DOMAIN T /\ b \in Path /\ s \in Path /\ Above(s, b)
        /\ Branch(T, b) \subseteq DOMAIN T
    <2>1. b \in DOMAIN T /\ b # Root /\ Parent(b) = s
      BY DEF Children
    <2> QED
      BY <2>1, StateTyped, AboveParent DEF Branch, Below
  <1>2. PICK d \in S : \A x \in S : ~Above(d, x)
    <2>1. S \in SUBSET DOMAIN T
      BY <1>1
    <2> HIDE DEF S
    <2> QED
      BY <2>1, DeepestExists
  <1>3. d \in DOMAIN T /\ d \in Path /\ d \in Branch(T, b) /\ T[d].state \in NOT_FINISHED
    BY <1>1, <1>2, StateTyped
  <1>4. d \in Below(T, s)
    <2>1. b = d \/ Above(b, d)
      BY <1>3 DEF Branch, Below
    <2> QED
      BY <1>1, <1>3, <2>1, AboveTransitive DEF Below
  <1>5. \A x \in Branch(T, b) : T[x].spec # J
    BY DEF BranchMayMerge
  <1>6. ~AtJoin(T, s, d, J)
    BY <1>3, <1>5, TowardsBranch DEF AtJoin
  <1>7. T[d].spec \in Inner(J, R)
    BY <1>4, <1>6, InsideRegion
  <1>8. Children(T, d) # {}
    <2>1. CASE T[d].state \in DEFINITE
      <3>1. Founded(T, c, d)
        BY <1>3, <1>7, <2>1 DEF GoesDown, Awaited
      <3> QED
        BY <3>1 DEF Founded, Foreseen, Completing, Frames
    <2>2. CASE T[d].state \in PREDICTED
      <3> SUFFICES ASSUME Children(T, d) = {} PROVE FALSE
        OBVIOUS
      <3>1. Cardinality(Children(T, d)) = 0
        BY FS_EmptySet
      <3>2. ~(Len(Outputs(T[d].spec)) > 0)
        BY <1>3, <2>2, <3>1 DEF BranchMayMerge, In
      <3>3. Outputs(T[d].spec) \in Seq(Specs) /\ Follows(T[d].spec) # {}
        BY <1>7, RegionSpecs, NetTyped
      <3>4. Len(Outputs(T[d].spec)) \in Nat /\ DOMAIN Outputs(T[d].spec) = 1..Len(Outputs(T[d].spec))
        BY <3>3, LenProperties
      <3> QED
        BY <3>2, <3>3, <3>4 DEF Follows
    <2> QED
      BY <1>3, <2>1, <2>2 DEF NOT_FINISHED
  <1>9. PICK k \in Children(T, d) : TRUE
    BY <1>8
  <1>10. k \in DOMAIN T /\ k \in Path /\ k # Root /\ Parent(k) = d /\ Above(d, k)
    <2>1. k \in DOMAIN T /\ k # Root /\ Parent(k) = d
      BY DEF Children
    <2> QED
      BY <1>3, <2>1, StateTyped, AboveParent
  <1>11. k \in Branch(T, b)
    <2>1. b = d \/ Above(b, d)
      BY <1>3 DEF Branch, Below
    <2> QED
      BY <1>1, <1>3, <1>10, <2>1, AboveTransitive DEF Branch, Below
  <1>12. T[k].state \in NOT_FINISHED
    BY <1>3, <1>5, <1>7, <1>9, <1>11 DEF LiveBelow
  <1> QED
    BY <1>2, <1>10, <1>11, <1>12

-----------------------------------------------------------------------------
(* How a step may change a region.                                         *)

\* What is new lies behind something that was unfinished, and is unfinished itself.
Opens(T, U) ==
    \A d \in DOMAIN U \ DOMAIN T :
        /\ d # Root /\ Parent(d) \in DOMAIN T
        /\ T[Parent(d)].state \in NOT_FINISHED /\ U[d].state \in NOT_FINISHED

\* Inside the region nothing ends before what it follows.
Ends(T, U, inner) ==
    \A d \in DOMAIN T \intersect DOMAIN U :
        T[d].state \in NOT_FINISHED /\ U[d].state \in FINISHED /\ T[d].spec \in inner =>
            d = Root \/ U[Parent(d)].state \in FINISHED

\* Nothing is unfinished between the split of j and j.
ClosedAt(T, j) ==
    \A s \in SplitTask(T, j) : \A d \in Below(T, s) :
        T[d].state \in NOT_FINISHED => d = j \/ Above(j, d)

RegionClosed(T, J) == \A j \in FiredIn(T) : T[j].spec = J => ClosedAt(T, j)

LEMMA TwoStates ==
  ASSUME NEW T, Tree(T, Specs), NEW d \in DOMAIN T
  PROVE  T[d].state \in FINISHED <=> T[d].state \notin NOT_FINISHED
  BY StateTyped, StatesDiffer DEF PREDICTED

LEMMA LiveStays ==
  ASSUME NEW T, NEW U, Tree(T, Specs), Tree(U, Specs), FollowsNet(U), SameSpecs(T, U),
         Stays(T, U), Opens(T, U), NEW J, NEW R, Region(J, R), Ends(T, U, Inner(J, R)),
         LiveBelow(T, J, R)
  PROVE  LiveBelow(U, J, R)
  <1> SUFFICES ASSUME NEW d \in DOMAIN U, U[d].state \in NOT_FINISHED, U[d].spec \in Inner(J, R),
                      NEW c \in Children(U, d), U[c].state \notin NOT_FINISHED, U[c].spec # J
               PROVE  FALSE
    BY DEF LiveBelow
  <1>1. c \in DOMAIN U /\ c # Root /\ Parent(c) = d
    BY DEF Children
  <1>2. c \in DOMAIN T /\ U[c].state \in FINISHED
    BY <1>1, TwoStates DEF Opens
  <1>3. d \in DOMAIN T /\ c \in Children(T, d)
    BY <1>1, <1>2, ParentLive DEF Children
  <1>4. T[d].state \in NOT_FINISHED /\ T[d].spec = U[d].spec /\ T[c].spec = U[c].spec
    BY <1>1, <1>2, <1>3, TwoStates DEF Stays, SameSpecs
  <1>5. T[c].state \in NOT_FINISHED
    BY <1>3, <1>4 DEF LiveBelow
  <1>6. T[c].spec \in Inner(J, R)
    <2>1. U[c].spec \in Follows(U[d].spec)
      BY <1>1 DEF FollowsNet
    <2> QED
      BY <1>4, <2>1, RegionSpecs DEF Inner
  <1>7. U[d].state \in FINISHED
    BY <1>1, <1>2, <1>5, <1>6 DEF Ends
  <1> QED
    BY <1>7, TwoStates

LEMMA ClosedStays ==
  ASSUME NEW T, NEW U, Tree(T, Specs), Tree(U, Specs), SameSpecs(T, U), Stays(T, U), Opens(T, U),
         NEW j \in DOMAIN T \intersect DOMAIN U,
         Attached(T, j) \/ DOMAIN U \subseteq DOMAIN T, ClosedAt(T, j)
  PROVE  ClosedAt(U, j)
  <1> SUFFICES ASSUME NEW s \in SplitTask(U, j), NEW d \in Below(U, s), U[d].state \in NOT_FINISHED
               PROVE  d = j \/ Above(j, d)
    BY DEF ClosedAt
  <1>1. s \in SplitTask(T, j) /\ s \in DOMAIN T /\ s \in DOMAIN U /\ Above(s, j)
    BY SplitStays, SplitParts
  <1>2. d \in DOMAIN U /\ d \in Path /\ Above(s, d) /\ s \in Path /\ j \in Path
    BY <1>1, StateTyped DEF Below
  <1>3. CASE d \in DOMAIN T
    <2>1. T[d].state \in NOT_FINISHED /\ d \in Below(T, s)
      BY <1>2, <1>3, TwoStates DEF Stays, Below
    <2> QED
      BY <1>1, <2>1 DEF ClosedAt
  <1>4. CASE d \notin DOMAIN T
    <2>1. /\ d # Root /\ Parent(d) \in DOMAIN T /\ T[Parent(d)].state \in NOT_FINISHED
          /\ Attached(T, j) /\ Parent(d) \in Path
      BY <1>2, <1>4, StateTyped DEF Opens
    <2>2. s # Parent(d)
      BY <1>1, <2>1, TwoStates DEF Attached
    <2>3. Parent(d) \in Below(T, s)
      BY <1>2, <2>1, <2>2, AncestorOrParent DEF Below
    <2>4. Parent(d) = j \/ Above(j, Parent(d))
      BY <1>1, <2>1, <2>3 DEF ClosedAt
    <2> QED
      BY <1>2, <2>1, <2>4, AboveParent
  <1> QED
    BY <1>3, <1>4

LEMMA RegionClosedStays ==
  ASSUME NEW T, NEW U, Tree(T, Specs), Tree(U, Specs), SameSpecs(T, U), Stays(T, U), Opens(T, U),
         Reach(T) \/ DOMAIN U \subseteq DOMAIN T, NEW J, RegionClosed(T, J),
         \A j \in FiredIn(U) : U[j].spec = J => j \in FiredIn(T)
  PROVE  RegionClosed(U, J)
  <1> SUFFICES ASSUME NEW j \in FiredIn(U), U[j].spec = J PROVE ClosedAt(U, j)
    BY DEF RegionClosed
  <1>1. j \in FiredIn(T) /\ j \in DOMAIN T /\ j \in DOMAIN U /\ T[j].state \in {"READY", "COMPLETED"}
    BY DEF FiredIn, InState
  <1>2. T[j].spec = J
    BY <1>1 DEF SameSpecs
  <1>3. ClosedAt(T, j)
    BY <1>1, <1>2 DEF RegionClosed
  <1>4. Attached(T, j) \/ DOMAIN U \subseteq DOMAIN T
    BY <1>1 DEF Reach, REACHED
  <1> QED
    BY <1>1, <1>3, <1>4, ClosedStays

-----------------------------------------------------------------------------
(* Every step opens and ends tasks in this way.                            *)

Moves(inner) == Opens(tasks, tasks') /\ Ends(tasks, tasks', inner)

\* Cancelled are tasks from outside the region, or what follows something finished.
CancelsOutside(T, c, inner) ==
    \A f \in Frames(c) : f.op = "cancel" =>
        \A x \in f.todo \intersect DOMAIN T :
            T[x].spec \in inner => x = Root \/ T[Parent(x)].state \in FINISHED

LEMMA SameMoves ==
  ASSUME UNCHANGED tasks, Tree(tasks, Specs), NEW inner
  PROVE  Moves(inner)
  BY TwoStates DEF Moves, Opens, Ends

LEMMA GrownMoves ==
  ASSUME NEW T, NEW U, NEW t, NEW states, Grown(T, U, t, states), T[t].state \in NOT_FINISHED,
         states \subseteq NOT_FINISHED, NEW inner
  PROVE  Opens(T, U) /\ Ends(T, U, inner)
  <1>1. Opens(T, U)
    BY DEF Grown, Opens
  <1>2. Ends(T, U, inner)
    BY StatesDiffer DEF Grown, Ends
  <1> QED
    BY <1>1, <1>2

LEMMA SetMoves ==
  ASSUME NEW T, Tree(T, Specs), NEW S, NEW state, NEW inner,
         state \in FINISHED =>
            \A d \in S \intersect DOMAIN T : T[d].spec \in inner => Attached(T, d)
  PROVE  Opens(T, SetState(T, S, state)) /\ Ends(T, SetState(T, S, state), inner)
  <1> DEFINE U == SetState(T, S, state)
  <1>1. /\ DOMAIN U = DOMAIN T
        /\ \A d \in DOMAIN T : U[d].state = IF d \in S THEN state ELSE T[d].state
    BY SetStateEffect
  <1> HIDE DEF U
  <1>2. ASSUME NEW d \in DOMAIN T, d # Root, T[d].state \in NOT_FINISHED, U[d].state \in FINISHED,
               T[d].spec \in inner
        PROVE  U[Parent(d)].state \in FINISHED
    <2>1. d \in S /\ state \in FINISHED
      BY <1>1, <1>2, TwoStates
    <2>2. Parent(d) \in DOMAIN T /\ T[Parent(d)].state \in FINISHED
      BY <1>2, <2>1, ParentLive, AttachedParent
    <2> QED
      BY <1>1, <2>1, <2>2
  <1>3. Opens(T, U)
    BY <1>1 DEF Opens
  <1>4. Ends(T, U, inner)
    BY <1>1, <1>2 DEF Ends
  <1> QED
    BY <1>3, <1>4 DEF U

LEMMA ReadyMoves ==
  ASSUME NEW T, Tree(T, Specs), NEW t, NEW inner
  PROVE  Opens(T, Ready(T, t)) /\ Ends(T, Ready(T, t), inner)
  <1>1. "READY" \notin FINISHED
    BY StatesDiffer
  <1>2. Opens(T, T) /\ Ends(T, T, inner)
    BY TwoStates DEF Opens, Ends
  <1> QED
    BY <1>1, <1>2, SetMoves DEF Ready

\* What is cancelled with a branch follows something finished, but for the task itself.
LEMMA CancelEnds ==
  ASSUME NEW T, Tree(T, Specs), NEW t \in DOMAIN T, NEW d \in DOMAIN CancelBranch(T, t),
         T[d].state \in NOT_FINISHED, CancelBranch(T, t)[d].state \in FINISHED,
         d # t, d # Root
  PROVE  CancelBranch(T, t)[Parent(d)].state \in FINISHED
  <1> DEFINE open == Branch(T, t) \intersect InState(T, NOT_FINISHED)
             top  == {a \in open : ~\E e \in open : Above(e, a)}
             V    == SetState(T, top, "CANCELLED")
             U    == CancelBranch(T, t)
  <1>1. U = DropChildren(V, top)
    BY DEF CancelBranch
  <1>2. Tree(U, Specs) /\ Shrunk(T, U)
    BY CancelBranchTree, CancelBranchShrunk
  <1>3. \A a \in top : a \in Branch(T, t) /\ \A e \in open : ~Above(e, a)
    OBVIOUS
  <1>4. \A a : a \in open <=> a \in Branch(T, t) /\ a \in DOMAIN T /\ T[a].state \in NOT_FINISHED
    BY DEF InState
  <1> HIDE DEF open, top, U
  <1>5. d \in DOMAIN T /\ Parent(d) \in DOMAIN T /\ Parent(d) \in DOMAIN U /\ d \in DOMAIN U
    BY <1>2, ParentLive DEF Shrunk, U
  <1>6. d \in top
    <2>1. U[d] = V[d]
      BY <1>1, <1>5 DEF DropChildren, RemoveBranches
    <2>2. V[d].state = IF d \in top THEN "CANCELLED" ELSE T[d].state
      BY <1>5, SetStateEffect
    <2> QED
      BY <1>5, <2>1, <2>2, TwoStates DEF U
  <1>7. Parent(d) \in Branch(T, t) /\ Above(Parent(d), d)
    <2>1. d \in Branch(T, t)
      BY <1>3, <1>6
    <2> QED
      BY <1>5, <2>1, BranchChild, StateTyped, AboveParent
  <1>8. T[Parent(d)].state \in FINISHED
    BY <1>3, <1>4, <1>5, <1>6, <1>7, TwoStates
  <1>9. U[Parent(d)].state \in FINISHED
    BY <1>2, <1>5, <1>8, ShrunkStays DEF Stays
  <1> QED
    BY <1>9 DEF U

LEMMA CancelMoves ==
  ASSUME NEW T, Tree(T, Specs), NEW t \in DOMAIN T, NEW inner,
         T[t].spec \in inner => t = Root \/ T[Parent(t)].state \in FINISHED
  PROVE  Opens(T, CancelBranch(T, t)) /\ Ends(T, CancelBranch(T, t), inner)
  <1> DEFINE U == CancelBranch(T, t)
  <1>1. Shrunk(T, U) /\ Tree(U, Specs)
    BY CancelBranchShrunk, CancelBranchTree
  <1>2. Opens(T, U)
    BY <1>1 DEF Shrunk, Opens
  <1>3. ASSUME NEW d \in DOMAIN T \intersect DOMAIN U, d # Root,
               T[d].state \in NOT_FINISHED, U[d].state \in FINISHED, T[d].spec \in inner
        PROVE  U[Parent(d)].state \in FINISHED
    <2>1. CASE d # t
      BY <1>3, <2>1, CancelEnds
    <2>2. CASE d = t
      <3> HIDE DEF U
      <3>1. Parent(d) \in DOMAIN U /\ Parent(d) \in DOMAIN T
        BY <1>1, <1>3, ParentLive
      <3>2. T[Parent(d)].state \in FINISHED
        BY <1>3, <2>2
      <3> QED
        BY <1>1, <3>1, <3>2, ShrunkStays DEF Stays
    <2> QED
      BY <2>1, <2>2
  <1> HIDE DEF U
  <1>4. Ends(T, U, inner)
    BY <1>3 DEF Ends
  <1> QED
    BY <1>2, <1>4 DEF U

LEMMA RaiseMoves ==
  ASSUME IInv, ReachInv, Raise, NEW inner
  PROVE  Moves(inner)
  <1>1. Tree(tasks, Specs) /\ tasks' = SetState(tasks, Completing(calls), "ERROR")
    BY IInvSplit DEF Raise, Completing
  <1>2. ASSUME NEW d \in Completing(calls) \intersect DOMAIN tasks PROVE Attached(tasks, d)
    <2>1. PICK i \in DOMAIN calls : calls[i].op = "complete" /\ calls[i].task = d
      BY <1>2 DEF Completing
    <2>2. FrameOK(tasks, calls[i])
      BY DEF ReachInv, FramesOK
    <2> QED
      BY <1>2, <2>1, <2>2 DEF FrameOK, LiveIn
  <1> QED
    BY <1>1, <1>2, SetMoves DEF Moves

LEMMA HookMoves ==
  ASSUME IInv, NEW kinds, Hook(kinds), SetReady(Top.task) \/ SetWaiting(Top.task), NEW inner
  PROVE  Moves(inner)
  <1>1. Tree(tasks, Specs) /\ "WAITING" \notin FINISHED
    BY IInvSplit, StatesDiffer
  <1> QED
    BY <1>1, ReadyMoves, SetMoves DEF SetReady, SetWaiting, Moves

LEMMA PredictMoves ==
  ASSUME IInv, ReachInv, Predict, NEW inner
  PROVE  Moves(inner)
  <1>1. calls # <<>> /\ Top.op = "predict"
    BY DEF Predict, Doing, Top
  <1>2. Tree(tasks, Specs) /\ FrameOK(tasks, Top)
    BY <1>1, InProgress
  <1>3. \/ UNCHANGED tasks
        \/ Raise
        \/ \E t \in DOMAIN tasks : /\ In(tasks, t, Top.mask)
                                   /\ tasks' = PredictHook(tasks, t, PredictedTimes(tasks[t].spec))
    BY DEF Predict
  <1>4. ASSUME NEW t \in DOMAIN tasks, In(tasks, t, Top.mask),
               tasks' = PredictHook(tasks, t, PredictedTimes(tasks[t].spec))
        PROVE  Moves(inner)
    <2>1. tasks[t].state \in EXPECTED
      BY <1>1, <1>2, <1>4 DEF FrameOK, In
    <2>2. PredictedTimes(tasks[t].spec) \in Nat
      BY <1>2, StateTyped, PredictedTimesTyped
    <2>3. PICK states : Grown(tasks, tasks', t, states) /\ Foresees(tasks, t, states)
      BY <1>2, <1>4, <2>1, <2>2, PredictHookGrown
    <2>4. states \subseteq NOT_FINISHED /\ tasks[t].state \in NOT_FINISHED
      BY <2>1, <2>3, StatesDiffer DEF Foresees
    <2> QED
      BY <2>3, <2>4, GrownMoves DEF Moves
  <1> QED
    BY <1>2, <1>3, <1>4, RaiseMoves, SameMoves

LEMMA UpdateMoves ==
  ASSUME IInv, ReachInv, NEW inner,
         UpdateSimple \/ UpdateFails \/ UpdateExecute \/ UpdateGate \/ UpdateAcquire \/ UpdateJoin
  PROVE  Moves(inner)
  <1>1. CASE UpdateSimple
    BY <1>1, HookMoves DEF UpdateSimple
  <1>2. CASE UpdateFails
    BY <1>2, RaiseMoves DEF UpdateFails
  <1>3. CASE UpdateExecute
    BY <1>3, HookMoves DEF UpdateExecute
  <1>4. CASE UpdateGate
    BY <1>4, HookMoves DEF UpdateGate
  <1>5. CASE UpdateAcquire
    BY <1>5, HookMoves DEF UpdateAcquire
  <1>6. CASE UpdateJoin
    <2>1. Hook({"Join"}) /\ (UNCHANGED tasks \/ Raise \/ SetWaiting(Top.task))
      BY <1>6 DEF UpdateJoin
    <2> QED
      BY <2>1, IInvSplit, RaiseMoves, HookMoves, SameMoves
  <1> QED
    BY <1>1, <1>2, <1>3, <1>4, <1>5, <1>6

LEMMA CancelNextMoves ==
  ASSUME IInv, NEW inner, CancelsOutside(tasks, calls, inner), CancelNext
  PROVE  Moves(inner)
  <1>1. Tree(tasks, Specs) /\ calls # <<>> /\ Top.op = "cancel"
    BY IInvSplit DEF CancelNext, Doing, Top
  <1>2. 1 \in DOMAIN calls /\ calls[1] = Top
    BY <1>1 DEF IInv, TypeOK, Top
  <1>3. CASE UNCHANGED tasks
    BY <1>1, <1>3, SameMoves
  <1>4. ASSUME NEW t \in Top.todo, t \in DOMAIN tasks, tasks' = CancelBranch(tasks, t)
        PROVE  Moves(inner)
    <2>1. tasks[t].spec \in inner => t = Root \/ tasks[Parent(t)].state \in FINISHED
      BY <1>1, <1>2, <1>4 DEF CancelsOutside, Frames
    <2> QED
      BY <1>1, <1>4, <2>1, CancelMoves DEF Moves
  <1> QED
    BY <1>3, <1>4 DEF CancelNext

LEMMA JoinFiresMoves ==
  ASSUME IInv, JoinFires, Kind(tasks[Top.task].spec) = "Join",
         NEW inner, \A s \in inner : Kind(s) # "Join"
  PROVE  Moves(inner)
  <1>1. PICK V : /\ Tree(V, Specs) /\ Same(tasks, V)
                 /\ tasks' = Ready(V, Top.task)
                 /\ \A d \in DOMAIN V :
                       \/ V[d].state = tasks[d].state
                       \/ d \in OtherInstances(tasks, Top.task) /\ V[d].state = "CANCELLED"
    BY JoinFiresParts
  <1>2. Tree(tasks, Specs) /\ DOMAIN V \subseteq DOMAIN tasks /\ DOMAIN tasks' = DOMAIN V
    <2>1. DOMAIN Ready(V, Top.task) = DOMAIN V
      BY <1>1, SetStateEffect DEF Ready
    <2> QED
      BY <1>1, <2>1, IInvSplit DEF Same
  <1>3. Opens(tasks, tasks')
    BY <1>2 DEF Opens
  <1>4. ASSUME NEW d \in DOMAIN tasks', tasks[d].state \in NOT_FINISHED, tasks'[d].state \in FINISHED
        PROVE  tasks[d].spec \notin inner
    <2>1. tasks'[d].state = V[d].state \/ tasks'[d].state = "READY"
      BY <1>1, <1>2, SetStateEffect DEF Ready
    <2>2. V[d].state \in FINISHED
      BY <1>4, <2>1, StatesDiffer
    <2>3. d \in OtherInstances(tasks, Top.task)
      BY <1>1, <1>2, <1>4, <2>2, TwoStates
    <2>4. tasks[d].spec = tasks[Top.task].spec
      BY <2>3 DEF OtherInstances, Instances, OfSpec
    <2> QED
      BY <2>4
  <1> QED
    BY <1>3, <1>4 DEF Moves, Ends

LEMMA CompleteMoves ==
  ASSUME IInv, ReachInv, CompleteTask, NEW inner
  PROVE  Moves(inner)
  <1>1. calls # <<>> /\ Top.op = "complete" /\ tasks' = SetState(tasks, {Top.task}, "COMPLETED")
    BY DEF CompleteTask, Doing, Top
  <1>2. Tree(tasks, Specs) /\ FrameOK(tasks, Top)
    BY <1>1, InProgress
  <1>3. \A d \in {Top.task} \intersect DOMAIN tasks : Attached(tasks, d)
    BY <1>1, <1>2 DEF FrameOK, LiveIn
  <1> QED
    BY <1>1, <1>2, <1>3, SetMoves DEF Moves

LEMMA StepMoves ==
  ASSUME IInv, ReachInv, FiringInv, Step, NEW inner, CancelsOutside(tasks, calls, inner),
         \A s \in inner : Kind(s) # "Join"
  PROVE  Moves(inner)
  <1>1. ChildrenNext \/ VisitNext \/ Finish => UNCHANGED tasks
    BY DEF ChildrenNext, VisitNext, Finish
  <1>2. JoinFires => Kind(tasks[Top.task].spec) = "Join"
    <2> SUFFICES ASSUME JoinFires PROVE Kind(tasks[Top.task].spec) = "Join"
      OBVIOUS
    <2>1. 1 \in DOMAIN calls /\ calls[1] = Top /\ Top.op = "join"
      BY DEF JoinFires, Doing, IInv, TypeOK, Top
    <2> QED
      BY <2>1 DEF FiringInv
  <1> QED
    BY <1>1, <1>2, IInvSplit, SameMoves, PredictMoves, UpdateMoves, CancelNextMoves, JoinFiresMoves,
       CompleteMoves DEF Step

LEMMA RunSyncMoves ==
  ASSUME IInv, ReachInv, NEW t, NEW kinds, Running(t, kinds), NEW outs, NEW n, Gapped(outs, n),
         RunRaises(t) \/ tasks' = SyncChildren(tasks, t, outs, n, "FUTURE"), NEW inner
  PROVE  Moves(inner)
  <1>1. /\ Tree(tasks, Specs) /\ t \in DOMAIN tasks /\ tasks[t].state = "READY"
        /\ Attached(tasks, t)
    BY RunnableReach
  <1>2. CASE RunRaises(t)
    BY <1>1, <1>2, SetMoves DEF RunRaises, Moves
  <1>3. CASE tasks' = SyncChildren(tasks, t, outs, n, "FUTURE")
    <2>1. "FUTURE" \in ANY /\ {"FUTURE"} \subseteq NOT_FINISHED /\ tasks[t].state \in NOT_FINISHED
      BY <1>1, StatesDiffer
    <2>2. n \in Nat /\ DOMAIN outs \subseteq 1..n /\ \A i \in DOMAIN outs : outs[i] \in Specs
      BY DEF Gapped
    <2>3. Grown(tasks, tasks', t, {"FUTURE"})
      BY <1>1, <1>3, <2>1, <2>2, SyncChildrenTree
    <2> QED
      BY <2>1, <2>3, GrownMoves DEF Moves
  <1> QED
    BY <1>2, <1>3

LEMMA RunSplitMoves ==
  ASSUME IInv, ReachInv, NEW t \in DOMAIN tasks, NEW inner,
         RunMultiChoice(t) \/ RunExclusiveChoice(t) \/ RunMultiInstance(t) \/ RunThreadSplit(t)
  PROVE  Moves(inner)
  <1> DEFINE s == tasks[t].spec
  <1>1. s \in Specs
    BY IInvSplit, StateTyped
  <1>2. PICK kinds : Running(t, kinds)
    BY DEF RunMultiChoice, RunExclusiveChoice, RunMultiInstance, RunThreadSplit
  <1>3. ASSUME NEW n \in Net[s].times,
               \/ RunRaises(t)
               \/ tasks' = SyncChildren(tasks, t, PredictedOutputs(s, n), OutputCount(s, n), "FUTURE")
        PROVE  Moves(inner)
    <2>1. n \in Nat
      BY <1>1, NetTyped
    <2>2. Gapped(PredictedOutputs(s, n), OutputCount(s, n))
      BY <1>1, <2>1, PredictedOutputsGapped
    <2> QED
      BY <1>2, <1>3, <2>2, RunSyncMoves
  <1>4. CASE RunMultiInstance(t) \/ RunThreadSplit(t)
    BY <1>3, <1>4 DEF RunMultiInstance, RunThreadSplit, RunSplit
  <1>5. CASE RunMultiChoice(t)
    <2>1. PICK S : RunSplit(t, Pick(Outputs(s), S), Len(Outputs(s)), 0)
      BY <1>5 DEF RunMultiChoice
    <2>2. Gapped(Pick(Outputs(s), S), Len(Outputs(s)))
      BY <1>1, PickGapped
    <2> QED
      BY <1>2, <2>1, <2>2, RunSyncMoves DEF RunSplit
  <1>6. CASE RunExclusiveChoice(t)
    <2>1. PICK output \in Net[s].cond \union {Net[s].default} : RunSplit(t, <<output>>, 1, 0)
      BY <1>6 DEF RunExclusiveChoice
    <2>2. Kind(s) = "ExclusiveChoice"
      BY <1>6 DEF RunExclusiveChoice, Running
    <2>3. output \in Specs
      BY <1>1, <2>2, ChosenIsOutput
    <2>4. Gapped(<<output>>, 1)
      BY <2>3 DEF Gapped
    <2> QED
      BY <1>2, <2>1, <2>4, RunSyncMoves DEF RunSplit
  <1> QED
    BY <1>4, <1>5, <1>6

LEMMA ThreadStartMoves ==
  ASSUME IInv, ReachInv, NEW t \in DOMAIN tasks, RunThreadStart(t), NEW inner
  PROVE  Moves(inner)
  <1> DEFINE T    == AssignThread(tasks, t, threads + 1)
             outs == Outputs(tasks[t].spec)
  <1>1. /\ Tree(tasks, Specs) /\ Attached(tasks, t) /\ tasks[t].state = "READY"
        /\ tasks[t].spec \in Specs
    BY RunnableReach DEF RunThreadStart
  <1>2. /\ Tree(T, Specs) /\ DOMAIN T = DOMAIN tasks
        /\ \A d \in DOMAIN tasks : T[d].spec = tasks[d].spec /\ T[d].state = tasks[d].state
    <2>1. threads + 1 \in Nat
      BY DEF IInv, TypeOK
    <2> QED
      BY <1>1, <2>1, AssignThreadTree
  <1>3. Gapped(outs, Len(outs))
    BY <1>1, OutputsGapped
  <1>4. tasks' = SetState(T, {t}, "ERROR") \/ tasks' = SyncChildren(T, t, outs, Len(outs), "READY")
    BY DEF RunThreadStart
  <1> HIDE DEF T, outs
  <1>5. Opens(T, tasks') /\ Ends(T, tasks', inner)
    <2>1. CASE tasks' = SetState(T, {t}, "ERROR")
      <3>1. Attached(T, t)
        BY <1>1, <1>2 DEF Attached
      <3> QED
        BY <1>2, <2>1, <3>1, SetMoves
    <2>2. CASE tasks' = SyncChildren(T, t, outs, Len(outs), "READY")
      <3>1. "READY" \in ANY /\ {"READY"} \subseteq NOT_FINISHED /\ T[t].state \in NOT_FINISHED
        BY <1>1, <1>2, StatesDiffer
      <3>2. /\ Len(outs) \in Nat /\ DOMAIN outs \subseteq 1..Len(outs)
            /\ \A i \in DOMAIN outs : outs[i] \in Specs
        BY <1>3 DEF Gapped
      <3>3. t \in DOMAIN T
        BY <1>2
      <3>4. Grown(T, tasks', t, {"READY"})
        BY <1>2, <2>2, <3>1, <3>2, <3>3, SyncChildrenTree
      <3> QED
        BY <3>1, <3>4, GrownMoves
    <2> QED
      BY <1>4, <2>1, <2>2
  <1>6. Opens(tasks, tasks')
    BY <1>2, <1>5 DEF Opens
  <1>7. Ends(tasks, tasks', inner)
    BY <1>2, <1>5 DEF Ends
  <1> QED
    BY <1>6, <1>7 DEF Moves

LEMMA RunMoves ==
  ASSUME IInv, ReachInv, NEW t \in DOMAIN tasks, RunTask(t), NEW inner
  PROVE  Moves(inner)
  <1>1. Tree(tasks, Specs) /\ Root \in DOMAIN tasks
    BY IInvSplit DEF Tree, Closed
  <1>2. CASE UNCHANGED tasks
    BY <1>1, <1>2, SameMoves
  <1>3. CASE RunFails(t) \/ RunReleaseMutex(t)
    <2>1. PICK kinds : Running(t, kinds)
      BY <1>3 DEF RunFails, RunReleaseMutex
    <2>2. CASE RunRaises(t)
      <3>1. Attached(tasks, t)
        BY <2>1, RunnableReach
      <3> QED
        BY <1>1, <2>2, <3>1, SetMoves DEF RunRaises, Moves
    <2> QED
      BY <1>2, <1>3, <2>2 DEF RunFails, RunReleaseMutex
  <1>4. CASE RunCancel(t)
    BY <1>1, <1>4, CancelMoves DEF RunCancel, Moves
  <1> QED
    BY <1>2, <1>3, <1>4, RunSplitMoves, ThreadStartMoves DEF RunTask, RunSimple, RunCancelTask

LEMMA MethodsMove ==
  ASSUME IInv, UpdateWaitingTasks \/ Cancel, NEW inner
  PROVE  Moves(inner)
  <1>1. Tree(tasks, Specs) /\ Root \in DOMAIN tasks
    BY IInvSplit DEF Tree, Closed
  <1> QED
    BY <1>1, SameMoves, CancelMoves DEF UpdateWaitingTasks, Cancel, Moves

-----------------------------------------------------------------------------
(* What is cancelled lies outside the region.                              *)

\* What a step pushes, and what it leaves.
LEMMA Pushed ==
  ASSUME IInv, calls # <<>>, NEW frames \in Seq(FrameType), calls' = frames \o Tail(calls)
  PROVE  /\ Frames(calls') = Frames(frames) \union Frames(Tail(calls))
         /\ Frames(calls) = {Top} \union Frames(Tail(calls))
  <1>1. calls \in Seq(FrameType)
    BY DEF IInv, TypeOK
  <1> QED
    BY <1>1, StackTail, StackConcat DEF Top

LEMMA Returned ==
  ASSUME IInv, calls # <<>>, Return
  PROVE  Frames(calls') = Frames(Tail(calls)) /\ Frames(calls) = {Top} \union Frames(Tail(calls))
  <1>1. calls \in Seq(FrameType)
    BY DEF IInv, TypeOK
  <1> QED
    BY <1>1, StackTail DEF Return, Top

LEMMA Called ==
  ASSUME IInv, calls # <<>>, NEW frames \in Seq(FrameType), NEW S \in SUBSET Path,
         CallWith(frames, S)
  PROVE  /\ Frames(calls') = Frames(frames) \union Frames(Tail(calls))
                                \union (IF S = {} THEN {} ELSE {[Top EXCEPT !.todo = S]})
         /\ Frames(calls) = {Top} \union Frames(Tail(calls))
         /\ Tail(calls) \in Seq(FrameType)
  <1> DEFINE frame == [Top EXCEPT !.todo = S]
             again == IF S = {} THEN <<>> ELSE <<frame>>
             front == frames \o again
  <1>1. calls \in Seq(FrameType) /\ Top \in FrameType
    BY StackTyped DEF IInv, TypeOK
  <1>2. frame \in FrameType
    BY <1>1 DEF FrameType
  <1>3. calls' = front \o Tail(calls)
    BY DEF CallWith
  <1>4. Frames(again) = IF S = {} THEN {} ELSE {frame}
    BY StackNone
  <1> HIDE DEF frame
  <1>5. again \in Seq(FrameType)
    BY <1>2
  <1> HIDE DEF again
  <1>6. front \in Seq(FrameType)
    BY <1>5, ConcatTyped
  <1>7. Frames(front) = Frames(frames) \union Frames(again)
    BY <1>5, StackConcat
  <1> HIDE DEF front
  <1>8. /\ Frames(calls') = Frames(front) \union Frames(Tail(calls))
        /\ Frames(calls) = {Top} \union Frames(Tail(calls))
    BY <1>3, <1>6, Pushed
  <1> QED
    BY <1>1, <1>4, <1>7, <1>8, StackTail DEF frame

LEMMA StackOps ==
  ASSUME IInv, ReachInv, calls # <<>>
  PROVE  \A f \in Frames(Tail(calls)) : /\ Top.op \in Over(f.op) /\ f \in FrameType
                                        /\ FrameOK(tasks, f)
  <1> DEFINE rest == Tail(calls)
  <1>1. /\ calls \in Seq(FrameType) /\ Ordered(calls) /\ FramesOK(tasks, calls)
    BY DEF IInv, TypeOK, ReachInv
  <1>2. /\ rest \in Seq(FrameType) /\ Len(rest) = Len(calls) - 1 /\ Top = calls[1]
        /\ \A i \in 1..Len(rest) : rest[i] = calls[i + 1]
        /\ Len(calls) \in Nat \ {0} /\ Len(rest) \in Nat
        /\ DOMAIN calls = 1..Len(calls) /\ DOMAIN rest = 1..Len(rest)
    BY <1>1, HeadTailProperties, LenProperties DEF Top
  <1> HIDE DEF rest
  <1>3. ASSUME NEW i \in DOMAIN rest
        PROVE  Top.op \in Over(rest[i].op) /\ rest[i] \in FrameType /\ FrameOK(tasks, rest[i])
    <2>1. 1 \in DOMAIN calls /\ i + 1 \in DOMAIN calls /\ 1 < i + 1 /\ rest[i] = calls[i + 1]
      BY <1>2
    <2> QED
      BY <1>1, <1>2, <2>1 DEF Ordered, FramesOK
  <1> QED
    BY <1>3 DEF Frames, rest

NoneCancels(c) == \A f \in Frames(c) : f.op \notin {"cancel", "join"}

LEMMA NoneCancelsIff == \A c : NoJoins(c) <=> NoneCancels(c)
  BY DEF NoJoins, NoneCancels, Frames

LEMMA StepNoneCancels ==
  ASSUME IInv, ReachInv, Step, ~UpdateJoin, ~CancelNext
  PROVE  NoneCancels(calls')
  <1>1. Top.op # "cancel"
    BY DEF Step, Predict, UpdateSimple, UpdateFails, UpdateExecute, UpdateGate, UpdateAcquire, Hook,
           JoinFires, CompleteTask, ChildrenNext, VisitNext, Finish, Doing, Top
  <1>2. calls # <<>> /\ (PushesNoJoin \/ Raise)
    BY StepPushes
  <1>3. CASE PushesNoJoin
    BY <1>1, <1>2, <1>3, NoJoinsRest, NoJoinsConcat, NoneCancelsIff DEF PushesNoJoin
  <1>4. CASE Raise
    BY <1>4, StackNone DEF Raise, NoneCancels
  <1> QED
    BY <1>2, <1>3, <1>4

LEMMA NoneOutside == ASSUME NEW c, NoneCancels(c), NEW T, NEW inner PROVE CancelsOutside(T, c, inner)
  BY DEF NoneCancels, CancelsOutside

\* The frames of a join that begins to fire.
LEMMA JoinFrames ==
  ASSUME IInv, ReachInv, UpdateJoin
  PROVE  LET j     == Top.task
             s     == tasks[j].spec
             todos == {WaitingTasks(tasks, j)[i] : i \in DOMAIN WaitingTasks(tasks, j)}
         IN  /\ calls # <<>> /\ Top.op = "hook" /\ j \in DOMAIN tasks /\ Kind(s) = "Join"
             /\ tasks[j].state \in NOT_FINISHED /\ Attached(tasks, j) /\ NoneCancels(Tail(calls))
             /\ \/ NoneCancels(calls')
                \/ /\ UNCHANGED tasks /\ tasks[j].state = "READY" /\ ~Net[s].cancel
                   /\ Frames(calls') = {Frame("join", j, {})} \union Frames(Tail(calls))
                \/ /\ UNCHANGED tasks /\ tasks[j].state \in NOT_FINISHED
                   /\ ~SplitNotReached(tasks, j) /\ MayFire(tasks, j)
                   /\ Frames(calls') = {Frame("join", j, {})} \union Frames(Tail(calls)) \union
                         (IF Net[s].cancel THEN {Frame("cancel", j, S) : S \in todos} ELSE {})
  <1> DEFINE j       == Top.task
             s       == tasks[j].spec
             waiting == WaitingTasks(tasks, j)
             todos   == {waiting[i] : i \in DOMAIN waiting}
             halting == [i \in DOMAIN waiting |-> Frame("cancel", j, waiting[i])]
             first   == IF Net[s].cancel THEN halting ELSE <<>>
             joining == Frame("join", j, {})
             fire    == <<joining>>
             both    == first \o fire
  <1>1. /\ calls # <<>> /\ Top.op = "hook" /\ Doing("hook")
        /\ j \in DOMAIN tasks /\ s \in Specs /\ Kind(s) = "Join"
        /\ Tree(tasks, Specs) /\ j \in Path /\ FrameOK(tasks, Top)
    BY InProgress, StateTyped DEF UpdateJoin, Hook, Doing, Top
  <1>2. tasks[j].state \in NOT_FINISHED /\ Attached(tasks, j)
    BY <1>1 DEF FrameOK, LiveIn
  <1>3. \/ Return
        \/ Raise
        \/ UNCHANGED tasks /\ tasks[j].state = "READY" /\ ~Net[s].cancel /\ ReturnTo(fire)
        \/ /\ UNCHANGED tasks /\ ~SplitNotReached(tasks, j) /\ MayFire(tasks, j) /\ ReturnTo(both)
    BY DEF UpdateJoin, In, SetWaiting
  <1>4. NoneCancels(Tail(calls))
    BY <1>1, NoJoinsRest, NoneCancelsIff
  <1>5. joining \in FrameType
    BY <1>1, FrameTyped DEF Ops
  <1>6. halting \in Seq(FrameType) /\ Frames(halting) = {Frame("cancel", j, S) : S \in todos}
    <2>1. halting \in Seq(FrameType)
      BY <1>1, WaitingFrames
    <2> HIDE DEF waiting
    <2>2. DOMAIN halting = DOMAIN waiting
      OBVIOUS
    <2>3. \A i \in DOMAIN waiting : halting[i] = Frame("cancel", j, waiting[i])
      OBVIOUS
    <2> HIDE DEF halting
    <2>4. Frames(halting) = {Frame("cancel", j, S) : S \in todos}
      BY <2>2, <2>3 DEF Frames
    <2> QED
      BY <2>1, <2>4
  <1> HIDE DEF halting, joining
  <1>7. /\ first \in Seq(FrameType) /\ fire \in Seq(FrameType) /\ Frames(fire) = {joining}
        /\ Frames(first) = IF Net[s].cancel THEN {Frame("cancel", j, S) : S \in todos} ELSE {}
    <2>1. first \in Seq(FrameType)
      BY <1>6, NoFrame
    <2>2. fire \in Seq(FrameType) /\ Frames(fire) = {joining}
      BY <1>5, StackNone
    <2>3. Frames(first) = IF Net[s].cancel THEN {Frame("cancel", j, S) : S \in todos} ELSE {}
      BY <1>6, StackNone
    <2> QED
      BY <2>1, <2>2, <2>3
  <1> HIDE DEF first, fire
  <1>8. both \in Seq(FrameType) /\ Frames(both) = Frames(first) \union Frames(fire)
    BY <1>7, ConcatTyped, StackConcat
  <1> HIDE DEF both
  <1>9. CASE Return
    BY <1>1, <1>2, <1>4, <1>9 DEF Return
  <1>10. CASE Raise
    <2>1. NoneCancels(calls')
      BY <1>10, StackNone DEF Raise, NoneCancels
    <2> QED
      BY <1>1, <1>2, <1>4, <2>1
  <1>11. CASE UNCHANGED tasks /\ tasks[j].state = "READY" /\ ~Net[s].cancel /\ ReturnTo(fire)
    <2>1. Frames(calls') = Frames(fire) \union Frames(Tail(calls))
      BY <1>1, <1>7, <1>11, Pushed DEF ReturnTo
    <2> QED
      BY <1>1, <1>2, <1>4, <1>7, <1>11, <2>1 DEF joining
  <1>12. CASE UNCHANGED tasks /\ ~SplitNotReached(tasks, j) /\ MayFire(tasks, j) /\ ReturnTo(both)
    <2>1. Frames(calls') = Frames(both) \union Frames(Tail(calls))
      BY <1>1, <1>8, <1>12, Pushed DEF ReturnTo
    <2>2. Frames(calls') = {joining} \union Frames(Tail(calls)) \union
             (IF Net[s].cancel THEN {Frame("cancel", j, S) : S \in todos} ELSE {})
      BY <1>7, <1>8, <2>1
    <2> QED
      BY <1>1, <1>2, <1>4, <1>12, <2>2 DEF joining
  <1> QED
    BY <1>3, <1>9, <1>10, <1>11, <1>12

\* What goes with a branch or is removed stays out of it.
LEMMA OutsideStays ==
  ASSUME NEW T, NEW U, SameSpecs(T, U), Stays(T, U), DOMAIN U \subseteq DOMAIN T, Tree(U, Specs),
         NEW inner, NEW c, CancelsOutside(T, c, inner), NEW e,
         \A g \in Frames(e) : g.op = "cancel" =>
            \E f \in Frames(c) : f.op = "cancel" /\ g.todo \subseteq f.todo
  PROVE  CancelsOutside(U, e, inner)
  <1> SUFFICES ASSUME NEW g \in Frames(e), g.op = "cancel", NEW x \in g.todo \intersect DOMAIN U,
                      U[x].spec \in inner, x # Root
               PROVE  U[Parent(x)].state \in FINISHED
    BY DEF CancelsOutside
  <1>1. PICK f \in Frames(c) : f.op = "cancel" /\ g.todo \subseteq f.todo
    OBVIOUS
  <1>2. x \in f.todo \intersect DOMAIN T /\ T[x].spec \in inner
    BY <1>1 DEF SameSpecs
  <1>3. T[Parent(x)].state \in FINISHED
    BY <1>1, <1>2 DEF CancelsOutside
  <1>4. Parent(x) \in DOMAIN U
    BY ParentLive
  <1> QED
    BY <1>3, <1>4 DEF Stays

\* How a list of tasks to cancel gets shorter.
LEMMA CancelNextParts ==
  ASSUME IInv, CancelNext
  PROVE  /\ calls # <<>> /\ Top.op = "cancel" /\ Frames(calls) = {Top} \union Frames(Tail(calls))
         /\ \/ Top.todo = {} /\ UNCHANGED tasks /\ Frames(calls') = Frames(Tail(calls))
            \/ \E t \in Top.todo :
                  LET S == Top.todo \ {t}
                  IN  /\ tasks' = IF t \in DOMAIN tasks THEN CancelBranch(tasks, t) ELSE tasks
                      /\ Frames(calls') = Frames(Tail(calls))
                            \union (IF S = {} THEN {} ELSE {[Top EXCEPT !.todo = S]})
  <1>1. calls # <<>> /\ Top.op = "cancel" /\ Top.todo \in SUBSET Path
    BY StackTyped DEF CancelNext, Doing, Top, IInv, TypeOK
  <1>2. CASE Top.todo = {} /\ Return /\ UNCHANGED tasks
    BY <1>1, <1>2, Returned
  <1>3. ASSUME NEW t \in Top.todo, CallWith(<<>>, Top.todo \ {t}),
               tasks' = IF t \in DOMAIN tasks THEN CancelBranch(tasks, t) ELSE tasks
        PROVE  LET S == Top.todo \ {t}
               IN  /\ Frames(calls) = {Top} \union Frames(Tail(calls))
                   /\ Frames(calls') = Frames(Tail(calls))
                         \union (IF S = {} THEN {} ELSE {[Top EXCEPT !.todo = S]})
    <2> DEFINE S == Top.todo \ {t}
    <2>1. S \in SUBSET Path /\ <<>> \in Seq(FrameType) /\ CallWith(<<>>, S)
      BY <1>1, <1>3, NoFrame
    <2> HIDE DEF S
    <2>2. /\ Frames(calls') = Frames(<<>>) \union Frames(Tail(calls))
                                 \union (IF S = {} THEN {} ELSE {[Top EXCEPT !.todo = S]})
          /\ Frames(calls) = {Top} \union Frames(Tail(calls))
      BY <1>1, <2>1, Called
    <2> QED
      BY <2>2, StackNone DEF S
  <1>4. \/ Top.todo = {} /\ Return /\ UNCHANGED tasks
        \/ \E t \in Top.todo :
              /\ CallWith(<<>>, Top.todo \ {t})
              /\ tasks' = IF t \in DOMAIN tasks THEN CancelBranch(tasks, t) ELSE tasks
    BY DEF CancelNext
  <1> QED
    BY <1>1, <1>2, <1>3, <1>4

\* What is left to cancel was to be cancelled, and the other calls go on.
LEMMA CancelNextFrames ==
  ASSUME IInv, CancelNext
  PROVE  /\ Shrunk(tasks, tasks')
         /\ \A g \in Frames(calls') : \/ g \in Frames(calls)
                                      \/ g.op = "cancel" /\ g.todo \subseteq Top.todo
         /\ Top.op = "cancel" /\ Top \in Frames(calls)
  <1>1. Tree(tasks, Specs) /\ Shrunk(tasks, tasks)
    BY IInvSplit DEF Shrunk
  <1>2. Top \in FrameType /\ calls # <<>> /\ Top.op = "cancel"
    BY CancelNextParts, StackTyped DEF IInv, TypeOK
  <1>3. \A S : [Top EXCEPT !.todo = S].op = "cancel" /\ [Top EXCEPT !.todo = S].todo = S
    BY <1>2 DEF FrameType
  <1>4. Frames(calls) = {Top} \union Frames(Tail(calls))
    BY CancelNextParts
  <1>5. CASE UNCHANGED tasks /\ Frames(calls') = Frames(Tail(calls))
    BY <1>1, <1>2, <1>4, <1>5
  <1>6. ASSUME NEW t \in Top.todo, NEW S, S = Top.todo \ {t},
               tasks' = IF t \in DOMAIN tasks THEN CancelBranch(tasks, t) ELSE tasks,
               Frames(calls') = Frames(Tail(calls))
                                   \union (IF S = {} THEN {} ELSE {[Top EXCEPT !.todo = S]})
        PROVE  /\ Shrunk(tasks, tasks')
               /\ \A g \in Frames(calls') : \/ g \in Frames(calls)
                                            \/ g.op = "cancel" /\ g.todo \subseteq Top.todo
    <2>1. Shrunk(tasks, tasks')
      BY <1>1, <1>6, CancelBranchShrunk
    <2>2. ASSUME NEW g \in Frames(calls'), g \notin Frames(Tail(calls))
          PROVE  g.op = "cancel" /\ g.todo = S
      BY <1>3, <1>6, <2>2
    <2> QED
      BY <1>4, <1>6, <2>1, <2>2
  <1>7. \/ UNCHANGED tasks /\ Frames(calls') = Frames(Tail(calls))
        \/ \E t \in Top.todo : \E S :
              /\ S = Top.todo \ {t}
              /\ tasks' = IF t \in DOMAIN tasks THEN CancelBranch(tasks, t) ELSE tasks
              /\ Frames(calls') = Frames(Tail(calls))
                    \union (IF S = {} THEN {} ELSE {[Top EXCEPT !.todo = S]})
    BY CancelNextParts
  <1> QED
    BY <1>2, <1>4, <1>5, <1>6, <1>7

LEMMA CancelNextOutside ==
  ASSUME IInv, IInv', CancelNext, NEW inner, CancelsOutside(tasks, calls, inner)
  PROVE  CancelsOutside(tasks', calls', inner)
  <1>1. Tree(tasks', Specs) /\ Shrunk(tasks, tasks')
    BY IInvSplitPrime, CancelNextFrames
  <1>2. Stays(tasks, tasks') /\ SameSpecs(tasks, tasks') /\ DOMAIN tasks' \subseteq DOMAIN tasks
    BY <1>1, ShrunkStays DEF Shrunk, SameSpecs
  <1>3. \A g \in Frames(calls') : g.op = "cancel" =>
           \E f \in Frames(calls) : f.op = "cancel" /\ g.todo \subseteq f.todo
    BY CancelNextFrames
  <1> QED
    BY <1>1, <1>2, <1>3, OutsideStays

\* A join that cancels leaves the insides of the region to others, or the region is its own.
LEMMA WaitingOutside ==
  ASSUME NEW T, Tree(T, Specs), NEW J, NEW R, Region(J, R), NEW j \in DOMAIN T,
         Kind(T[j].spec) = "Join", Net[T[j].spec].cancel, Attached(T, j),
         NEW i \in DOMAIN WaitingTasks(T, j), NEW x \in WaitingTasks(T, j)[i] \intersect DOMAIN T,
         T[x].spec \in Inner(J, R)
  PROVE  x = Root \/ T[Parent(x)].state \in FINISHED
  <1>1. T[j].spec \in Specs
    BY StateTyped
  <1>2. CASE Unstructured(T, j)
    <2>1. i \in DOMAIN Inputs(T[j].spec) /\ T[x].spec = Inputs(T[j].spec)[i]
      BY <1>2 DEF WaitingTasks, Instances, OfSpec
    <2> QED
      BY <1>1, <1>2, <2>1 DEF Region, Inner, Unstructured
  <1>3. CASE ~Unstructured(T, j)
    <2>1. x \in ActivatedTasks(T, j)
      BY <1>3 DEF WaitingTasks
    <2>2. PICK s, name : s \in Nearest(T, j, name) /\ x \in Children(T, s)
      BY <2>1 DEF ActivatedTasks, SplitTask
    <2> QED
      BY <2>2 DEF Nearest, OfSpec, Children, Attached
  <1> QED
    BY <1>2, <1>3

LEMMA UpdateJoinOutside ==
  ASSUME IInv, ReachInv, UpdateJoin, NEW J, NEW R, Region(J, R)
  PROVE  NoneCancels(calls') \/ (UNCHANGED tasks /\ CancelsOutside(tasks, calls', Inner(J, R)))
  <1> DEFINE j     == Top.task
             todos == {WaitingTasks(tasks, j)[i] : i \in DOMAIN WaitingTasks(tasks, j)}
  <1>1. Tree(tasks, Specs)
    BY IInvSplit
  <1>2. /\ j \in DOMAIN tasks /\ Kind(tasks[j].spec) = "Join" /\ Attached(tasks, j)
        /\ NoneCancels(Tail(calls))
        /\ \/ NoneCancels(calls')
           \/ /\ UNCHANGED tasks
              /\ \A f \in Frames(calls') :
                    \/ f = Frame("join", j, {})
                    \/ f \in Frames(Tail(calls))
                    \/ Net[tasks[j].spec].cancel /\ \E S \in todos : f = Frame("cancel", j, S)
    <2> HIDE DEF todos
    <2> QED
      BY JoinFrames DEF todos
  <1>3. \A S : Frame("join", j, S).op = "join" /\ Frame("cancel", j, S).todo = S
    BY DEF Frame
  <1>4. ASSUME UNCHANGED tasks, NEW f \in Frames(calls'), f.op = "cancel",
               Net[tasks[j].spec].cancel, NEW S \in todos, f = Frame("cancel", j, S),
               NEW x \in f.todo \intersect DOMAIN tasks, tasks[x].spec \in Inner(J, R)
        PROVE  x = Root \/ tasks[Parent(x)].state \in FINISHED
    <2>1. PICK i \in DOMAIN WaitingTasks(tasks, j) : S = WaitingTasks(tasks, j)[i]
      OBVIOUS
    <2>2. x \in WaitingTasks(tasks, j)[i] \intersect DOMAIN tasks
      BY <1>3, <1>4, <2>1
    <2> QED
      BY <1>1, <1>2, <1>4, <2>2, WaitingOutside
  <1> HIDE DEF todos, j
  <1> QED
    BY <1>2, <1>3, <1>4 DEF CancelsOutside, NoneCancels

-----------------------------------------------------------------------------
(* What keeps its children.                                                *)

\* Of the tasks that stay, those outside S keep theirs.
KeepsKids(T, U, S) ==
    \A d \in DOMAIN T \intersect DOMAIN U : d \in S \/ Children(T, d) \subseteq DOMAIN U

LEMMA KidsKept ==
  ASSUME NEW T, NEW U, NEW S, KeepsKids(T, U, S), NEW d \in DOMAIN T \intersect DOMAIN U,
         d \notin S, Children(T, d) # {}
  PROVE  Children(U, d) # {}
  <1>1. PICK k \in Children(T, d) : TRUE
    OBVIOUS
  <1>2. k \in DOMAIN U /\ k # Root /\ Parent(k) = d
    BY <1>1 DEF KeepsKids, Children
  <1> QED
    BY <1>2 DEF Children

LEMMA SameKids == ASSUME NEW T, NEW U, DOMAIN U = DOMAIN T PROVE \A S : KeepsKids(T, U, S)
  BY DEF KeepsKids, Children

\* A child goes with its parent, or is one of those that are removed.
LEMMA RemovedKids ==
  ASSUME NEW T, Tree(T, Specs), NEW gone \in SUBSET Path, Root \notin gone,
         NEW d \in DOMAIN RemoveBranches(T, gone), NEW k \in Children(T, d), k \notin gone
  PROVE  k \in DOMAIN RemoveBranches(T, gone)
  <1>1. k \in DOMAIN T /\ k # Root /\ Parent(k) = d /\ k \in Path /\ d \in Path
    BY StateTyped, ParentLive DEF Children
  <1>2. \A r \in gone : r # d /\ ~Above(r, d)
    BY DEF RemoveBranches
  <1>3. ASSUME NEW r \in gone PROVE r # k /\ ~Above(r, k)
    BY <1>1, <1>2, AncestorOrParent
  <1> QED
    BY <1>1, <1>3 DEF RemoveBranches

LEMMA SyncKids ==
  ASSUME NEW T, Tree(T, Specs), NEW t \in DOMAIN T, NEW outs, NEW n, Gapped(outs, n),
         NEW state \in ANY
  PROVE  KeepsKids(T, SyncChildren(T, t, outs, n, state), {t})
  <1> DEFINE kept == Kept(T, t, outs, n)
             gone == Children(T, t) \ kept
             set  == SetState(T, kept \intersect InState(T, NOT_FINISHED), state)
             old  == RemoveBranches(set, gone)
             new  == [i \in Missing(T, t, outs) |-> outs[i]]
             U    == AddChildren(old, t, new, n, state)
  <1>1. t \in Path
    BY StateTyped
  <1>2. \A r \in gone : r # Root /\ Parent(r) = t /\ r # t /\ ~Above(r, t) /\ r \in Path
    BY <1>1, ChildDeeper DEF Tree, Children
  <1>3. /\ Tree(set, Specs) /\ DOMAIN set = DOMAIN T
        /\ \A d \in DOMAIN T : set[d].born = T[d].born
    BY SetStateTree, SetStateEffect
  <1> HIDE DEF kept, gone, set
  <1>4. gone \in SUBSET Path /\ Root \notin gone
    BY <1>2
  <1>5. t \in DOMAIN old /\ Tree(old, Specs) /\ \A d \in DOMAIN old : old[d] = set[d]
    BY <1>2, <1>3, <1>4, RemoveBranchesTree
  <1>6. DOMAIN new \subseteq 1..n /\ \A i \in DOMAIN new : new[i] \in Specs
    BY DEF Missing, Gapped
  <1> HIDE DEF old, new
  <1>7. DOMAIN old \subseteq DOMAIN U /\ Grown(old, U, t, {state})
    BY <1>5, <1>6, AddChildrenTree DEF Gapped
  <1> HIDE DEF U
  <1>8. ASSUME NEW d \in DOMAIN T \intersect DOMAIN U, d # t, NEW k \in Children(T, d)
        PROVE  k \in DOMAIN U
    <2>1. k \in DOMAIN T /\ k # Root /\ Parent(k) = d
      BY DEF Children
    <2>2. d \in DOMAIN old
      <3> SUFFICES ASSUME d \notin DOMAIN old PROVE FALSE
        OBVIOUS
      <3>1. d # Root /\ Parent(d) = t /\ Slot(d) > old[t].born
        BY <1>7 DEF Grown
      <3>2. old[t].born = T[t].born /\ T[t].born \in Nat /\ Slot(d) \in 1..T[t].born
        BY <1>3, <1>5, <3>1 DEF Tree, IsTree, TaskType, Closed
      <3> QED
        BY <3>1, <3>2
    <2>3. k \notin gone /\ k \in Children(set, d)
      BY <1>2, <1>3, <1>8, <2>1 DEF Children
    <2>4. k \in DOMAIN old
      BY <1>3, <1>4, <2>2, <2>3, RemovedKids DEF old
    <2> QED
      BY <1>7, <2>4
  <1>9. U = SyncChildren(T, t, outs, n, state)
    BY DEF U, SyncChildren, old, set, gone, kept, new
  <1> QED
    BY <1>8, <1>9 DEF KeepsKids

LEMMA PredictKids ==
  ASSUME NEW T, Tree(T, Specs), NEW t \in DOMAIN T, NEW n \in Nat
  PROVE  KeepsKids(T, PredictHook(T, t, n), {t})
  <1> DEFINE s == T[t].spec
             V == SyncChildren(T, t, PredictedOutputs(s, n), OutputCount(s, n), PredictedState(T, t))
             U == AddChildren(V, t, Conditional(s), Len(Outputs(s)), "MAYBE")
  <1>1. Gapped(PredictedOutputs(s, n), OutputCount(s, n)) /\ PredictedState(T, t) \in ANY
    BY StateTyped, PredictedOutputsGapped, PredictedStateTyped
  <1>2. KeepsKids(T, V, {t})
    BY <1>1, SyncKids
  <1>3. Tree(V, Specs) /\ t \in DOMAIN V
    BY <1>1, SyncTyped
  <1>4. Gapped(Conditional(s), Len(Outputs(s)))
    BY StateTyped, PickGapped DEF Conditional
  <1>5. Grown(T, V, t, {PredictedState(T, t)})
    BY <1>1, SyncChildrenTree DEF Gapped
  <1>6. DOMAIN V \subseteq DOMAIN U /\ Grown(V, U, t, {"MAYBE"})
    <2>1. "MAYBE" \in ANY
      BY StatesDiffer
    <2> HIDE DEF V
    <2> QED
      BY <1>3, <1>4, <2>1, AddChildrenTree DEF Gapped
  <1> HIDE DEF V, U
  <1>7. ASSUME NEW d \in DOMAIN T \intersect DOMAIN U, d # t, NEW k \in Children(T, d)
        PROVE  k \in DOMAIN U
    <2>1. d \in DOMAIN V
      <3> SUFFICES ASSUME d \notin DOMAIN V PROVE FALSE
        OBVIOUS
      <3>1. d # Root /\ Parent(d) = t /\ Slot(d) > V[t].born
        BY <1>6 DEF Grown
      <3>2. V[t].born \in Nat /\ V[t].born >= T[t].born
        BY <1>3, <1>5 DEF Grown, Tree, IsTree, TaskType
      <3>3. T[t].born \in Nat /\ Slot(d) \in 1..T[t].born
        BY <3>1 DEF Tree, IsTree, TaskType, Closed
      <3> QED
        BY <3>1, <3>2, <3>3
    <2> QED
      BY <1>2, <1>6, <1>7, <2>1 DEF KeepsKids
  <1> QED
    BY <1>2, <1>7 DEF PredictHook, KeepsKids, V, U

\* What is unfinished and stays loses no child, unless it is told to drop them.
LEMMA DropKids ==
  ASSUME NEW T, Tree(T, Specs), NEW S \in SUBSET Path,
         NEW d \in DOMAIN DropChildren(T, S), T[d].state \in NOT_FINISHED, d \notin S,
         NEW k \in Children(T, d)
  PROVE  k \in DOMAIN DropChildren(T, S)
  <1> DEFINE gone == {x \in InState(T, NOT_FINISHED) : \E t \in S : Above(t, x)}
  <1>1. gone \in SUBSET Path /\ Root \notin gone
    BY StateTyped, NothingAboveRoot DEF InState
  <1>2. k \in DOMAIN T /\ k # Root /\ Parent(k) = d /\ k \in Path /\ d \in DOMAIN T /\ d \in Path
    BY StateTyped, ParentLive DEF Children
  <1>3. d \notin gone
    BY DEF DropChildren, RemoveBranches
  <1>4. \A t \in S : ~Above(t, d)
    BY <1>2, <1>3 DEF InState
  <1>5. k \notin gone
    BY <1>2, <1>4, AncestorOrParent
  <1> HIDE DEF gone
  <1> QED
    BY <1>1, <1>5, RemovedKids DEF DropChildren, gone

LEMMA CancelKids ==
  ASSUME NEW T, Tree(T, Specs), NEW t, NEW d \in DOMAIN CancelBranch(T, t),
         CancelBranch(T, t)[d].state \in NOT_FINISHED, Children(T, d) # {}
  PROVE  Children(CancelBranch(T, t), d) # {}
  <1> DEFINE open == Branch(T, t) \intersect InState(T, NOT_FINISHED)
             top  == {a \in open : ~\E e \in open : Above(e, a)}
             V    == SetState(T, top, "CANCELLED")
             U    == DropChildren(V, top)
  <1>1. U = CancelBranch(T, t)
    BY DEF CancelBranch
  <1>2. top \in SUBSET Path /\ "CANCELLED" \in ANY /\ "CANCELLED" \notin NOT_FINISHED
    BY StateTyped, StatesDiffer DEF InState
  <1> HIDE DEF open, top
  <1>3. Tree(V, Specs) /\ DOMAIN V = DOMAIN T /\ \A a \in top \intersect DOMAIN T : V[a].state = "CANCELLED"
    BY <1>2, SetStateTree, SetStateEffect
  <1> HIDE DEF V
  <1>4. DOMAIN U \subseteq DOMAIN V /\ \A a \in DOMAIN U : U[a] = V[a]
    BY DropChildrenShrunk DEF Shrunk
  <1>5. d \in DOMAIN V /\ V[d].state \in NOT_FINISHED /\ d \notin top
    BY <1>1, <1>2, <1>3, <1>4
  <1>6. PICK k \in Children(T, d) : TRUE
    OBVIOUS
  <1>7. k \in Children(V, d) /\ k # Root /\ Parent(k) = d
    BY <1>3, <1>6 DEF Children
  <1>8. k \in DOMAIN U
    BY <1>1, <1>2, <1>3, <1>5, <1>7, DropKids
  <1> QED
    BY <1>1, <1>7, <1>8 DEF Children

-----------------------------------------------------------------------------
(* What is run.                                                            *)

LEMMA CompletingFrames ==
  \A c, t : t \in Completing(c) <=> \E f \in Frames(c) : f.op = "complete" /\ f.task = t
  BY DEF Completing, Frames

LEMMA RunPushed ==
  ASSUME NEW t \in Path, NEW frames \in Seq(FrameType), RunWith(t, frames)
  PROVE  /\ Frames(calls') = Frames(frames) \union {Frame("complete", t, {})}
         /\ t \in Completing(calls')
  <1> DEFINE done == Frame("complete", t, {})
  <1>1. done \in FrameType /\ done.op = "complete" /\ done.task = t
    BY FrameTyped DEF Ops, Frame
  <1>2. calls' = frames \o <<done>>
    BY DEF RunWith
  <1> HIDE DEF done
  <1>3. <<done>> \in Seq(FrameType) /\ Frames(<<done>>) = {done}
    BY <1>1, StackNone
  <1>4. Frames(calls') = Frames(frames) \union {done}
    BY <1>2, <1>3, StackConcat
  <1>5. t \in Completing(calls')
    BY <1>1, <1>4, CompletingFrames
  <1> QED
    BY <1>4, <1>5 DEF done

\* The calls that a split makes: the prediction of its children, then the completion.
LEMMA RunSplitFrames ==
  ASSUME IInv, IInv', ReachInv, NEW t, NEW kinds, Running(t, kinds),
         NEW outs, NEW n, NEW looked \in {0, 1}, RunSplit(t, outs, n, looked), calls' # <<>>
  PROVE  LET mask == PREDICTED \union {"FUTURE"}
         IN  /\ tasks' = SyncChildren(tasks, t, outs, n, "FUTURE")
             /\ t \in Completing(calls')
             /\ \E f \in Frames(calls') :
                   /\ f.op = "predict" /\ f.mask = mask
                   /\ f.todo = InState(tasks', mask) \intersect Children(tasks', t)
             /\ \A f \in Frames(calls') : f.op \in {"predict", "complete"}
  <1> DEFINE mask   == PREDICTED \union {"FUTURE"}
             S      == InState(tasks', mask) \intersect Children(tasks', t)
             f      == PredictFrame(t, S, looked, mask)
             frames == <<f>>
  <1>1. calls = <<>> /\ Tree(tasks', Specs) /\ t \in Path
    BY RunnableReach, IInvSplitPrime
  <1>2. tasks' = SyncChildren(tasks, t, outs, n, "FUTURE") /\ RunWith(t, frames)
    BY <1>1 DEF RunSplit, RunRaises
  <1>3. S \in SUBSET Path /\ mask \in SUBSET ANY /\ looked \in Nat
    BY <1>1, ChildrenTyped, MasksTyped
  <1> HIDE DEF S, mask
  <1>4. f \in FrameType /\ f.op = "predict" /\ f.todo = S /\ f.mask = mask
    BY <1>1, <1>3, PredictFrameTyped DEF PredictFrame
  <1> HIDE DEF f
  <1>5. frames \in Seq(FrameType) /\ Frames(frames) = {f}
    BY <1>4, StackNone
  <1> HIDE DEF frames
  <1>6. Frames(calls') = {f, Frame("complete", t, {})} /\ t \in Completing(calls')
    BY <1>1, <1>2, <1>5, RunPushed
  <1>7. Frame("complete", t, {}).op = "complete"
    BY DEF Frame
  <1> QED
    BY <1>2, <1>4, <1>6, <1>7 DEF S, mask

\* What a run does to the tree and what it calls.
RanPlainly(t) ==
    /\ \/ UNCHANGED tasks
       \/ IsCompleted(tasks')
    /\ \A f \in Frames(calls') : f.op = "complete"
    /\ t \in Completing(calls')

RanBadly(t) ==
    /\ calls' = <<>>
    /\ \E T : /\ Tree(T, Specs) /\ DOMAIN T = DOMAIN tasks
              /\ \A d \in DOMAIN T : T[d].state = tasks[d].state /\ T[d].spec = tasks[d].spec
              /\ tasks' = SetState(T, {t}, "ERROR")

RanCanceling(t) ==
    /\ UNCHANGED tasks /\ Kind(tasks[t].spec) = "CancelTask"
    /\ t \in Completing(calls')
    /\ \A f \in Frames(calls') :
          \/ f.op = "complete"
          \/ /\ f.op = "cancel"
             /\ \E i \in DOMAIN Net[tasks[t].spec].context :
                   f.todo = OfSpec(tasks, Net[tasks[t].spec].context[i])

RanSplitting(t) ==
    /\ t \in Completing(calls')
    /\ \E outs, n : Gapped(outs, n) /\ tasks' = SyncChildren(tasks, t, outs, n, "FUTURE")
    /\ \E f \in Frames(calls') :
          /\ f.op = "predict" /\ f.mask = PREDICTED \union {"FUTURE"}
          /\ f.todo = InState(tasks', f.mask) \intersect Children(tasks', t)
    /\ \A f \in Frames(calls') : f.op \in {"predict", "complete"}

RanThreads(t) ==
    /\ t \in Completing(calls')
    /\ Kind(tasks[t].spec) \in {"ThreadSplit", "ThreadStart"}
    /\ \E T, outs, n : \E state \in {"FUTURE", "READY"} :
          /\ Tree(T, Specs) /\ DOMAIN T = DOMAIN tasks
          /\ \A d \in DOMAIN T : T[d].state = tasks[d].state /\ T[d].spec = tasks[d].spec
          /\ Gapped(outs, n) /\ tasks' = SyncChildren(T, t, outs, n, state)
    /\ \A f \in Frames(calls') : f.op = "complete"

LEMMA AloneFrames ==
  ASSUME NEW t \in Path, RunWith(t, <<>>)
  PROVE  t \in Completing(calls') /\ \A f \in Frames(calls') : f.op = "complete"
  <1>1. <<>> \in Seq(FrameType) /\ Frames(<<>>) = {}
    BY NoFrame, StackNone
  <1>2. Frame("complete", t, {}).op = "complete"
    BY DEF Frame
  <1>3. /\ Frames(calls') = Frames(<<>>) \union {Frame("complete", t, {})}
        /\ t \in Completing(calls')
    BY <1>1, RunPushed
  <1> QED
    BY <1>1, <1>2, <1>3

LEMMA CancelTaskRuns ==
  ASSUME IInv, ReachInv, NEW t, RunCancelTask(t)
  PROVE  RanCanceling(t)
  <1> DEFINE context == Net[tasks[t].spec].context
             frames  == [i \in DOMAIN context |-> Frame("cancel", t, OfSpec(tasks, context[i]))]
  <1>1. /\ Tree(tasks, Specs) /\ t \in DOMAIN tasks /\ t \in Path
        /\ Kind(tasks[t].spec) = "CancelTask" /\ UNCHANGED tasks
    BY RunnableReach DEF RunCancelTask
  <1>2. frames \in Seq(FrameType)
    BY <1>1, ContextFrames
  <1>3. RunWith(t, frames)
    BY DEF RunCancelTask
  <1>4. ASSUME NEW f \in Frames(frames)
        PROVE  f.op = "cancel" /\ \E i \in DOMAIN context : f.todo = OfSpec(tasks, context[i])
    <2>1. PICK i \in DOMAIN frames : f = frames[i]
      BY DEF Frames
    <2>2. i \in DOMAIN context /\ frames[i] = Frame("cancel", t, OfSpec(tasks, context[i]))
      OBVIOUS
    <2> HIDE DEF frames
    <2> QED
      BY <2>1, <2>2 DEF Frame
  <1> HIDE DEF frames
  <1>5. /\ Frames(calls') = Frames(frames) \union {Frame("complete", t, {})}
        /\ t \in Completing(calls')
    BY <1>1, <1>2, <1>3, RunPushed
  <1>6. Frame("complete", t, {}).op = "complete"
    BY DEF Frame
  <1> QED
    BY <1>1, <1>4, <1>5, <1>6 DEF RanCanceling

LEMMA SplitsRuns ==
  ASSUME IInv, IInv', ReachInv, NEW t,
         RunMultiChoice(t) \/ RunExclusiveChoice(t) \/ RunMultiInstance(t)
  PROVE  RanBadly(t) \/ RanSplitting(t)
  <1> DEFINE s == tasks[t].spec
  <1>1. PICK kinds : Running(t, kinds) /\ (RunExclusiveChoice(t) => kinds = {"ExclusiveChoice"})
    BY DEF RunMultiChoice, RunExclusiveChoice, RunMultiInstance
  <1>2. /\ Tree(tasks, Specs) /\ calls = <<>> /\ t \in DOMAIN tasks /\ s \in Specs
        /\ Kind(s) \in kinds
    BY <1>1, RunnableReach
  <1>3. \E outs, n : \E looked \in {0, 1} : Gapped(outs, n) /\ RunSplit(t, outs, n, looked)
    <2>1. CASE RunMultiInstance(t)
      <3>1. PICK n \in Net[s].times : RunSplit(t, PredictedOutputs(s, n), OutputCount(s, n), 1)
        BY <2>1 DEF RunMultiInstance
      <3>2. Gapped(PredictedOutputs(s, n), OutputCount(s, n))
        BY <1>2, NetTyped, PredictedOutputsGapped
      <3> QED
        BY <3>1, <3>2
    <2>2. CASE RunMultiChoice(t)
      <3>1. PICK S : RunSplit(t, Pick(Outputs(s), S), Len(Outputs(s)), 0)
        BY <2>2 DEF RunMultiChoice
      <3>2. Gapped(Pick(Outputs(s), S), Len(Outputs(s)))
        BY <1>2, PickGapped
      <3> QED
        BY <3>1, <3>2
    <2>3. CASE RunExclusiveChoice(t)
      <3>1. PICK output \in Net[s].cond \union {Net[s].default} : RunSplit(t, <<output>>, 1, 0)
        BY <2>3 DEF RunExclusiveChoice
      <3>2. output \in Specs
        BY <1>1, <1>2, <2>3, ChosenIsOutput
      <3>3. Gapped(<<output>>, 1)
        BY <3>2 DEF Gapped
      <3> QED
        BY <3>1, <3>3
    <2> QED
      BY <2>1, <2>2, <2>3
  <1>4. PICK outs, n : \E looked \in {0, 1} : Gapped(outs, n) /\ RunSplit(t, outs, n, looked)
    BY <1>3
  <1> DEFINE split(looked) == Gapped(outs, n) /\ RunSplit(t, outs, n, looked)
  <1>5. PICK looked \in {0, 1} : split(looked)
    BY <1>4
  <1>6. CASE calls' = <<>>
    <2>1. RunRaises(t)
      <3> SUFFICES ASSUME ~RunRaises(t) PROVE FALSE
        OBVIOUS
      <3>1. PICK f : RunWith(t, <<f>>)
        BY <1>5 DEF RunSplit
      <3> QED
        BY <1>6, <3>1 DEF RunWith
    <2> QED
      BY <1>2, <1>6, <2>1 DEF RanBadly, RunRaises
  <1>7. CASE calls' # <<>>
    <2>1. /\ tasks' = SyncChildren(tasks, t, outs, n, "FUTURE")
          /\ t \in Completing(calls')
          /\ \E f \in Frames(calls') :
                /\ f.op = "predict" /\ f.mask = PREDICTED \union {"FUTURE"}
                /\ f.todo = InState(tasks', PREDICTED \union {"FUTURE"}) \intersect Children(tasks', t)
          /\ \A f \in Frames(calls') : f.op \in {"predict", "complete"}
      BY <1>1, <1>7, <1>5, RunSplitFrames
    <2> QED
      BY <1>5, <2>1 DEF RanSplitting
  <1> QED
    BY <1>6, <1>7

LEMMA ThreadsRun ==
  ASSUME IInv, ReachInv, NEW t, RunThreadSplit(t) \/ RunThreadStart(t)
  PROVE  RanBadly(t) \/ RanThreads(t)
  <1> DEFINE s == tasks[t].spec
  <1>1. PICK kinds : Running(t, kinds) /\ kinds \subseteq {"ThreadSplit", "ThreadStart"}
    BY DEF RunThreadSplit, RunThreadStart
  <1>2. /\ Tree(tasks, Specs) /\ calls = <<>> /\ t \in DOMAIN tasks /\ t \in Path /\ s \in Specs
        /\ Kind(s) \in {"ThreadSplit", "ThreadStart"}
    BY <1>1, RunnableReach
  <1>3. ASSUME NEW T, Tree(T, Specs), DOMAIN T = DOMAIN tasks,
               \A d \in DOMAIN T : T[d].state = tasks[d].state /\ T[d].spec = tasks[d].spec,
               NEW outs, NEW n, Gapped(outs, n), NEW state \in {"FUTURE", "READY"},
               \/ tasks' = SetState(T, {t}, "ERROR") /\ UNCHANGED calls
               \/ tasks' = SyncChildren(T, t, outs, n, state) /\ RunWith(t, <<>>)
        PROVE  RanBadly(t) \/ RanThreads(t)
    <2>1. CASE tasks' = SetState(T, {t}, "ERROR") /\ UNCHANGED calls
      <3>1. calls' = <<>>
        BY <1>2, <2>1
      <3> QED
        BY <1>3, <2>1, <3>1 DEF RanBadly
    <2>2. CASE tasks' = SyncChildren(T, t, outs, n, state) /\ RunWith(t, <<>>)
      <3>1. t \in Completing(calls') /\ \A f \in Frames(calls') : f.op = "complete"
        BY <1>2, <2>2, AloneFrames
      <3> QED
        BY <1>2, <1>3, <2>2, <3>1 DEF RanThreads
    <2> QED
      BY <1>3, <2>1, <2>2
  <1>4. CASE RunThreadSplit(t)
    <2>1. PICK n \in Net[s].times :
             \/ RunRaises(t)
             \/ /\ tasks' = SyncChildren(tasks, t, PredictedOutputs(s, n), OutputCount(s, n), "FUTURE")
                /\ RunWith(t, <<>>)
      BY <1>4 DEF RunThreadSplit
    <2>2. Gapped(PredictedOutputs(s, n), OutputCount(s, n))
      BY <1>2, NetTyped, PredictedOutputsGapped
    <2> QED
      BY <1>2, <1>3, <2>1, <2>2 DEF RunRaises
  <1>5. CASE RunThreadStart(t)
    <2> DEFINE T    == AssignThread(tasks, t, threads + 1)
               outs == Outputs(s)
    <2>1. /\ Tree(T, Specs) /\ DOMAIN T = DOMAIN tasks
          /\ \A d \in DOMAIN T : T[d].state = tasks[d].state /\ T[d].spec = tasks[d].spec
      <3>1. threads + 1 \in Nat
        BY DEF IInv, TypeOK
      <3> QED
        BY <1>2, <3>1, AssignThreadTree
    <2>2. \/ tasks' = SetState(T, {t}, "ERROR") /\ UNCHANGED calls
          \/ tasks' = SyncChildren(T, t, outs, Len(outs), "READY") /\ RunWith(t, <<>>)
      BY <1>5 DEF RunThreadStart
    <2>3. Gapped(outs, Len(outs))
      BY <1>2, OutputsGapped
    <2> HIDE DEF T, outs
    <2> QED
      BY <1>3, <2>1, <2>2, <2>3
  <1> QED
    BY <1>4, <1>5

LEMMA RunsRun ==
  ASSUME IInv, IInv', ReachInv, NEW t \in DOMAIN tasks, RunTask(t)
  PROVE  RanPlainly(t) \/ RanBadly(t) \/ RanCanceling(t) \/ RanSplitting(t) \/ RanThreads(t)
  <1>1. PICK kinds : Running(t, kinds)
    BY DEF RunTask, RunSimple, RunFails, RunMultiChoice, RunExclusiveChoice, RunMultiInstance,
           RunThreadSplit, RunThreadStart, RunReleaseMutex, RunCancel, RunCancelTask
  <1>2. calls = <<>> /\ Tree(tasks, Specs) /\ t \in Path
    BY <1>1, RunnableReach
  <1>3. CASE RunRaises(t)
    BY <1>2, <1>3 DEF RunRaises, RanBadly
  <1>4. CASE RunWith(t, <<>>) /\ (UNCHANGED tasks \/ IsCompleted(tasks'))
    BY <1>2, <1>4, AloneFrames DEF RanPlainly
  <1>5. CASE RunCancel(t)
    <2>1. IsCompleted(CancelBranch(tasks, Root))
      BY <1>2, CancelRootCompletes
    <2> QED
      BY <1>4, <1>5, <2>1 DEF RunCancel
  <1>6. CASE RunSimple(t) \/ RunFails(t) \/ RunReleaseMutex(t)
    BY <1>3, <1>4, <1>6 DEF RunSimple, RunFails, RunReleaseMutex
  <1> QED
    BY <1>5, <1>6, CancelTaskRuns, SplitsRuns, ThreadsRun DEF RunTask

\* What a run cancels lies outside the region.
LEMMA RunOutside ==
  ASSUME IInv, IInv', ReachInv, NEW t \in DOMAIN tasks, RunTask(t), NEW J, NEW R, Region(J, R)
  PROVE  CancelsOutside(tasks', calls', Inner(J, R))
  <1>1. CASE RanPlainly(t) \/ RanSplitting(t) \/ RanThreads(t)
    <2>1. \A f \in Frames(calls') : f.op # "cancel"
      BY <1>1 DEF RanPlainly, RanSplitting, RanThreads
    <2> QED
      BY <2>1 DEF CancelsOutside
  <1>2. CASE RanBadly(t)
    BY <1>2, StackNone DEF RanBadly, CancelsOutside
  <1>3. CASE RanCanceling(t)
    <2> SUFFICES ASSUME NEW f \in Frames(calls'), f.op = "cancel",
                        NEW x \in f.todo \intersect DOMAIN tasks', tasks'[x].spec \in Inner(J, R)
                 PROVE  FALSE
      BY DEF CancelsOutside
    <2>1. PICK i \in DOMAIN Net[tasks[t].spec].context :
             f.todo = OfSpec(tasks, Net[tasks[t].spec].context[i])
      BY <1>3 DEF RanCanceling
    <2>2. tasks[x].spec = Net[tasks[t].spec].context[i]
      BY <2>1 DEF OfSpec
    <2>3. tasks[t].spec \in Specs /\ Kind(tasks[t].spec) = "CancelTask" /\ UNCHANGED tasks
      BY <1>3, IInvSplit, StateTyped DEF RanCanceling
    <2> QED
      BY <2>2, <2>3 DEF Region, Inner
  <1> QED
    BY <1>1, <1>2, <1>3, RunsRun

LEMMA NextOutside ==
  ASSUME IInv, IInv', ReachInv, Step \/ Run \/ UpdateWaitingTasks \/ Cancel,
         NEW J, NEW R, Region(J, R), CancelsOutside(tasks, calls, Inner(J, R))
  PROVE  CancelsOutside(tasks', calls', Inner(J, R))
  <1>1. CASE NoneCancels(calls')
    BY <1>1, NoneOutside
  <1>2. CASE UpdateJoin
    BY <1>1, <1>2, UpdateJoinOutside
  <1>3. CASE CancelNext
    BY <1>3, CancelNextOutside
  <1>4. CASE Run
    BY <1>4, RunOutside DEF Run
  <1>5. CASE UpdateWaitingTasks
    <2>1. Frames(calls') = {Frame("visit", Root, {Root})}
      BY <1>5, StackNone DEF UpdateWaitingTasks
    <2> QED
      BY <1>1, <2>1 DEF NoneCancels, Frame
  <1>6. CASE Cancel
    <2>1. Frames(calls') = {}
      BY <1>6, StackNone DEF Cancel, Quiescent
    <2> QED
      BY <1>1, <2>1 DEF NoneCancels
  <1> QED
    BY <1>1, <1>2, <1>3, <1>4, <1>5, <1>6, StepNoneCancels

\* At rest every definite task of the region has children, and so it is after a run.
LEMMA RunDown ==
  ASSUME IInv, IInv', ReachInv, NEW t \in DOMAIN tasks, RunTask(t), NEW J, NEW R, Region(J, R),
         FollowsNet(tasks'), GoesDown(tasks, calls, J, R)
  PROVE  GoesDown(tasks', calls', J, R)
  <1>1. /\ Tree(tasks, Specs) /\ Tree(tasks', Specs) /\ calls = <<>> /\ t \in Path
        /\ tasks[t].state \in NOT_FINISHED /\ tasks[t].spec \in Specs
    <2>1. PICK kinds : Running(t, kinds)
      BY DEF RunTask, RunSimple, RunFails, RunMultiChoice, RunExclusiveChoice, RunMultiInstance,
             RunThreadSplit, RunThreadStart, RunReleaseMutex, RunCancel, RunCancelTask
    <2> QED
      BY <2>1, RunnableReach, IInvSplitPrime, StatesDiffer
  <1>2. \A d \in DOMAIN tasks : tasks[d].spec \in Inner(J, R) /\ tasks[d].state \in DEFINITE =>
           Children(tasks, d) # {}
    BY <1>1, StackNone, CompletingFrames DEF GoesDown, Awaited, Founded, Foreseen
  <1>3. \A d : ~Hooked(calls', d)
    <2>1. \A f \in Frames(calls') : f.op # "hook"
      BY RunsRun, StackNone DEF RanPlainly, RanBadly, RanCanceling, RanSplitting, RanThreads
    <2> QED
      BY <2>1 DEF Hooked
  <1> SUFFICES ASSUME NEW d \in DOMAIN tasks', tasks'[d].spec \in Inner(J, R),
                      tasks'[d].state \in DEFINITE, d \notin Completing(calls')
               PROVE  Children(tasks', d) # {} \/ Foreseen(tasks', calls', d)
    BY <1>3 DEF GoesDown, Awaited, Founded
  <1>4. CASE RanPlainly(t) \/ RanCanceling(t)
    <2>1. UNCHANGED tasks
      BY <1>4, StatesDiffer DEF RanPlainly, RanCanceling, IsCompleted, InState
    <2> QED
      BY <1>2, <2>1
  <1>5. CASE RanBadly(t)
    <2>1. PICK T : /\ Tree(T, Specs) /\ DOMAIN T = DOMAIN tasks
                   /\ \A x \in DOMAIN T : T[x].state = tasks[x].state /\ T[x].spec = tasks[x].spec
                   /\ tasks' = SetState(T, {t}, "ERROR")
      BY <1>5 DEF RanBadly
    <2>2. /\ DOMAIN tasks' = DOMAIN T /\ tasks'[d].spec = T[d].spec
          /\ tasks'[d].state = IF d \in {t} THEN "ERROR" ELSE T[d].state
      <3>1. d \in DOMAIN T
        BY <2>1, SetStateEffect
      <3> QED
        BY <2>1, <3>1, SetStateEffect
    <2>3. tasks[d].spec \in Inner(J, R) /\ tasks[d].state \in DEFINITE /\ d \in DOMAIN tasks
      BY <2>1, <2>2, StatesDiffer
    <2>4. Children(tasks', d) = Children(tasks, d)
      BY <2>1, <2>2 DEF Children
    <2> QED
      BY <1>2, <2>3, <2>4
  <1>6. ASSUME NEW T, Tree(T, Specs), DOMAIN T = DOMAIN tasks,
               \A x \in DOMAIN T : T[x].state = tasks[x].state /\ T[x].spec = tasks[x].spec,
               NEW outs, NEW n, Gapped(outs, n), NEW state \in {"FUTURE", "READY"},
               tasks' = SyncChildren(T, t, outs, n, state), t \in Completing(calls')
        PROVE  \/ Children(tasks', d) # {}
               \/ d \in Children(tasks', t) /\ tasks'[d].state = state
    <2>1. d # t /\ t \in DOMAIN T
      BY <1>6
    <2>2. Grown(T, tasks', t, {state}) /\ KeepsKids(T, tasks', {t})
      <3>1. state \in ANY
        BY StatesDiffer
      <3> QED
        BY <1>6, <2>1, <3>1, SyncKids, SyncChildrenTree DEF Gapped
    <2>3. CASE d \in DOMAIN T /\ tasks'[d].state = T[d].state
      <3>1. T[d].spec = tasks'[d].spec
        BY <2>2, <2>3 DEF Grown
      <3>2. Children(tasks, d) # {}
        BY <1>2, <1>6, <2>3, <3>1
      <3>3. Children(T, d) # {}
        BY <1>6, <3>2 DEF Children
      <3> QED
        BY <2>1, <2>2, <2>3, <3>3, KidsKept
    <2>4. CASE ~(d \in DOMAIN T /\ tasks'[d].state = T[d].state)
      BY <2>2, <2>4 DEF Grown, Children
    <2> QED
      BY <2>3, <2>4
  <1>7. CASE RanSplitting(t)
    <2>1. PICK outs, n : Gapped(outs, n) /\ tasks' = SyncChildren(tasks, t, outs, n, "FUTURE")
      BY <1>7 DEF RanSplitting
    <2>2. \/ Children(tasks', d) # {}
          \/ d \in Children(tasks', t) /\ tasks'[d].state = "FUTURE"
      BY <1>1, <1>6, <1>7, <2>1 DEF RanSplitting
    <2>3. ASSUME d \in Children(tasks', t), tasks'[d].state = "FUTURE"
          PROVE  Foreseen(tasks', calls', d)
      BY <1>7, <2>3 DEF RanSplitting, Foreseen, InState
    <2> QED
      BY <2>2, <2>3
  <1>8. CASE RanThreads(t)
    <2>1. PICK T, outs, n : \E state \in {"FUTURE", "READY"} :
             /\ Tree(T, Specs) /\ DOMAIN T = DOMAIN tasks
             /\ \A x \in DOMAIN T : T[x].state = tasks[x].state /\ T[x].spec = tasks[x].spec
             /\ Gapped(outs, n) /\ tasks' = SyncChildren(T, t, outs, n, state)
      BY <1>8 DEF RanThreads
    <2>2. Children(tasks', d) # {} \/ d \in Children(tasks', t)
      BY <1>6, <1>8, <2>1 DEF RanThreads
    <2>3. ASSUME d \in Children(tasks', t) PROVE FALSE
      <3>1. t \in DOMAIN tasks' /\ tasks'[t].spec = tasks[t].spec
        <4>1. PICK state \in {"FUTURE", "READY"} : tasks' = SyncChildren(T, t, outs, n, state)
          BY <2>1
        <4>2. state \in ANY /\ t \in DOMAIN T
          BY <2>1, StatesDiffer
        <4>3. Grown(T, tasks', t, {state})
          BY <2>1, <4>1, <4>2, SyncChildrenTree DEF Gapped
        <4> QED
          BY <2>1, <4>2, <4>3 DEF Grown
      <3>2. tasks'[d].spec \in Follows(tasks[t].spec)
        BY <2>3, <3>1 DEF FollowsNet, Children
      <3>3. tasks[t].spec \in Specs /\ Kind(tasks[t].spec) \in {"ThreadSplit", "ThreadStart"}
        BY <1>1, <1>8 DEF RanThreads
      <3> QED
        BY <3>2, <3>3, RegionSpecs DEF Region
    <2> QED
      BY <2>2, <2>3
  <1> QED
    BY <1>4, <1>5, <1>7, <1>8, RunsRun

-----------------------------------------------------------------------------
(* What is predicted gets children.                                        *)

LEMMA SmallestSlot ==
  ASSUME NEW T, Tree(T, Specs), NEW t \in DOMAIN T, NEW S \in SUBSET Children(T, t), S # {}
  PROVE  \E c \in S : \A b \in S : Slot(c) <= Slot(b)
  <1> DEFINE slots == {Slot(c) : c \in S}
             R     == {p \in Nat \X Nat : p[1] < p[2]}
  <1>1. \A c \in S : Slot(c) \in Nat
    BY ChildrenFinite
  <1>2. slots \subseteq Nat /\ slots # {}
    BY <1>1
  <1>3. IsWellFoundedOn(R, Nat)
    BY NatLessThanWellFounded, Zenon DEF OpToRel
  <1> HIDE DEF R
  <1>4. PICK n \in slots : \A k \in slots : <<k, n>> \notin R
    <2> HIDE DEF slots
    <2> QED
      BY <1>2, <1>3, WFMin
  <1>5. PICK c \in S : n = Slot(c)
    OBVIOUS
  <1>6. ASSUME NEW b \in S PROVE Slot(c) <= Slot(b)
    <2>1. Slot(b) \in slots /\ Slot(b) \in Nat /\ Slot(c) \in Nat
      BY <1>1
    <2>2. ~(Slot(b) < n)
      BY <1>2, <1>4, <2>1 DEF R
    <2> QED
      BY <1>5, <2>1, <2>2
  <1> QED
    BY <1>6

LEMMA PlacesFinite ==
  ASSUME NEW outs, NEW n, Gapped(outs, n), NEW s, NEW k
  PROVE  /\ IsFiniteSet(Places(outs, s, k)) /\ Cardinality(Places(outs, s, k)) \in Nat
         /\ Places(outs, s, k) # {} => Cardinality(Places(outs, s, k)) >= 1
  <1>1. IsFiniteSet(1..n)
    BY FS_Interval DEF Gapped
  <1>2. Places(outs, s, k) \subseteq 1..n
    BY DEF Gapped, Places
  <1> HIDE DEF Places
  <1>3. IsFiniteSet(Places(outs, s, k))
    BY <1>1, <1>2, FS_Subset
  <1>4. Cardinality(Places(outs, s, k)) \in Nat
    BY <1>3, FS_CardinalityType
  <1>5. Places(outs, s, k) # {} => Cardinality(Places(outs, s, k)) # 0
    BY <1>3, AtMostOne
  <1> QED
    BY <1>3, <1>4, <1>5

\* If there is something to create, something is kept or created.
LEMMA SyncSome ==
  ASSUME NEW T, Tree(T, Specs), NEW t \in DOMAIN T, NEW outs, NEW n, Gapped(outs, n),
         NEW state \in ANY, NEW i \in DOMAIN outs
  PROVE  Children(SyncChildren(T, t, outs, n, state), t) # {}
  <1> DEFINE kept  == Kept(T, t, outs, n)
             gone  == Children(T, t) \ kept
             set   == SetState(T, kept \intersect InState(T, NOT_FINISHED), state)
             old   == RemoveBranches(set, gone)
             new   == [k \in Missing(T, t, outs) |-> outs[k]]
             added == {Append(t, old[t].born + k) : k \in DOMAIN new}
             U     == AddChildren(old, t, new, n, state)
             s     == outs[i]
             named == Named(T, t, s)
  <1>1. U = SyncChildren(T, t, outs, n, state)
    BY DEF SyncChildren
  <1>2. DOMAIN U = DOMAIN old \union added
    BY DEF AddChildren
  <1>3. t \in Path /\ Tree(set, Specs) /\ DOMAIN set = DOMAIN T
    BY StateTyped, SetStateTree, SetStateEffect
  <1>4. \A r \in gone : r # Root /\ Parent(r) = t /\ r # t /\ ~Above(r, t) /\ r \in Path
    BY <1>3, ChildDeeper DEF Tree, Children
  <1>5. DOMAIN new = Missing(T, t, outs) /\ \A k \in DOMAIN new : k \in Nat
    BY DEF Missing, Gapped
  <1>6. i \in 1..n /\ n \in Nat /\ i \in Nat
    BY DEF Gapped
  <1> HIDE DEF kept, gone, set, new, U
  <1>7. gone \in SUBSET Path /\ Root \notin gone /\ t \in DOMAIN old /\ Tree(old, Specs)
    BY <1>3, <1>4, RemoveBranchesTree
  <1>8. old[t].born \in Nat
    BY <1>7 DEF Tree, IsTree, TaskType
  <1> HIDE DEF old
  <1>9. CASE i \in Missing(T, t, outs)
    <2> DEFINE c == Append(t, old[t].born + i)
    <2>1. c # Root /\ Parent(c) = t
      <3>1. old[t].born + i \in Nat
        BY <1>6, <1>8
      <3> QED
        BY <1>3, <3>1, AppendPath
    <2>2. c \in DOMAIN U
      BY <1>2, <1>5, <1>9
    <2> HIDE DEF c
    <2> QED
      BY <1>1, <2>1, <2>2 DEF Children
  <1>10. CASE i \notin Missing(T, t, outs)
    <2>1. ~(Cardinality(Places(outs, s, i)) > Cardinality(named))
      BY <1>10 DEF Missing, Occurrences, Places, Named
    <2>2. i \in Places(outs, s, i) /\ i \in Places(outs, s, n)
      BY <1>6 DEF Places
    <2>3. /\ Cardinality(Places(outs, s, i)) >= 1 /\ Cardinality(Places(outs, s, i)) \in Nat
          /\ Cardinality(Places(outs, s, n)) >= 1 /\ Cardinality(Places(outs, s, n)) \in Nat
      BY <2>2, PlacesFinite
    <2>4. named \in SUBSET Children(T, t)
      BY DEF Named
    <2> HIDE DEF named
    <2>5. named # {}
      BY <2>1, <2>3, FS_EmptySet
    <2>6. PICK c \in named : \A b \in named : Slot(c) <= Slot(b)
      BY <2>4, <2>5, SmallestSlot
    <2>7. c \in Children(T, t) /\ T[c].spec = s
      BY DEF named, Named
    <2>8. Older(T, t, c) = {c}
      <3>1. \A b \in Older(T, t, c) : b = c
        <4> SUFFICES ASSUME NEW b \in Older(T, t, c) PROVE b = c
          OBVIOUS
        <4>1. b \in Children(T, t) /\ T[b].spec = s /\ Slot(b) <= Slot(c) /\ b \in named
          BY <2>7 DEF Older, named, Named
        <4>2. Slot(b) \in Nat /\ Slot(c) \in Nat /\ Slot(c) <= Slot(b)
          BY <2>6, <2>7, <4>1, ChildrenFinite
        <4> QED
          BY <2>7, <4>1, <4>2, ChildrenFinite
      <3>2. c \in Older(T, t, c)
        <4>1. Slot(c) \in Nat
          BY <2>7, ChildrenFinite
        <4> QED
          BY <2>7, <4>1 DEF Older
      <3> QED
        BY <3>1, <3>2
    <2>9. Cardinality(Older(T, t, c)) <= Cardinality(Places(outs, s, n))
      <3>1. Cardinality(Older(T, t, c)) = 1
        BY <2>8, FS_Singleton
      <3> QED
        BY <2>3, <3>1
    <2>10. c \in kept
      BY <2>7, <2>9 DEF kept, Kept, Occurrences, Older, Places
    <2>11. c \in DOMAIN set /\ c # Root /\ Parent(c) = t
      BY <1>3, <2>7 DEF Children
    <2>12. \A r \in gone : r # c /\ ~Above(r, c)
      <3> SUFFICES ASSUME NEW r \in gone PROVE r # c /\ ~Above(r, c)
        OBVIOUS
      <3>1. r # c
        BY <2>10 DEF gone
      <3>2. r \in Path /\ c \in Path /\ r # t /\ ~Above(r, t)
        BY <1>3, <1>4, <2>11, StateTyped
      <3> QED
        BY <2>11, <3>1, <3>2, AncestorOrParent
    <2>13. c \in DOMAIN old
      BY <1>3, <1>7, <2>11, <2>12, RemoveBranchesTree DEF old
    <2> QED
      BY <1>1, <1>2, <2>11, <2>13 DEF Children
  <1> QED
    BY <1>9, <1>10

\* A task of the region that is predicted has children afterwards.
LEMMA PredictSome ==
  ASSUME NEW T, Tree(T, Specs), NEW t \in DOMAIN T, Follows(T[t].spec) # {},
         0 \notin Net[T[t].spec].times
  PROVE  Children(PredictHook(T, t, PredictedTimes(T[t].spec)), t) # {}
  <1> DEFINE s     == T[t].spec
             n     == PredictedTimes(s)
             outs  == PredictedOutputs(s, n)
             count == OutputCount(s, n)
             state == PredictedState(T, t)
             V     == SyncChildren(T, t, outs, count, state)
             cond  == Conditional(s)
             U     == AddChildren(V, t, cond, Len(Outputs(s)), "MAYBE")
             added == {Append(t, V[t].born + k) : k \in DOMAIN cond}
  <1>1. /\ s \in Specs /\ t \in Path /\ n \in Nat /\ Outputs(s) \in Seq(Specs)
        /\ Net[s].cond \in SUBSET Specs
    BY StateTyped, NetTyped, PredictedTimesTyped
  <1>2. PICK k \in DOMAIN Outputs(s) : TRUE
    BY DEF Follows
  <1>3. /\ Len(Outputs(s)) \in Nat /\ DOMAIN Outputs(s) = 1..Len(Outputs(s))
        /\ k \in 1..Len(Outputs(s)) /\ Outputs(s)[k] \in Specs
    BY <1>1, <1>2, LenProperties, ElementOfSeq
  <1>4. Gapped(outs, count) /\ state \in ANY /\ Gapped(cond, Len(Outputs(s)))
    BY <1>1, PredictedOutputsGapped, PredictedStateTyped, PickGapped DEF Conditional
  <1>5. Tree(V, Specs) /\ t \in DOMAIN V
    BY <1>4, SyncTyped
  <1>6. DOMAIN outs # {} => Children(V, t) # {}
    BY <1>4, SyncSome
  <1>7. PredictHook(T, t, n) = IF IsChoice(s) THEN U ELSE V
    BY DEF PredictHook
  <1>8. DOMAIN U = DOMAIN V \union added
    BY DEF AddChildren
  <1>9. V[t].born \in Nat
    BY <1>5 DEF Tree, IsTree, TaskType
  <1> HIDE DEF V, U
  <1>10. CASE IsChoice(s) /\ Outputs(s)[k] \in Net[s].cond
    <2>1. k \in DOMAIN cond /\ k \in Nat
      BY <1>3, <1>10 DEF Conditional, Pick
    <2> DEFINE c == Append(t, V[t].born + k)
    <2>2. c # Root /\ Parent(c) = t
      <3>1. V[t].born + k \in Nat
        BY <1>9, <2>1
      <3> QED
        BY <1>1, <3>1, AppendPath
    <2>3. c \in DOMAIN U
      BY <1>8, <2>1
    <2> HIDE DEF c
    <2>4. Children(U, t) # {}
      BY <2>2, <2>3 DEF Children
    <2> QED
      BY <1>7, <1>10, <2>4
  <1>11. CASE IsChoice(s) /\ Outputs(s)[k] \notin Net[s].cond
    <2>1. k \in DOMAIN outs
      BY <1>3, <1>11 DEF PredictedOutputs, Unconditional, Pick
    <2>2. Children(V, t) # {} /\ DOMAIN V \subseteq DOMAIN U
      BY <1>6, <1>8, <2>1
    <2>3. Children(U, t) # {}
      BY <2>2 DEF Children
    <2> QED
      BY <1>7, <1>11, <2>3
  <1>12. CASE ~IsChoice(s) /\ ~IsMultiple(s)
    <2>1. k \in DOMAIN outs
      BY <1>2, <1>12 DEF PredictedOutputs
    <2> QED
      BY <1>6, <1>7, <1>12, <2>1
  <1>13. CASE ~IsChoice(s) /\ IsMultiple(s)
    <2>1. n # 0
      <3>1. CASE Cardinality(Net[s].times) = 1
        <4>1. Net[s].times # {}
          BY <3>1, FS_EmptySet
        <4>2. n = CHOOSE m \in Net[s].times : TRUE
          BY <3>1 DEF PredictedTimes
        <4>3. n \in Net[s].times
          BY <4>1, <4>2
        <4> QED
          BY <4>3
      <3>2. CASE Cardinality(Net[s].times) # 1
        BY <3>2 DEF PredictedTimes
      <3> QED
        BY <3>1, <3>2
    <2> HIDE DEF n
    <2>2. n * Len(Outputs(s)) \in Nat /\ n * Len(Outputs(s)) >= 1
      BY <1>1, <1>3, <2>1
    <2>3. 1 \in DOMAIN Repeat(Outputs(s), n)
      BY <2>2 DEF Repeat
    <2>4. 1 \in DOMAIN outs
      BY <1>13, <2>3 DEF PredictedOutputs
    <2> QED
      BY <1>6, <1>7, <1>13, <2>4 DEF n
  <1> QED
    BY <1>7, <1>10, <1>11, <1>12, <1>13

-----------------------------------------------------------------------------
(* Every step keeps the definite tasks of the region founded.              *)

\* Below a call that neither predicts nor cancels there is no prediction and no completion.
LEMMA PlainTail ==
  ASSUME IInv, ReachInv, calls # <<>>, Top.op \notin {"predict", "cancel"}
  PROVE  \A f \in Frames(Tail(calls)) : f.op \in {"children", "visit", "finish"}
  <1> SUFFICES ASSUME NEW f \in Frames(Tail(calls)) PROVE f.op \in {"children", "visit", "finish"}
    OBVIOUS
  <1>1. Top.op \in Over(f.op) /\ f.op \in Ops /\ Top.op \in Ops
    BY StackOps, InProgress DEF FrameType
  <1> QED
    BY <1>1, OverOps

LEMMA FoundedByKids ==
  ASSUME NEW c, \A f \in Frames(c) : f.op \notin {"predict", "complete"},
         NEW T, NEW d, Founded(T, c, d)
  PROVE  Children(T, d) # {}
  BY CompletingFrames DEF Founded, Foreseen

LEMMA StepDown ==
  ASSUME IInv, ReachInv, calls # <<>>, Top.op \notin {"predict", "cancel", "complete"},
         NEW J, NEW R, GoesDown(tasks, calls, J, R),
         \A d \in DOMAIN tasks' : tasks'[d].spec \in Inner(J, R) /\ Awaited(tasks', calls', d) =>
            \/ Foreseen(tasks', calls', d)
            \/ /\ d \in DOMAIN tasks /\ tasks[d].spec = tasks'[d].spec /\ Awaited(tasks, calls, d)
               /\ Children(tasks, d) # {} => Children(tasks', d) # {}
  PROVE  GoesDown(tasks', calls', J, R)
  <1>1. \A f \in Frames(calls) : f.op \notin {"predict", "complete"}
    <2>1. Frames(calls) = {Top} \union Frames(Tail(calls))
      BY StackTail DEF IInv, TypeOK, Top
    <2> QED
      BY <2>1, PlainTail
  <1> SUFFICES ASSUME NEW d \in DOMAIN tasks', tasks'[d].spec \in Inner(J, R),
                      Awaited(tasks', calls', d), ~Foreseen(tasks', calls', d)
               PROVE  Children(tasks', d) # {}
    BY DEF GoesDown, Founded
  <1>2. /\ d \in DOMAIN tasks /\ tasks[d].spec = tasks'[d].spec /\ Awaited(tasks, calls, d)
        /\ Children(tasks, d) # {} => Children(tasks', d) # {}
    OBVIOUS
  <1>3. Founded(tasks, calls, d)
    BY <1>2 DEF GoesDown
  <1> QED
    BY <1>1, <1>2, <1>3, FoundedByKids

LEMMA RaiseDown ==
  ASSUME IInv, ReachInv, calls # <<>>, Top.op \notin {"predict", "cancel", "complete"}, Raise,
         NEW J, NEW R, GoesDown(tasks, calls, J, R)
  PROVE  GoesDown(tasks', calls', J, R)
  <1>1. Tree(tasks, Specs) /\ tasks' = SetState(tasks, Completing(calls), "ERROR") /\ calls' = <<>>
    BY IInvSplit DEF Raise, Completing
  <1>2. DOMAIN tasks' = DOMAIN tasks /\ \A d \in DOMAIN tasks' : tasks'[d].spec = tasks[d].spec
    BY <1>1, SetStateEffect
  <1>3. \A d \in DOMAIN tasks' : tasks'[d].state = tasks[d].state \/ tasks'[d].state = "ERROR"
    BY <1>1, SetStateEffect
  <1>4. \A d \in DOMAIN tasks' : Awaited(tasks', calls', d) => Awaited(tasks, calls, d)
    BY <1>1, <1>2, <1>3, StackNone, StatesDiffer DEF Awaited, Hooked
  <1>5. \A d : Children(tasks', d) = Children(tasks, d)
    BY <1>2 DEF Children
  <1> QED
    BY <1>2, <1>4, <1>5, StepDown

LEMMA HookDown ==
  ASSUME IInv, ReachInv, NEW kinds, Hook(kinds), SetReady(Top.task) \/ SetWaiting(Top.task),
         NEW J, NEW R, GoesDown(tasks, calls, J, R)
  PROVE  GoesDown(tasks', calls', J, R)
  <1> DEFINE t == Top.task
  <1>1. /\ calls # <<>> /\ Top.op = "hook" /\ t \in DOMAIN tasks /\ Return
        /\ Tree(tasks, Specs) /\ FrameOK(tasks, Top)
    BY InProgress DEF Hook, Doing, Top, SetReady, SetWaiting
  <1>2. Frames(calls') = Frames(Tail(calls)) /\ Frames(calls) = {Top} \union Frames(Tail(calls))
    BY <1>1, Returned
  <1>3. tasks[t].state \in NOT_FINISHED /\ Hooked(calls, t)
    BY <1>1, <1>2 DEF FrameOK, LiveIn, Hooked
  <1>4. \E state : tasks' = SetState(tasks, {t}, state) \/ tasks' = tasks
    BY DEF SetReady, SetWaiting, Ready
  <1>5. /\ DOMAIN tasks' = DOMAIN tasks
        /\ \A d \in DOMAIN tasks' :
              /\ tasks'[d].spec = tasks[d].spec
              /\ d # t => tasks'[d].state = tasks[d].state
    BY <1>1, <1>4, SetStateEffect
  <1>6. \A d \in DOMAIN tasks' : Awaited(tasks', calls', d) => Awaited(tasks, calls, d)
    BY <1>2, <1>3, <1>5 DEF Awaited, Hooked
  <1>7. \A d : Children(tasks', d) = Children(tasks, d)
    BY <1>5 DEF Children
  <1> QED
    BY <1>1, <1>5, <1>6, <1>7, StepDown

\* What calls nothing and leaves the tree as it is.
LEMMA SameDown ==
  ASSUME IInv, ReachInv, calls # <<>>, Top.op \notin {"predict", "cancel", "complete"},
         UNCHANGED tasks, \A f \in Frames(calls') : f.op = "hook" => f \in Frames(calls),
         NEW J, NEW R, GoesDown(tasks, calls, J, R)
  PROVE  GoesDown(tasks', calls', J, R)
  <1>1. \A d \in DOMAIN tasks' : Awaited(tasks', calls', d) => Awaited(tasks, calls, d)
    BY DEF Awaited, Hooked
  <1> QED
    BY <1>1, StepDown

LEMMA UpdateDown ==
  ASSUME IInv, ReachInv,
         UpdateSimple \/ UpdateFails \/ UpdateExecute \/ UpdateGate \/ UpdateAcquire,
         NEW J, NEW R, GoesDown(tasks, calls, J, R)
  PROVE  GoesDown(tasks', calls', J, R)
  <1>1. CASE UpdateFails
    BY <1>1, RaiseDown DEF UpdateFails, Hook, Doing, Top
  <1>2. CASE ~UpdateFails
    <2>1. \E kinds : Hook(kinds) /\ (SetReady(Top.task) \/ SetWaiting(Top.task))
      BY <1>2 DEF UpdateSimple, UpdateExecute, UpdateGate, UpdateAcquire
    <2> QED
      BY <2>1, HookDown
  <1> QED
    BY <1>1, <1>2

LEMMA UpdateJoinDown ==
  ASSUME IInv, ReachInv, UpdateJoin, NEW J, NEW R, GoesDown(tasks, calls, J, R)
  PROVE  GoesDown(tasks', calls', J, R)
  <1>1. calls # <<>> /\ Top.op = "hook" /\ Hook({"Join"})
    BY DEF UpdateJoin, Hook, Doing, Top
  <1>2. CASE Raise
    BY <1>1, <1>2, RaiseDown
  <1>3. CASE SetWaiting(Top.task)
    BY <1>1, <1>3, HookDown
  <1>4. CASE Return /\ UNCHANGED tasks
    BY <1>1, <1>4, Returned, SameDown
  <1>5. CASE ~Raise /\ ~SetWaiting(Top.task) /\ ~(Return /\ UNCHANGED tasks)
    <2>1. UNCHANGED tasks
      BY <1>5 DEF UpdateJoin
    <2> DEFINE j     == Top.task
               s     == tasks[j].spec
               todos == {WaitingTasks(tasks, j)[i] : i \in DOMAIN WaitingTasks(tasks, j)}
    <2>2. Frames(calls) = {Top} \union Frames(Tail(calls))
      BY <1>1, StackTail DEF IInv, TypeOK, Top
    <2>3. \A f \in Frames(calls') : f.op \in {"join", "cancel"} \/ f \in Frames(Tail(calls))
      <3>1. \/ ReturnTo(<<Frame("join", j, {})>>)
            \/ ReturnTo([i \in DOMAIN WaitingTasks(tasks, j) |->
                            Frame("cancel", j, WaitingTasks(tasks, j)[i])]
                            \o <<Frame("join", j, {})>>)
            \/ ReturnTo(<<>> \o <<Frame("join", j, {})>>)
        BY <1>5 DEF UpdateJoin
      <3> DEFINE joining == Frame("join", j, {})
                 halting == [i \in DOMAIN WaitingTasks(tasks, j) |->
                                Frame("cancel", j, WaitingTasks(tasks, j)[i])]
                 none    == <<>>
      <3>2. Tree(tasks, Specs) /\ j \in DOMAIN tasks /\ j \in Path
        BY IInvSplit, StateTyped DEF UpdateJoin, Hook
      <3>3. joining \in FrameType /\ joining.op = "join"
        BY <3>2, FrameTyped DEF Ops, Frame
      <3>4. halting \in Seq(FrameType) /\ \A i \in DOMAIN halting : halting[i].op = "cancel"
        BY <3>2, WaitingFrames
      <3>5. none \in Seq(FrameType) /\ \A i \in DOMAIN none : none[i].op = "cancel"
        BY NoFrame
      <3> HIDE DEF joining, halting, none
      <3>6. PICK first \in Seq(FrameType) :
               /\ \A i \in DOMAIN first : first[i].op = "cancel"
               /\ calls' = (first \o <<joining>>) \o Tail(calls)
                     \/ calls' = <<joining>> \o Tail(calls)
        BY <3>1, <3>4, <3>5 DEF ReturnTo, joining, halting, none
      <3>7. <<joining>> \in Seq(FrameType) /\ Frames(<<joining>>) = {joining}
        BY <3>3, StackNone
      <3>8. /\ first \o <<joining>> \in Seq(FrameType)
            /\ Frames(first \o <<joining>>) = Frames(first) \union {joining}
        BY <3>7, ConcatTyped, StackConcat
      <3>9. \/ Frames(calls') = Frames(first) \union {joining} \union Frames(Tail(calls))
            \/ Frames(calls') = {joining} \union Frames(Tail(calls))
        BY <1>1, <3>6, <3>7, <3>8, Pushed
      <3> QED
        BY <3>3, <3>6, <3>9 DEF Frames
    <2>4. \A f \in Frames(calls') : f.op = "hook" => f \in Frames(calls)
      BY <2>2, <2>3
    <2> QED
      BY <1>1, <2>1, <2>4, SameDown
  <1> QED
    BY <1>2, <1>3, <1>4, <1>5

\* When a join fires, it drops and cancels instances of itself only.
LEMMA JoinFiresDown ==
  ASSUME IInv, ReachInv, FiringInv, JoinFires,
         NEW J, NEW R, Region(J, R), GoesDown(tasks, calls, J, R)
  PROVE  GoesDown(tasks', calls', J, R)
  <1> DEFINE t      == Top.task
             rivals == OtherInstances(tasks, t)
             V      == DropChildren(tasks, rivals)
             W      == SetState(V, rivals \intersect DOMAIN V, "CANCELLED")
  <1>1. /\ calls # <<>> /\ Top.op = "join" /\ t \in DOMAIN tasks /\ Return /\ Tree(tasks, Specs)
        /\ tasks' = Ready(W, t)
    BY InProgress DEF JoinFires, Doing, Top, DoJoin
  <1>2. Kind(tasks[t].spec) = "Join"
    <2>1. 1 \in DOMAIN calls /\ calls[1] = Top
      BY <1>1 DEF IInv, TypeOK, Top
    <2> QED
      BY <1>1, <2>1 DEF FiringInv
  <1>3. Frames(calls') = Frames(Tail(calls)) /\ Frames(calls) = {Top} \union Frames(Tail(calls))
    BY <1>1, Returned
  <1>4. rivals \in SUBSET Path /\ \A d \in rivals : tasks[d].spec = tasks[t].spec
    BY <1>1, StateTyped DEF OtherInstances, Instances, OfSpec
  <1> HIDE DEF rivals
  <1>5. Tree(V, Specs) /\ DOMAIN V \subseteq DOMAIN tasks /\ \A d \in DOMAIN V : V[d] = tasks[d]
    BY <1>1, <1>4, DropChildrenTree, DropChildrenShrunk DEF Shrunk
  <1>6. \A d \in DOMAIN tasks : tasks[d].state \in NOT_FINISHED /\ d \notin rivals /\ d \in DOMAIN V =>
           Children(tasks, d) \subseteq DOMAIN V
    BY <1>1, <1>4, DropKids
  <1> HIDE DEF V
  <1>7. /\ Tree(W, Specs) /\ DOMAIN W = DOMAIN V
        /\ \A d \in DOMAIN V : /\ W[d].spec = V[d].spec
                               /\ W[d].state = IF d \in rivals \intersect DOMAIN V
                                               THEN "CANCELLED" ELSE V[d].state
    BY <1>5, SetStateTree, SetStateEffect, StatesDiffer
  <1> HIDE DEF W
  <1>8. /\ DOMAIN tasks' = DOMAIN W
        /\ \A d \in DOMAIN W : tasks'[d].spec = W[d].spec /\ (d # t => tasks'[d].state = W[d].state)
    BY <1>1, <1>7, SetStateEffect DEF Ready
  <1>9. ASSUME NEW d \in DOMAIN tasks', tasks'[d].spec \in Inner(J, R), Awaited(tasks', calls', d)
        PROVE  /\ d \in DOMAIN tasks /\ tasks[d].spec = tasks'[d].spec /\ Awaited(tasks, calls, d)
               /\ Children(tasks, d) # {} => Children(tasks', d) # {}
    <2>1. d \in DOMAIN V /\ d \in DOMAIN tasks /\ tasks[d].spec = tasks'[d].spec
      BY <1>5, <1>7, <1>8
    <2>2. Kind(tasks[d].spec) # "Join"
      BY <1>9, <2>1, RegionSpecs
    <2>3. d # t /\ d \notin rivals
      BY <1>2, <1>4, <2>2
    <2>4. tasks'[d].state = tasks[d].state
      BY <1>5, <1>7, <1>8, <2>1, <2>3
    <2>5. Awaited(tasks, calls, d)
      BY <1>3, <1>9, <2>4 DEF Awaited, Hooked
    <2>6. tasks[d].state \in NOT_FINISHED
      BY <2>5, StatesDiffer DEF Awaited
    <2>7. Children(tasks, d) \subseteq DOMAIN tasks'
      BY <1>6, <1>7, <1>8, <2>1, <2>3, <2>6
    <2>8. Children(tasks, d) \subseteq Children(tasks', d)
      BY <2>7 DEF Children
    <2> QED
      BY <2>1, <2>5, <2>8
  <1> QED
    BY <1>1, <1>9, StepDown

\* Whoever is told to update a predicted task predicts it first.
LEMMA UpdateFramesOf ==
  ASSUME NEW c \in Path
  PROVE  /\ UpdateFrames(c) \in Seq(FrameType)
         /\ \A f \in Frames(UpdateFrames(c)) : f.op = "hook" => f.task = c
         /\ In(tasks, c, PREDICTED) =>
               \E f \in Frames(UpdateFrames(c)) : f.op = "predict" /\ c \in f.todo /\ f.mask = PREDICTED
  <1> DEFINE f == PredictFrame(c, {c}, 0, PREDICTED)
             g == Frame("hook", c, {})
             a == IF In(tasks, c, PREDICTED) THEN <<f>> ELSE <<>>
  <1>1. f \in FrameType /\ f.op = "predict" /\ f.todo = {c} /\ f.mask = PREDICTED
    BY PredictFrameTyped, MasksTyped DEF PredictFrame
  <1>2. g \in FrameType /\ g.op = "hook" /\ g.task = c
    BY FrameTyped DEF Frame, Ops
  <1>3. UpdateFrames(c) = a \o <<g>>
    BY DEF UpdateFrames
  <1> HIDE DEF f, g
  <1>4. a \in Seq(FrameType) /\ Frames(a) = IF In(tasks, c, PREDICTED) THEN {f} ELSE {}
    <2>1. <<f>> \in Seq(FrameType) /\ Frames(<<f>>) = {f}
      BY <1>1, StackNone
    <2>2. <<>> \in Seq(FrameType) /\ Frames(<<>>) = {}
      BY NoFrame, StackNone
    <2>3. CASE In(tasks, c, PREDICTED)
      BY <2>1, <2>3
    <2>4. CASE ~In(tasks, c, PREDICTED)
      BY <2>2, <2>4
    <2> QED
      BY <2>3, <2>4
  <1> HIDE DEF a
  <1>5. <<g>> \in Seq(FrameType) /\ Frames(<<g>>) = {g}
    BY <1>2, StackNone
  <1>6. UpdateFrames(c) \in Seq(FrameType) /\ Frames(UpdateFrames(c)) = Frames(a) \union {g}
    <2>1. a \o <<g>> \in Seq(FrameType)
      BY <1>4, <1>5, ConcatTyped
    <2>2. Frames(a \o <<g>>) = Frames(a) \union {g}
      BY <1>4, <1>5, StackConcat
    <2> QED
      BY <1>3, <2>1, <2>2
  <1> QED
    BY <1>1, <1>2, <1>4, <1>6

LEMMA LoopDown ==
  ASSUME IInv, ReachInv, calls # <<>>, Top.op \in {"children", "visit"}, UNCHANGED tasks,
         NEW c \in Path, NEW S \in SUBSET Path,
         \/ CallWith(<<>>, S)
         \/ /\ CallWith(UpdateFrames(c), S)
            /\ c \in DOMAIN tasks => tasks[c].state \in NOT_FINISHED,
         NEW J, NEW R, GoesDown(tasks, calls, J, R)
  PROVE  GoesDown(tasks', calls', J, R)
  <1> DEFINE none  == <<>>
             again == [Top EXCEPT !.todo = S]
  <1>1. Top \in FrameType /\ again.op = Top.op
    <2>1. Top \in FrameType
      BY StackTyped DEF IInv, TypeOK
    <2> QED
      BY <2>1 DEF FrameType
  <1>2. Frames(calls) = {Top} \union Frames(Tail(calls))
    BY StackTail DEF IInv, TypeOK, Top
  <1> HIDE DEF again
  <1>3. CASE CallWith(none, S)
    <2>1. none \in Seq(FrameType) /\ Frames(none) = {}
      BY NoFrame, StackNone
    <2> HIDE DEF none
    <2>2. Frames(calls') = Frames(none) \union Frames(Tail(calls))
                              \union (IF S = {} THEN {} ELSE {again})
      BY <1>3, <2>1, Called DEF again
    <2>3. \A f \in Frames(calls') : f.op = "hook" => f \in Frames(calls)
      BY <1>1, <1>2, <2>1, <2>2
    <2> QED
      BY <2>3, SameDown
  <1>4. CASE ~CallWith(none, S)
    <2>1. CallWith(UpdateFrames(c), S) /\ (c \in DOMAIN tasks => tasks[c].state \in NOT_FINISHED)
      BY <1>4
    <2>2. Frames(calls') = Frames(UpdateFrames(c)) \union Frames(Tail(calls))
                              \union (IF S = {} THEN {} ELSE {again})
      BY <2>1, UpdateFramesOf, Called DEF again
    <2>3. ASSUME NEW d \in DOMAIN tasks, Awaited(tasks', calls', d), ~Foreseen(tasks', calls', d)
          PROVE  Awaited(tasks, calls, d)
      <3>1. CASE tasks[d].state \in DEFINITE
        BY <3>1 DEF Awaited
      <3>2. CASE tasks[d].state \notin DEFINITE
        <4>1. PICK f \in Frames(calls') : f.op = "hook" /\ f.task = d
          BY <2>3, <3>2 DEF Awaited, Hooked
        <4>2. d # c
          <5> SUFFICES ASSUME d = c PROVE FALSE
            OBVIOUS
          <5>1. In(tasks, c, PREDICTED)
            BY <2>1, <3>2 DEF In, NOT_FINISHED
          <5>2. PICK g \in Frames(UpdateFrames(c)) :
                   g.op = "predict" /\ c \in g.todo /\ g.mask = PREDICTED
            BY <5>1, UpdateFramesOf
          <5> QED
            BY <2>2, <2>3, <5>1, <5>2 DEF Foreseen, In
        <4>3. f \in Frames(Tail(calls))
          BY <1>1, <2>2, <4>1, <4>2, UpdateFramesOf
        <4> QED
          BY <1>2, <2>3, <4>1, <4>3 DEF Awaited, Hooked
      <3> QED
        BY <3>1, <3>2
    <2> QED
      BY <2>3, StepDown
  <1> QED
    BY <1>3, <1>4

LEMMA WalkDown ==
  ASSUME IInv, ReachInv, ChildrenNext \/ VisitNext \/ Finish,
         NEW J, NEW R, GoesDown(tasks, calls, J, R)
  PROVE  GoesDown(tasks', calls', J, R)
  <1>1. /\ calls # <<>> /\ UNCHANGED tasks /\ Top.op \in {"children", "visit", "finish"}
        /\ Finish => Return
    BY DEF ChildrenNext, VisitNext, Finish, Doing, Top
  <1>2. Top.todo \in SUBSET Path /\ Tree(tasks, Specs)
    BY <1>1, InProgress, StackTyped
  <1>3. CASE Return
    BY <1>1, <1>3, Returned, SameDown
  <1>4. CASE ChildrenNext /\ ~Return
    <2>1. PICK c \in Top.todo :
            /\ c \in DOMAIN tasks
            /\ CallWith(IF In(tasks, c, FINISHED) THEN <<>> ELSE UpdateFrames(c), Top.todo \ {c})
      BY <1>4 DEF ChildrenNext
    <2>2. /\ c \in Path /\ Top.todo \ {c} \in SUBSET Path /\ Top.op = "children"
          /\ tasks[c].state \in FINISHED <=> tasks[c].state \notin NOT_FINISHED
      BY <1>2, <1>4, <2>1, TwoStates DEF ChildrenNext, Doing, Top
    <2>3. \/ CallWith(<<>>, Top.todo \ {c})
          \/ CallWith(UpdateFrames(c), Top.todo \ {c}) /\ tasks[c].state \in NOT_FINISHED
      BY <2>1, <2>2 DEF In
    <2> QED
      BY <1>1, <2>2, <2>3, LoopDown
  <1>5. CASE VisitNext /\ ~Return
    <2>1. PICK t \in Top.todo :
            IF t \in DOMAIN tasks
            THEN CallWith(IF In(tasks, t, {"WAITING"}) THEN UpdateFrames(t) ELSE <<>>,
                          (Top.todo \ {t})
                              \union (IF In(tasks, t, PREDICTED) THEN {}
                                      ELSE Children(tasks, t)))
            ELSE CallWith(<<>>, Top.todo \ {t})
      BY <1>5 DEF VisitNext
    <2>2. /\ t \in Path /\ Top.todo \ {t} \in SUBSET Path /\ Children(tasks, t) \in SUBSET Path
          /\ Top.op = "visit"
      BY <1>2, <1>5, ChildrenTyped DEF VisitNext, Doing, Top
    <2>3. PICK S \in SUBSET Path :
            \/ CallWith(<<>>, S)
            \/ CallWith(UpdateFrames(t), S) /\ t \in DOMAIN tasks /\ In(tasks, t, {"WAITING"})
      BY <2>1, <2>2
    <2>4. In(tasks, t, {"WAITING"}) => tasks[t].state \in NOT_FINISHED
      BY StatesDiffer DEF In
    <2> QED
      BY <1>1, <2>2, <2>3, <2>4, LoopDown
  <1> QED
    BY <1>1, <1>3, <1>4, <1>5

LEMMA CancelNextDown ==
  ASSUME IInv, ReachInv, CancelNext, NEW J, NEW R, GoesDown(tasks, calls, J, R)
  PROVE  GoesDown(tasks', calls', J, R)
  <1>1. /\ calls # <<>> /\ Top.op = "cancel" /\ Frames(calls) = {Top} \union Frames(Tail(calls))
        /\ Frames(Tail(calls)) \subseteq Frames(calls')
        /\ \/ UNCHANGED tasks
           \/ \E t \in Top.todo : tasks' = CancelBranch(tasks, t)
    BY CancelNextParts
  <1>2. /\ Shrunk(tasks, tasks') /\ Tree(tasks, Specs)
        /\ \A g \in Frames(calls') : g \in Frames(calls) \/ g.op = "cancel"
    BY CancelNextFrames, IInvSplit
  <1>3. \A f \in Frames(calls) : f.op \notin {"predict", "hook"}
    <2> SUFFICES ASSUME NEW f \in Frames(Tail(calls)) PROVE f.op \notin {"predict", "hook"}
      BY <1>1
    <2>1. "cancel" \in Over(f.op) /\ f.op \in Ops
      BY <1>1, StackOps DEF FrameType
    <2> QED
      BY <2>1, OverOps
  <1>4. \A d : ~Hooked(calls', d) /\ ~Hooked(calls, d) /\ ~Foreseen(tasks, calls, d)
    BY <1>2, <1>3 DEF Hooked, Foreseen
  <1>5. Completing(calls) \subseteq Completing(calls')
    <2> SUFFICES ASSUME NEW t \in Completing(calls) PROVE t \in Completing(calls')
      OBVIOUS
    <2>1. PICK f \in Frames(calls) : f.op = "complete" /\ f.task = t
      BY CompletingFrames
    <2> QED
      BY <1>1, <2>1, CompletingFrames
  <1> SUFFICES ASSUME NEW d \in DOMAIN tasks', tasks'[d].spec \in Inner(J, R),
                      tasks'[d].state \in DEFINITE
               PROVE  Children(tasks', d) # {} \/ d \in Completing(calls')
    BY <1>4 DEF GoesDown, Awaited, Founded
  <1>6. d \in DOMAIN tasks /\ tasks[d].spec = tasks'[d].spec /\ tasks[d].state \in DEFINITE
    BY <1>2, StatesDiffer DEF Shrunk
  <1>7. Children(tasks, d) # {} \/ d \in Completing(calls')
    <2>1. Founded(tasks, calls, d)
      BY <1>6 DEF GoesDown, Awaited
    <2> QED
      BY <1>4, <1>5, <2>1 DEF Founded
  <1>8. tasks'[d].state \in NOT_FINISHED
    BY StatesDiffer
  <1> QED
    BY <1>1, <1>2, <1>7, <1>8, CancelKids

LEMMA CompleteTaskDown ==
  ASSUME IInv, ReachInv, CompleteTask, NEW J, NEW R, GoesDown(tasks, calls, J, R)
  PROVE  GoesDown(tasks', calls', J, R)
  <1> DEFINE t        == Top.task
             children == Frame("children", t, Children(tasks, t))
             visit    == Frame("visit", t, {Root})
             finish   == Frame("finish", t, {})
  <1>1. /\ calls # <<>> /\ Top.op = "complete" /\ Doing("complete") /\ Tree(tasks, Specs)
        /\ tasks' = SetState(tasks, {t}, "COMPLETED")
        /\ calls' = <<children, visit, finish>> \o Tail(calls)
    BY IInvSplit DEF CompleteTask, Doing, Top, ReturnTo
  <1>2. Tail(calls) = <<>> /\ Frames(calls) = {Top}
    <2>1. Tail(calls) = <<>>
      BY <1>1, BottomAlone
    <2> QED
      BY <1>1, <2>1, StackTail, StackNone DEF IInv, TypeOK, Top
  <1>3. /\ children.op = "children" /\ visit.op = "visit" /\ finish.op = "finish"
        /\ children \in FrameType /\ visit \in FrameType /\ finish \in FrameType
    <2>1. t \in Path /\ {} \in SUBSET Path /\ {Root} \in SUBSET Path
      BY <1>1, StackTyped, RootPath DEF IInv, TypeOK
    <2>2. Children(tasks, t) \in SUBSET Path
      BY <1>1, ChildrenTyped
    <2> QED
      BY <2>1, <2>2, FrameTyped DEF Frame, Ops
  <1> HIDE DEF children, visit, finish
  <1>4. \A f \in Frames(calls') : f.op # "hook"
    <2> DEFINE three == <<children, visit, finish>>
    <2>1. three \in Seq(FrameType) /\ calls' = three \o Tail(calls)
      BY <1>1, <1>3
    <2>2. \A f \in Frames(three) : f.op # "hook"
      BY <1>3 DEF Frames
    <2> HIDE DEF three
    <2>3. Frames(calls') = Frames(three)
      <3>1. Frames(calls') = Frames(three) \union Frames(Tail(calls))
        BY <1>1, <2>1, Pushed
      <3> QED
        BY <1>2, <3>1, StackNone
    <2> QED
      BY <2>2, <2>3
  <1>5. /\ DOMAIN tasks' = DOMAIN tasks
        /\ \A d \in DOMAIN tasks : /\ tasks'[d].spec = tasks[d].spec
                                   /\ tasks'[d].state = IF d \in {t} THEN "COMPLETED" ELSE tasks[d].state
    BY <1>1, SetStateEffect
  <1> SUFFICES ASSUME NEW d \in DOMAIN tasks', tasks'[d].spec \in Inner(J, R),
                      tasks'[d].state \in DEFINITE
               PROVE  Children(tasks', d) # {}
    BY <1>4 DEF GoesDown, Awaited, Founded, Hooked
  <1>6. /\ d \in DOMAIN tasks /\ d # t /\ tasks[d].state \in DEFINITE
        /\ tasks[d].spec = tasks'[d].spec
    BY <1>5, StatesDiffer
  <1>7. Founded(tasks, calls, d)
    BY <1>6 DEF GoesDown, Awaited
  <1>8. d \notin Completing(calls) /\ ~Foreseen(tasks, calls, d)
    BY <1>1, <1>2, <1>6, CompletingFrames DEF Foreseen
  <1>9. Children(tasks, d) # {}
    BY <1>7, <1>8 DEF Founded
  <1> QED
    BY <1>5, <1>9 DEF Children

\* What a prediction adds or turns FUTURE is predicted next.
LEMMA PredictDown ==
  ASSUME IInv, IInv', ReachInv, Predict, ~PredictRaises,
         NEW J, NEW R, Region(J, R), GoesDown(tasks, calls, J, R)
  PROVE  GoesDown(tasks', calls', J, R)
  <1>1. /\ calls # <<>> /\ Top.op = "predict" /\ Doing("predict")
        /\ Tree(tasks, Specs) /\ Tree(tasks', Specs) /\ FrameOK(tasks, Top)
        /\ Top \in FrameType /\ Top.todo \in SUBSET Path /\ Top.mask \in SUBSET ANY
        /\ Top.looked \in Nat
    BY InProgress, StackTyped, IInvSplitPrime DEF Predict, Doing, Top
  <1>2. Frames(calls) = {Top} \union Frames(Tail(calls))
    BY StackTail, <1>1 DEF IInv, TypeOK, Top
  <1>3. CASE Top.todo = {}
    <2>1. Return /\ UNCHANGED tasks
      BY <1>3 DEF Predict
    <2>2. Frames(calls') = Frames(Tail(calls))
      BY <1>1, <2>1, Returned
    <2> SUFFICES ASSUME NEW d \in DOMAIN tasks, tasks[d].spec \in Inner(J, R),
                        Awaited(tasks, calls', d)
                 PROVE  Founded(tasks, calls', d)
      BY <2>1 DEF GoesDown
    <2>3. Founded(tasks, calls, d)
      BY <1>2, <2>2 DEF GoesDown, Awaited, Hooked
    <2> QED
      BY <1>1, <1>2, <1>3, <2>2, <2>3, CompletingFrames DEF Founded, Foreseen
  <1>4. CASE Top.todo # {}
    <2>1. PICK t \in Top.todo :
             LET hooked == In(tasks, t, Top.mask)
                 n      == PredictedTimes(tasks[t].spec)
                 T      == IF hooked THEN PredictHook(tasks, t, n) ELSE tasks
                 next   == PredictNext(T, t, Top.looked, Top.mask)
             IN  /\ IsFirst(t, Top.todo)
                 /\ t \in DOMAIN tasks
                 /\ IF hooked /\ HookRaises(tasks, t, n)
                    THEN Raise
                    ELSE /\ tasks' = T
                         /\ CallWith(IF next = {} THEN <<>>
                                     ELSE <<PredictFrame(t, next, Top.looked + 1, Top.mask)>>,
                                     Top.todo \ {t})
      BY <1>4 DEF Predict
    <2> DEFINE hooked == In(tasks, t, Top.mask)
               n      == PredictedTimes(tasks[t].spec)
               next   == PredictNext(tasks', t, Top.looked, Top.mask)
               f      == PredictFrame(t, next, Top.looked + 1, Top.mask)
               S      == Top.todo \ {t}
               again  == [Top EXCEPT !.todo = S]
               pushed == IF next = {} THEN <<>> ELSE <<f>>
    <2>2. t \in DOMAIN tasks /\ ~(hooked /\ HookRaises(tasks, t, n))
      BY <1>1, <2>1 DEF PredictRaises
    <2>3. tasks' = (IF hooked THEN PredictHook(tasks, t, n) ELSE tasks) /\ CallWith(pushed, S)
      BY <2>1, <2>2
    <2>4. S \in SUBSET Path /\ next \in SUBSET Path /\ t \in Path
      BY <1>1, PredictNextTyped
    <2>5. /\ again.op = "predict" /\ again.todo = S /\ again.mask = Top.mask
          /\ f \in FrameType /\ f.op = "predict" /\ f.todo = next /\ f.mask = Top.mask
      <3>1. again.op = "predict" /\ again.todo = S /\ again.mask = Top.mask
        BY <1>1 DEF FrameType
      <3>2. Top.looked + 1 \in Nat
        BY <1>1
      <3>3. f \in FrameType
        BY <1>1, <2>4, <3>2, PredictFrameTyped
      <3>4. f.op = "predict" /\ f.todo = next /\ f.mask = Top.mask
        BY DEF PredictFrame
      <3> QED
        BY <3>1, <3>3, <3>4
    <2> HIDE DEF f, next, S
    <2>6. pushed \in Seq(FrameType) /\ Frames(pushed) = IF next = {} THEN {} ELSE {f}
      <3>1. <<f>> \in Seq(FrameType) /\ Frames(<<f>>) = {f}
        BY <2>5, StackNone
      <3>2. <<>> \in Seq(FrameType) /\ Frames(<<>>) = {}
        BY NoFrame, StackNone
      <3>3. CASE next = {}
        BY <3>2, <3>3
      <3>4. CASE next # {}
        BY <3>1, <3>4
      <3> QED
        BY <3>3, <3>4
    <2> HIDE DEF pushed, again
    <2>7. Frames(calls') = Frames(pushed) \union Frames(Tail(calls))
                              \union (IF S = {} THEN {} ELSE {again})
      BY <1>1, <2>3, <2>4, <2>6, Called DEF again
    <2>8. \A d : Hooked(calls', d) => \E g \in Frames(Tail(calls)) : g.op = "hook" /\ g.task = d
      <3> SUFFICES ASSUME NEW g \in Frames(calls'), g.op = "hook" PROVE g \in Frames(Tail(calls))
        BY DEF Hooked
      <3> QED
        BY <2>5, <2>6, <2>7
    <2>9. Completing(calls) \subseteq Completing(calls')
      BY <1>1, <1>2, <2>7, CompletingFrames
    <2>10. \A d \in DOMAIN tasks : Hooked(calls', d) => Hooked(calls, d)
      BY <1>2, <2>8 DEF Hooked
    \* What is foreseen stays so, unless its turn has come.
    <2>11. ASSUME NEW d \in DOMAIN tasks \intersect DOMAIN tasks',
                  tasks'[d].state = tasks[d].state, Foreseen(tasks, calls, d),
                  d # t \/ ~hooked
           PROVE  Foreseen(tasks', calls', d)
      <3>1. PICK g \in Frames(calls) : g.op = "predict" /\ d \in g.todo /\ tasks[d].state \in g.mask
        BY <2>11 DEF Foreseen
      <3>2. CASE g \in Frames(Tail(calls))
        BY <2>7, <2>11, <3>1, <3>2 DEF Foreseen
      <3>3. CASE g = Top
        <4>1. d # t
          BY <2>11, <3>1, <3>3 DEF In
        <4>2. d \in S
          BY <3>1, <3>3, <4>1 DEF S
        <4>3. again \in Frames(calls')
          BY <2>7, <4>2
        <4> QED
          BY <2>5, <2>11, <3>1, <3>3, <4>2, <4>3 DEF Foreseen
      <3> QED
        BY <1>2, <3>2, <3>3
    <2> SUFFICES ASSUME NEW d \in DOMAIN tasks', tasks'[d].spec \in Inner(J, R),
                        Awaited(tasks', calls', d)
                 PROVE  Founded(tasks', calls', d)
      BY DEF GoesDown
    <2>12. CASE ~hooked
      <3>1. UNCHANGED tasks /\ Awaited(tasks, calls, d)
        BY <2>3, <2>10, <2>12 DEF Awaited
      <3>2. Founded(tasks, calls, d)
        BY <3>1 DEF GoesDown
      <3> QED
        BY <2>9, <2>11, <2>12, <3>1, <3>2 DEF Founded
    <2>13. CASE hooked
      <3>1. tasks[t].state \in EXPECTED /\ tasks' = PredictHook(tasks, t, n) /\ n \in Nat
        <4>1. tasks[t].state \in EXPECTED
          BY <1>1, <2>2, <2>13 DEF FrameOK, In
        <4>2. n \in Nat
          BY <1>1, <2>2, StateTyped, PredictedTimesTyped
        <4> QED
          BY <2>3, <2>13, <4>1, <4>2
      <3>2. PICK states : Grown(tasks, tasks', t, states) /\ Foresees(tasks, t, states)
        BY <1>1, <2>2, <3>1, PredictHookGrown
      <3>3. KeepsKids(tasks, tasks', {t})
        BY <1>1, <2>2, <3>1, PredictKids
      <3>4. CASE d = t
        <4>1. tasks[t].spec \in Inner(J, R)
          BY <2>2, <3>2, <3>4 DEF Grown
        <4>2. Follows(tasks[t].spec) # {} /\ 0 \notin Net[tasks[t].spec].times
          BY <4>1, RegionSpecs
        <4>3. Children(tasks', t) # {}
          BY <1>1, <2>2, <3>1, <4>2, PredictSome
        <4> QED
          BY <3>4, <4>3 DEF Founded
      <3>5. CASE d # t /\ d \in DOMAIN tasks /\ tasks'[d].state = tasks[d].state
        <4>1. tasks[d].spec = tasks'[d].spec /\ Awaited(tasks, calls, d)
          BY <2>10, <3>2, <3>5 DEF Grown, Awaited
        <4>2. Founded(tasks, calls, d)
          BY <3>5, <4>1 DEF GoesDown
        <4>3. Children(tasks, d) # {} => Children(tasks', d) # {}
          BY <3>3, <3>5, KidsKept
        <4> QED
          BY <2>9, <2>11, <3>5, <4>2, <4>3 DEF Founded
      <3>6. CASE d # t /\ ~(d \in DOMAIN tasks /\ tasks'[d].state = tasks[d].state)
        <4>1. d # Root /\ Parent(d) = t /\ tasks'[d].state \in states
          BY <3>2, <3>6 DEF Grown
        <4>2. tasks'[d].state \in EXPECTED
          BY <3>2, <4>1 DEF Foresees
        <4>3. ~Hooked(calls', d)
          <5> SUFFICES ASSUME Hooked(calls', d) PROVE FALSE
            OBVIOUS
          <5>1. PICK g \in Frames(Tail(calls)) : g.op = "hook" /\ g.task = d
            BY <2>8
          <5>2. Known(tasks, d) /\ LiveIn(tasks, d, NOT_FINISHED)
            BY <1>1, <5>1, StackOps DEF FrameOK
          <5>3. d \in Path
            BY <1>1, StateTyped
          <5>4. d \in DOMAIN tasks
            BY <1>1, <3>2, <5>2, <5>3, GrownKnown
          <5>5. tasks[t].state \in FINISHED
            BY <1>1, <4>1, <5>2, <5>4, AttachedParent DEF LiveIn
          <5> QED
            BY <3>1, <5>5, StatesDiffer
        <4>4. tasks'[d].state = "FUTURE"
          BY <4>2, <4>3, StatesDiffer DEF Awaited
        <4>5. tasks[t].state = "FUTURE"
          BY <3>1, <3>2, <4>1, <4>4, StatesDiffer DEF Foresees
        <4>6. "FUTURE" \in Top.mask /\ tasks'[t].state = "FUTURE"
          BY <2>2, <2>13, <3>2, <4>5 DEF In, Grown
        <4>7. d \in next
          <5>1. In(tasks', t, DEFINITE)
            BY <4>6, StatesDiffer DEF In
          <5>2. d \in Children(tasks', t) /\ In(tasks', d, Top.mask)
            BY <4>1, <4>4, <4>6 DEF Children, In
          <5> QED
            BY <5>1, <5>2 DEF next, PredictNext
        <4>8. f \in Frames(calls')
          BY <2>6, <2>7, <4>7
        <4> QED
          BY <2>5, <4>4, <4>6, <4>7, <4>8 DEF Founded, Foreseen
      <3> QED
        BY <3>4, <3>5, <3>6
    <2> QED
      BY <2>12, <2>13
  <1> QED
    BY <1>3, <1>4

LEMMA MethodsDown ==
  ASSUME IInv, ReachInv, UpdateWaitingTasks \/ Cancel, NEW J, NEW R, GoesDown(tasks, calls, J, R)
  PROVE  GoesDown(tasks', calls', J, R)
  <1>1. calls = <<>> /\ Tree(tasks, Specs) /\ Frames(calls) = {}
    BY IInvSplit, StackNone DEF UpdateWaitingTasks, Cancel, Quiescent
  <1>2. \A f \in Frames(calls') : f.op # "hook"
    <2>1. Frame("visit", Root, {Root}).op = "visit"
      BY DEF Frame
    <2> QED
      BY <1>1, <2>1, StackNone DEF UpdateWaitingTasks, Cancel
  <1>3. CASE UNCHANGED tasks
    <2>1. \A d : Founded(tasks, calls, d) => Children(tasks, d) # {}
      BY <1>1, FoundedByKids
    <2> QED
      BY <1>2, <1>3, <2>1 DEF GoesDown, Awaited, Founded, Hooked
  <1>4. CASE Cancel
    <2>1. IsCompleted(tasks')
      BY <1>1, <1>4, CancelRootCompletes DEF Cancel
    <2>2. \A d \in DOMAIN tasks' : ~Awaited(tasks', calls', d)
      BY <2>1, StatesDiffer DEF IsCompleted, InState, Awaited
    <2> QED
      BY <2>2 DEF GoesDown
  <1> QED
    BY <1>3, <1>4 DEF UpdateWaitingTasks

LEMMA InitDown ==
  ASSUME Init, NEW J, NEW R
  PROVE  GoesDown(tasks, calls, J, R)
  <1> DEFINE f == PredictFrame(Root, {Root}, 0, NOT_FINISHED)
             g == Frame("hook", Root, {})
  <1>1. DOMAIN tasks = {Root} /\ tasks[Root].state = "FUTURE" /\ calls = <<f, g>>
    BY DEF Init
  <1>2. f \in Frames(calls)
    <2> HIDE DEF f, g
    <2> QED
      BY <1>1 DEF Frames
  <1>3. Foreseen(tasks, calls, Root)
    BY <1>1, <1>2, StatesDiffer DEF Foreseen, PredictFrame
  <1> QED
    BY <1>1, <1>3 DEF GoesDown, Founded

LEMMA NextDown ==
  ASSUME IInv, IInv', ReachInv, FiringInv, Step \/ Run \/ UpdateWaitingTasks \/ Cancel, ~PredictRaises,
         NEW J, NEW R, Region(J, R), FollowsNet(tasks'), GoesDown(tasks, calls, J, R)
  PROVE  GoesDown(tasks', calls', J, R)
  <1>1. CASE Step
    BY <1>1, PredictDown, UpdateDown, UpdateJoinDown, CancelNextDown, JoinFiresDown,
       CompleteTaskDown, WalkDown DEF Step
  <1>2. CASE Run
    BY <1>2, RunDown DEF Run
  <1> QED
    BY <1>1, <1>2, MethodsDown

-----------------------------------------------------------------------------
(* What a join that is about to fire leaves before it.                     *)

\* What is about to be cancelled, alone or with what comes before it.
Doomed(c, d) == \E f \in Frames(c) : f.op = "cancel" /\ \E x \in f.todo : x = d \/ Above(x, d)

\* What is unfinished between the split of j and the join J is about to be cancelled.
ClearedAt(T, c, j, J) ==
    \A s \in SplitTask(T, j) : \A d \in Below(T, s) :
        T[d].state \in NOT_FINISHED => AtJoin(T, s, d, J) \/ Doomed(c, d)

JoinCleared(T, c, J) ==
    \A f \in Frames(c) :
        f.op = "join" /\ f.task \in DOMAIN T /\ T[f.task].spec = J => ClearedAt(T, c, f.task, J)

LEMMA NoneCleared == ASSUME NEW c, NoneCancels(c), NEW T, NEW J PROVE JoinCleared(T, c, J)
  BY DEF NoneCancels, JoinCleared

\* Nothing in a branch that has been cancelled is unfinished.
LEMMA CancelledBranch ==
  ASSUME NEW T, Tree(T, Specs), NEW t \in DOMAIN T, NEW d \in DOMAIN CancelBranch(T, t),
         t = d \/ Above(t, d)
  PROVE  CancelBranch(T, t)[d].state \notin NOT_FINISHED
  <1> DEFINE open == Branch(T, t) \intersect InState(T, NOT_FINISHED)
             top  == {a \in open : ~\E e \in open : Above(e, a)}
             V    == SetState(T, top, "CANCELLED")
             gone == {e \in InState(V, NOT_FINISHED) : \E a \in top : Above(a, e)}
             U    == CancelBranch(T, t)
  <1>1. U = RemoveBranches(V, gone)
    BY DEF CancelBranch, DropChildren
  <1>2. Shrunk(T, U) /\ Tree(V, Specs) /\ DOMAIN V = DOMAIN T
    BY CancelBranchShrunk, SetStateTree, StatesDiffer
  <1>3. \A e \in DOMAIN T : V[e].state = IF e \in top THEN "CANCELLED" ELSE T[e].state
    BY SetStateEffect
  <1> SUFFICES ASSUME U[d].state \in NOT_FINISHED PROVE FALSE
    OBVIOUS
  <1>4. d \in DOMAIN T /\ d \in Branch(T, t) /\ T[d].state \in NOT_FINISHED
    BY <1>2, StatesDiffer DEF Shrunk, Branch, Below
  <1>5. d \in open /\ open \in SUBSET Path
    BY <1>4, StateTyped DEF InState
  <1>6. V[d] = U[d] /\ d \notin gone
    <2> HIDE DEF V, gone
    <2> QED
      BY <1>1 DEF RemoveBranches
  <1>7. d \notin top
    BY <1>3, <1>4, <1>6, StatesDiffer
  <1>8. \E a \in top : Above(a, d)
    <2> DEFINE S == {a \in open : Above(a, d)}
    <2>1. S # {} /\ S \in SUBSET Path
      BY <1>5, <1>7
    <2>2. PICK a \in S : \A e \in S : ~Above(e, a)
      <3> HIDE DEF S
      <3> QED
        BY <2>1, TopmostExists
    <2>3. ASSUME NEW e \in open, Above(e, a) PROVE FALSE
      <3>1. e \in Path /\ a \in Path /\ d \in Path /\ Above(a, d)
        BY <1>5, <2>2
      <3>2. Above(e, d)
        BY <2>3, <3>1, AboveTransitive
      <3> QED
        BY <2>2, <2>3, <3>2
    <2> QED
      BY <2>2, <2>3
  <1>9. d \in InState(V, NOT_FINISHED)
    BY <1>2, <1>4, <1>6 DEF InState
  <1> QED
    BY <1>6, <1>8, <1>9

\* The branches that may not come to the join and those that have come leave nothing unfinished.
LEMMA CompleteBranchCleared ==
  ASSUME NEW T, Tree(T, Specs), Bounded(T), FollowsNet(T), NEW J, NEW R, Region(J, R),
         NEW s \in DOMAIN T, T[s].spec = Net[J].split, NEW b \in Children(T, s),
         ~BranchMayMerge(T, b, J) \/ BranchIsComplete(T, b, J), LiveBelow(T, J, R),
         NEW c, GoesDown(T, c, J, R), \A f \in Frames(c) : f.op \notin {"predict", "complete"},
         NEW d \in Branch(T, b), d \in DOMAIN T, T[d].state \in NOT_FINISHED
  PROVE  AtJoin(T, s, d, J)
  <1>1. CASE ~BranchMayMerge(T, b, J)
    BY <1>1, DeadBranch
  <1>2. CASE BranchIsComplete(T, b, J)
    <2>1. d \in Branch(T, b) \intersect InState(T, NOT_FINISHED)
      BY DEF InState
    <2>2. PICK o \in Branch(T, b) \intersect InState(T, NOT_FINISHED) :
             T[o].spec = J /\ (o = d \/ Above(o, d))
      BY <1>2, <2>1 DEF BranchIsComplete
    <2>3. /\ o \in DOMAIN T /\ o \in Path /\ b \in DOMAIN T /\ b \in Path /\ s \in Path
          /\ b # Root /\ Parent(b) = s
      BY <2>2, StateTyped DEF InState, Children
    <2>4. Above(s, b)
      BY <2>3, AboveParent
    <2>5. o = b \/ Above(b, o)
      BY <2>2 DEF Branch, Below
    <2>6. Above(s, o)
      BY <2>3, <2>4, <2>5, AboveTransitive
    <2> QED
      BY <2>2, <2>3, <2>6 DEF AtJoin, Below
  <1> QED
    BY <1>1, <1>2

\* A structured join that may fire, and waits for all or cancels the rest.
LEMMA MayFireClears ==
  ASSUME NEW T, Tree(T, Specs), Bounded(T), FollowsNet(T), NEW J, NEW R, Region(J, R),
         Net[J].split # None, NEW j \in DOMAIN T, T[j].spec = J, MayFire(T, j), LiveBelow(T, J, R),
         NEW c, GoesDown(T, c, J, R), \A f \in Frames(c) : f.op \notin {"predict", "complete"},
         NEW e,
         \/ Net[J].threshold = 0
         \/ \E f \in Frames(e) : f.op = "cancel"
                                 /\ f.todo = ActivatedTasks(T, j) \ CompleteBranches(T, j)
  PROVE  ClearedAt(T, e, j, J)
  <1> SUFFICES ASSUME NEW s \in SplitTask(T, j), NEW d \in Below(T, s), T[d].state \in NOT_FINISHED
               PROVE  AtJoin(T, s, d, J) \/ Doomed(e, d)
    BY DEF ClearedAt
  <1>1. s \in DOMAIN T /\ T[s].spec = Net[J].split /\ SplitTask(T, j) = {s}
    BY SplitParts
  <1>2. ActivatedTasks(T, j) = Children(T, s)
    BY <1>1 DEF ActivatedTasks, Region
  <1>3. PICK b \in Children(T, s) : d \in Branch(T, b)
    BY <1>1, FirstBelow
  <1>4. d \in DOMAIN T
    BY DEF Below
  <1>5. CASE b \in CompleteBranches(T, j)
    <2>1. ~BranchMayMerge(T, b, J) \/ BranchIsComplete(T, b, J)
      BY <1>5 DEF CompleteBranches
    <2> QED
      BY <1>1, <1>3, <1>4, <2>1, CompleteBranchCleared
  <1>6. CASE b \notin CompleteBranches(T, j)
    <2>1. CASE Net[J].threshold = 0
      <3>1. ~Unstructured(T, j)
        BY DEF Unstructured
      <3>2. Cardinality(CompleteBranches(T, j)) >= Cardinality(ActivatedTasks(T, j))
        BY <2>1, <3>1 DEF MayFire, Threshold
      <3>3. CompleteBranches(T, j) \in SUBSET Children(T, s)
        BY <1>2 DEF CompleteBranches
      <3>4. /\ IsFiniteSet(Children(T, s)) /\ Cardinality(Children(T, s)) \in Nat
            /\ Cardinality(CompleteBranches(T, j)) \in Nat
        BY <1>1, <3>3, ChildrenFinite
      <3>5. Cardinality(CompleteBranches(T, j)) <= Cardinality(Children(T, s))
        BY <3>3, <3>4, FS_Subset
      <3>6. Cardinality(Children(T, s)) = Cardinality(CompleteBranches(T, j))
        BY <1>2, <3>2, <3>4, <3>5
      <3>7. Children(T, s) = CompleteBranches(T, j)
        BY <3>3, <3>4, <3>6, FS_Subset
      <3> QED
        BY <1>3, <1>6, <3>7
    <2>2. CASE Net[J].threshold # 0
      <3>1. PICK f \in Frames(e) : f.op = "cancel"
                                   /\ f.todo = ActivatedTasks(T, j) \ CompleteBranches(T, j)
        BY <2>2
      <3>2. b \in f.todo
        BY <1>2, <1>3, <1>6, <3>1
      <3>3. b = d \/ Above(b, d)
        BY <1>3 DEF Branch, Below
      <3> QED
        BY <3>1, <3>2, <3>3 DEF Doomed
    <2> QED
      BY <2>1, <2>2
  <1> QED
    BY <1>5, <1>6

LEMMA UpdateJoinCleared ==
  ASSUME IInv, ReachInv, UpdateJoin, Bounded(tasks), FollowsNet(tasks), NEW J, NEW R, Region(J, R),
         Net[J].split # None, Net[J].threshold = 0 \/ Net[J].cancel,
         LiveBelow(tasks, J, R), GoesDown(tasks, calls, J, R), RegionClosed(tasks, J)
  PROVE  JoinCleared(tasks', calls', J)
  <1> DEFINE j     == Top.task
             todos == {WaitingTasks(tasks, j)[i] : i \in DOMAIN WaitingTasks(tasks, j)}
  <1>1. Tree(tasks, Specs)
    BY IInvSplit
  <1>2. /\ calls # <<>> /\ Top.op = "hook" /\ j \in DOMAIN tasks /\ Kind(tasks[j].spec) = "Join"
        /\ NoneCancels(Tail(calls))
        /\ \/ NoneCancels(calls')
           \/ /\ UNCHANGED tasks /\ tasks[j].state = "READY"
              /\ \A f \in Frames(calls') : f.op = "join" => f.task = j \/ f \in Frames(Tail(calls))
           \/ /\ UNCHANGED tasks /\ MayFire(tasks, j)
              /\ \A f \in Frames(calls') : f.op = "join" => f.task = j \/ f \in Frames(Tail(calls))
              /\ Net[tasks[j].spec].cancel =>
                    \A S \in todos : Frame("cancel", j, S) \in Frames(calls')
    <2> DEFINE rest == Frames(Tail(calls))
    <2>1. \A S : Frame("join", j, S).task = j /\ Frame("cancel", j, S).op = "cancel"
      BY DEF Frame
    <2> HIDE DEF todos
    <2>2. /\ calls # <<>> /\ Top.op = "hook" /\ j \in DOMAIN tasks /\ Kind(tasks[j].spec) = "Join"
          /\ NoneCancels(Tail(calls))
          /\ \/ NoneCancels(calls')
             \/ /\ UNCHANGED tasks /\ tasks[j].state = "READY"
                /\ Frames(calls') = {Frame("join", j, {})} \union rest
             \/ /\ UNCHANGED tasks /\ MayFire(tasks, j)
                /\ Frames(calls') = {Frame("join", j, {})} \union rest \union
                      (IF Net[tasks[j].spec].cancel THEN {Frame("cancel", j, S) : S \in todos}
                       ELSE {})
      BY JoinFrames DEF todos
    <2> HIDE DEF rest, j
    <2>3. ASSUME Frames(calls') = {Frame("join", j, {})} \union rest
          PROVE  \A f \in Frames(calls') : f.op = "join" => f.task = j \/ f \in rest
      BY <2>1, <2>3
    <2>4. ASSUME Frames(calls') = {Frame("join", j, {})} \union rest \union
                    (IF Net[tasks[j].spec].cancel THEN {Frame("cancel", j, S) : S \in todos} ELSE {})
          PROVE  /\ \A f \in Frames(calls') : f.op = "join" => f.task = j \/ f \in rest
                 /\ Net[tasks[j].spec].cancel =>
                       \A S \in todos : Frame("cancel", j, S) \in Frames(calls')
      BY <2>1, <2>4
    <2> QED
      BY <2>2, <2>3, <2>4 DEF rest
  <1>3. \A f \in Frames(calls) : f.op \notin {"predict", "complete"}
    <2>1. \A f \in Frames(Tail(calls)) : f.op \in {"children", "visit", "finish"}
      BY <1>2, PlainTail
    <2>2. Frames(calls) = {Top} \union Frames(Tail(calls))
      BY <1>2, StackTail DEF IInv, TypeOK, Top
    <2> QED
      BY <1>2, <2>1, <2>2
  <1>4. CASE NoneCancels(calls')
    BY <1>4, NoneCleared
  <1> SUFFICES ASSUME ~NoneCancels(calls'),
                      NEW f \in Frames(calls'), f.op = "join", f.task \in DOMAIN tasks',
                      tasks'[f.task].spec = J
               PROVE  ClearedAt(tasks', calls', f.task, J)
    BY <1>4 DEF JoinCleared
  <1>5. UNCHANGED tasks /\ f.task = j
    <2> HIDE DEF j, todos
    <2> QED
      BY <1>2 DEF NoneCancels
  <1>6. tasks[j].spec = J
    BY <1>5
  <1>7. CASE tasks[j].state = "READY"
    <2>1. j \in FiredIn(tasks)
      BY <1>2, <1>7 DEF FiredIn, InState
    <2>2. ClosedAt(tasks, j)
      BY <1>6, <2>1 DEF RegionClosed
    <2>3. ASSUME NEW s \in SplitTask(tasks, j), NEW d \in Below(tasks, s),
                 tasks[d].state \in NOT_FINISHED
          PROVE  AtJoin(tasks, s, d, J)
      <3>1. j \in Below(tasks, s)
        BY <1>1, <1>2, SplitParts
      <3> QED
        BY <1>6, <2>2, <2>3, <3>1 DEF ClosedAt, AtJoin
    <2>4. ClearedAt(tasks, calls', j, J)
      BY <2>3 DEF ClearedAt
    <2> QED
      BY <1>5, <2>4
  <1>8. CASE tasks[j].state # "READY"
    <2>1. MayFire(tasks, j) /\ (Net[J].cancel => \A S \in todos : Frame("cancel", j, S) \in Frames(calls'))
      <3> HIDE DEF j, todos
      <3> QED
        BY <1>2, <1>6, <1>8
    <2>2. Net[J].cancel =>
             \E g \in Frames(calls') : g.op = "cancel"
                  /\ g.todo = ActivatedTasks(tasks, j) \ CompleteBranches(tasks, j)
      <3> DEFINE open == ActivatedTasks(tasks, j) \ CompleteBranches(tasks, j)
      <3> SUFFICES ASSUME Net[J].cancel PROVE \E g \in Frames(calls') : g.op = "cancel" /\ g.todo = open
        OBVIOUS
      <3>1. WaitingTasks(tasks, j) = <<open>>
        BY <1>6 DEF WaitingTasks, Unstructured
      <3>2. open \in todos
        <4> HIDE DEF open
        <4>1. 1 \in DOMAIN <<open>> /\ <<open>>[1] = open
          OBVIOUS
        <4> QED
          BY <3>1, <4>1
      <3>3. Frame("cancel", j, open).op = "cancel" /\ Frame("cancel", j, open).todo = open
        BY DEF Frame
      <3> HIDE DEF open, todos
      <3> QED
        BY <2>1, <3>2, <3>3
    <2>3. ClearedAt(tasks, calls', j, J)
      <3> HIDE DEF j, todos
      <3> QED
        BY <1>1, <1>2, <1>3, <1>6, <2>1, <2>2, MayFireClears
    <2> QED
      BY <1>5, <2>3
  <1> QED
    BY <1>7, <1>8

LEMMA CancelNextCleared ==
  ASSUME IInv, IInv', FiringInv, CancelNext, NEW J, JoinCleared(tasks, calls, J)
  PROVE  JoinCleared(tasks', calls', J)
  <1>1. Tree(tasks, Specs) /\ Tree(tasks', Specs) /\ Shrunk(tasks, tasks')
    BY IInvSplit, IInvSplitPrime, CancelNextFrames
  <1> SUFFICES ASSUME NEW g \in Frames(calls'), g.op = "join", g.task \in DOMAIN tasks',
                      tasks'[g.task].spec = J,
                      NEW s \in SplitTask(tasks', g.task), NEW d \in Below(tasks', s),
                      tasks'[d].state \in NOT_FINISHED
               PROVE  AtJoin(tasks', s, d, J) \/ Doomed(calls', d)
    BY DEF JoinCleared, ClearedAt
  <1>2. g \in Frames(calls) /\ g.task \in DOMAIN tasks /\ tasks[g.task].spec = J
    BY <1>1, CancelNextFrames DEF Shrunk
  <1>3. s \in SplitTask(tasks, g.task)
    BY <1>1, <1>2, SplitStays DEF Shrunk, SameSpecs
  <1>4. /\ s \in DOMAIN tasks /\ s \in DOMAIN tasks' /\ d \in DOMAIN tasks' /\ d \in DOMAIN tasks
        /\ d \in Path /\ d \in Below(tasks, s) /\ tasks[d].state \in NOT_FINISHED
    BY <1>1, SplitParts, StateTyped, StatesDiffer DEF Below, Shrunk
  <1>5. AtJoin(tasks, s, d, J) \/ Doomed(calls, d)
    BY <1>2, <1>3, <1>4 DEF JoinCleared, ClearedAt
  <1>6. CASE AtJoin(tasks, s, d, J)
    <2>1. PICK o \in Below(tasks, s) : tasks[o].spec = J /\ (o = d \/ Above(o, d))
      BY <1>6 DEF AtJoin
    <2>2. o \in DOMAIN tasks /\ o \in Path /\ Above(s, o)
      BY <1>1, <2>1, StateTyped DEF Below
    <2>3. o \in DOMAIN tasks'
      BY <1>1, <1>4, <2>1, <2>2, AncestorsLive
    <2>4. tasks'[o].spec = J
      BY <1>1, <2>1, <2>3 DEF Shrunk
    <2> QED
      BY <2>1, <2>2, <2>3, <2>4 DEF AtJoin, Below
  <1>7. CASE Doomed(calls, d)
    <2>1. PICK f \in Frames(calls) : f.op = "cancel" /\ \E x \in f.todo : x = d \/ Above(x, d)
      BY <1>7 DEF Doomed
    <2>2. PICK x \in f.todo : x = d \/ Above(x, d)
      BY <2>1
    <2>3. \/ Top.todo = {} /\ Frames(calls') = Frames(Tail(calls))
          \/ \E t \in Top.todo : \E S :
                /\ S = Top.todo \ {t}
                /\ tasks' = IF t \in DOMAIN tasks THEN CancelBranch(tasks, t) ELSE tasks
                /\ Frames(calls') = Frames(Tail(calls))
                      \union (IF S = {} THEN {} ELSE {[Top EXCEPT !.todo = S]})
      BY CancelNextParts
    <2>4. Frames(calls) = {Top} \union Frames(Tail(calls)) /\ Top \in FrameType
          /\ Top.op = "cancel" /\ Top.todo \in SUBSET Path
      BY CancelNextParts, StackTyped DEF IInv, TypeOK
    <2>5. CASE f \in Frames(Tail(calls))
      BY <2>1, <2>3, <2>5 DEF Doomed
    <2>6. CASE f = Top
      <3>1. Top.todo # {} /\ x \in Top.todo /\ x \in Path
        BY <2>2, <2>4, <2>6
      <3>2. PICK t \in Top.todo :
               /\ tasks' = IF t \in DOMAIN tasks THEN CancelBranch(tasks, t) ELSE tasks
               /\ Frames(calls') = Frames(Tail(calls))
                     \union (IF Top.todo \ {t} = {} THEN {} ELSE {[Top EXCEPT !.todo = Top.todo \ {t}]})
        BY <2>3, <3>1
      <3>3. CASE x = t
        <4>1. t \in DOMAIN tasks
          BY <1>1, <1>4, <2>2, <3>1, <3>3, AncestorsLive
        <4>2. d \in DOMAIN CancelBranch(tasks, t) /\ CancelBranch(tasks, t)[d].state \in NOT_FINISHED
          BY <1>4, <3>2, <4>1
        <4> QED
          BY <1>1, <2>2, <3>3, <4>1, <4>2, CancelledBranch
      <3>4. CASE x # t
        <4> DEFINE S == Top.todo \ {t}
                   h == [Top EXCEPT !.todo = S]
        <4>1. x \in S
          BY <3>1, <3>4
        <4>2. h.op = "cancel" /\ h.todo = S
          BY <2>4 DEF FrameType
        <4>3. h \in Frames(calls')
          BY <3>2, <4>1
        <4> HIDE DEF S, h
        <4> QED
          BY <2>2, <4>1, <4>2, <4>3 DEF Doomed
      <3> QED
        BY <3>3, <3>4
    <2> QED
      BY <2>4, <2>5, <2>6
  <1> QED
    BY <1>5, <1>6, <1>7

LEMMA NextCleared ==
  ASSUME IInv, IInv', ReachInv, FiringInv, Step \/ Run \/ UpdateWaitingTasks \/ Cancel,
         Bounded(tasks), FollowsNet(tasks), NEW J, NEW R, Region(J, R),
         Net[J].split # None, Net[J].threshold = 0 \/ Net[J].cancel,
         LiveBelow(tasks, J, R), GoesDown(tasks, calls, J, R), RegionClosed(tasks, J),
         JoinCleared(tasks, calls, J)
  PROVE  JoinCleared(tasks', calls', J)
  <1>1. CASE UpdateJoin
    BY <1>1, UpdateJoinCleared
  <1>2. CASE CancelNext
    BY <1>2, CancelNextCleared
  <1>3. CASE Step /\ ~UpdateJoin /\ ~CancelNext
    BY <1>3, StepNoneCancels, NoneCleared
  <1>4. CASE Run
    <2>1. PICK t \in DOMAIN tasks : RunTask(t)
      BY <1>4 DEF Run
    <2>2. Firing(calls') = {}
      BY <2>1, RunFires
    <2> QED
      BY <2>2 DEF Firing, JoinCleared, Frames
  <1>5. CASE UpdateWaitingTasks
    <2>1. Frames(calls') = {Frame("visit", Root, {Root})}
      BY <1>5, StackNone DEF UpdateWaitingTasks
    <2> QED
      BY <2>1 DEF Frame, JoinCleared
  <1>6. CASE Cancel
    <2>1. Frames(calls') = {}
      BY <1>6, StackNone DEF Cancel, Quiescent
    <2> QED
      BY <2>1 DEF JoinCleared
  <1> QED
    BY <1>1, <1>2, <1>3, <1>4, <1>5, <1>6

-----------------------------------------------------------------------------
(* A join that has fired leaves nothing before it.                         *)

LEMMA StillClosed ==
  ASSUME Tree(tasks, Specs), Tree(tasks', Specs), SameSpecs(tasks, tasks'), Stays(tasks, tasks'),
         NEW inner, Moves(inner), Reach(tasks) \/ DOMAIN tasks' \subseteq DOMAIN tasks,
         NEW J, RegionClosed(tasks, J),
         \A j \in FiredIn(tasks') : tasks'[j].spec = J => j \in FiredIn(tasks)
  PROVE  RegionClosed(tasks', J)
  BY RegionClosedStays DEF Moves

\* What JoinFires does to a task.
LEMMA FiringParts ==
  ASSUME IInv, ReachInv, JoinFires
  PROVE  LET rivals == OtherInstances(tasks, Top.task)
         IN  /\ calls # <<>> /\ Top.op = "join" /\ Top.task \in DOMAIN tasks
             /\ DOMAIN tasks' \subseteq DOMAIN tasks
             /\ \A d \in DOMAIN tasks' \ {Top.task} :
                   /\ tasks'[d].state = IF d \in rivals THEN "CANCELLED" ELSE tasks[d].state
                   /\ tasks[d].state \in NOT_FINISHED => \A o \in rivals : ~Above(o, d)
  <1> DEFINE t      == Top.task
             rivals == OtherInstances(tasks, t)
             V      == DropChildren(tasks, rivals)
             W      == SetState(V, rivals \intersect DOMAIN V, "CANCELLED")
  <1>1. /\ calls # <<>> /\ Top.op = "join" /\ t \in DOMAIN tasks /\ Tree(tasks, Specs)
        /\ tasks' = Ready(W, t)
    BY InProgress DEF JoinFires, Doing, Top, DoJoin
  <1>2. rivals \in SUBSET Path
    BY <1>1, StateTyped DEF OtherInstances, Instances, OfSpec
  <1> HIDE DEF rivals
  <1>3. Tree(V, Specs) /\ DOMAIN V \subseteq DOMAIN tasks /\ \A d \in DOMAIN V : V[d] = tasks[d]
    BY <1>1, <1>2, DropChildrenTree, DropChildrenShrunk DEF Shrunk
  <1>4. ASSUME NEW d \in DOMAIN V, tasks[d].state \in NOT_FINISHED, NEW o \in rivals, Above(o, d)
        PROVE  FALSE
    <2> DEFINE gone == {e \in InState(tasks, NOT_FINISHED) : \E r \in rivals : Above(r, e)}
    <2>1. V = RemoveBranches(tasks, gone)
      BY DEF DropChildren
    <2>2. d \in gone
      BY <1>3, <1>4 DEF InState
    <2> HIDE DEF gone
    <2> QED
      BY <1>4, <2>1, <2>2 DEF RemoveBranches
  <1> HIDE DEF V
  <1>5. /\ Tree(W, Specs) /\ DOMAIN W = DOMAIN V
        /\ \A d \in DOMAIN V : W[d].state = IF d \in rivals THEN "CANCELLED" ELSE V[d].state
    BY <1>3, SetStateTree, SetStateEffect, StatesDiffer
  <1> HIDE DEF W
  <1>6. DOMAIN tasks' = DOMAIN W /\ \A d \in DOMAIN W : d # t => tasks'[d].state = W[d].state
    BY <1>1, <1>5, SetStateEffect DEF Ready
  <1> QED
    BY <1>1, <1>3, <1>4, <1>5, <1>6 DEF rivals

LEMMA NotTwiceOn ==
  ASSUME NEW T, Tree(T, Specs), NEW after, NoLoopsIn(after), Behind(T, after),
         NEW J \in Specs, Kind(J) = "Join",
         NEW x \in DOMAIN T, NEW y \in DOMAIN T, T[x].spec = J, T[y].spec = J
  PROVE  ~Above(x, y)
  BY DEF NoLoopsIn, Behind

LEMMA FiredClosed ==
  ASSUME IInv, IInv', ReachInv, JoinFires, ByNet(tasks, tasks'), NEW n \in Nat, Threaded(tasks, n),
         FollowsNet(tasks), NEW after, NoLoopsIn(after), Behind(tasks, after),
         NEW J \in Specs, Kind(J) = "Join", NEW R, Region(J, R), Net[J].split # None,
         Top.task \in DOMAIN tasks', tasks[Top.task].spec = J, JoinCleared(tasks, calls, J)
  PROVE  ClosedAt(tasks', Top.task)
  <1> DEFINE j      == Top.task
             rivals == OtherInstances(tasks, j)
  <1>1. Tree(tasks, Specs) /\ Tree(tasks', Specs) /\ SameSpecs(tasks, tasks')
    BY IInvSplit, IInvSplitPrime DEF ByNet
  <1>2. /\ calls # <<>> /\ Top.op = "join" /\ j \in DOMAIN tasks
        /\ DOMAIN tasks' \subseteq DOMAIN tasks
        /\ \A d \in DOMAIN tasks' \ {j} :
              /\ tasks'[d].state = IF d \in rivals THEN "CANCELLED" ELSE tasks[d].state
              /\ tasks[d].state \in NOT_FINISHED => \A o \in rivals : ~Above(o, d)
    BY FiringParts
  <1> SUFFICES ASSUME NEW s \in SplitTask(tasks', j), NEW d \in Below(tasks', s),
                      tasks'[d].state \in NOT_FINISHED, d # j
               PROVE  Above(j, d)
    BY DEF ClosedAt
  <1>3. s \in SplitTask(tasks, j)
    BY <1>1, <1>2, SplitStays
  <1>4. /\ s \in DOMAIN tasks /\ tasks[s].spec = Net[J].split /\ j \in Below(tasks, s)
        /\ Above(s, j)
    BY <1>1, <1>2, <1>3, SplitParts
  <1> HIDE DEF rivals
  <1>5. /\ d \in DOMAIN tasks /\ d \in Below(tasks, s) /\ tasks[d].state \in NOT_FINISHED
        /\ d \notin rivals /\ \A o \in rivals : ~Above(o, d)
    <2>1. d \in DOMAIN tasks' /\ d \in DOMAIN tasks /\ Above(s, d)
      BY <1>2 DEF Below
    <2>2. d \notin rivals /\ tasks[d].state \in NOT_FINISHED
      BY <1>2, <2>1, StatesDiffer
    <2> QED
      BY <1>2, <2>1, <2>2 DEF Below
  <1>6. ~Doomed(calls, d)
    <2>1. \A f \in Frames(Tail(calls)) : f.op \in {"children", "visit", "finish"}
      BY <1>2, PlainTail
    <2>2. Frames(calls) = {Top} \union Frames(Tail(calls))
      BY <1>2, StackTail DEF IInv, TypeOK, Top
    <2> QED
      BY <1>2, <2>1, <2>2 DEF Doomed
  <1>7. AtJoin(tasks, s, d, J)
    <2>1. Top \in Frames(calls)
      BY <1>2, StackTail DEF IInv, TypeOK, Top
    <2>2. ClearedAt(tasks, calls, j, J)
      BY <1>2, <2>1 DEF JoinCleared
    <2> QED
      BY <1>3, <1>5, <1>6, <2>2 DEF ClearedAt
  <1>8. PICK o \in Below(tasks, s) : tasks[o].spec = J /\ (o = d \/ Above(o, d))
    BY <1>7 DEF AtJoin
  <1>9. o \in DOMAIN tasks /\ Above(s, o)
    BY <1>8 DEF Below
  <1>10. \A x \in Below(tasks, s) : tasks[x].spec = J => ~Above(x, o) /\ ~Above(x, j) /\ ~Above(j, x)
    BY <1>1, <1>2, <1>8, <1>9, NotTwiceOn DEF Below
  <1>11. tasks[o].thread = tasks[s].thread
    BY <1>1, <1>4, <1>8, <1>10, RegionThread
  <1>12. tasks[j].thread = tasks[s].thread
    BY <1>1, <1>4, <1>10, RegionThread
  <1>13. CASE o = j
    BY <1>8, <1>13
  <1>14. CASE o # j
    <2>1. o \in rivals
      BY <1>3, <1>8, <1>9, <1>10, <1>11, <1>12, <1>14 DEF rivals, OtherInstances, Instances, OfSpec
    <2> QED
      BY <1>5, <1>8, <2>1
  <1> QED
    BY <1>13, <1>14

LEMMA JoinFiresClosed ==
  ASSUME IInv, IInv', ReachInv, JoinFires, ByNet(tasks, tasks'), Stays(tasks, tasks'),
         NEW inner, Moves(inner), NEW n \in Nat, Threaded(tasks, n),
         FollowsNet(tasks), NEW after, NoLoopsIn(after), Behind(tasks, after),
         NEW J \in Specs, Kind(J) = "Join", NEW R, Region(J, R), Net[J].split # None,
         JoinCleared(tasks, calls, J), RegionClosed(tasks, J)
  PROVE  RegionClosed(tasks', J)
  <1>1. Tree(tasks, Specs) /\ Tree(tasks', Specs) /\ SameSpecs(tasks, tasks')
    BY IInvSplit, IInvSplitPrime DEF ByNet
  <1>2. calls # <<>> /\ Top.op = "join" /\ Top.task \in DOMAIN tasks
    BY FiringParts
  <1>3. Reach(tasks)
    BY <1>2, InProgress
  <1>4. FiredIn(tasks') \subseteq FiredIn(tasks) \union {Top.task}
    <2>1. Frames(calls) = {Top} \union Frames(Tail(calls))
      BY <1>2, StackTail DEF IInv, TypeOK, Top
    <2>2. \A f \in Frames(Tail(calls)) : f.op \in {"children", "visit", "finish"}
      BY <1>2, PlainTail
    <2>3. Firing(calls) \subseteq {Top.task}
      BY <2>1, <2>2 DEF Firing, Frames
    <2> QED
      BY <2>3, JoinFiresFired
  <1> SUFFICES ASSUME NEW j \in FiredIn(tasks'), tasks'[j].spec = J PROVE ClosedAt(tasks', j)
    BY DEF RegionClosed
  <1>5. j \in DOMAIN tasks'
    BY DEF FiredIn, InState
  <1>6. CASE j = Top.task
    <2>1. tasks[j].spec = J
      BY <1>1, <1>2, <1>5, <1>6 DEF SameSpecs
    <2> QED
      BY <1>5, <1>6, <2>1, FiredClosed
  <1>7. CASE j \in FiredIn(tasks)
    <2>1. j \in DOMAIN tasks /\ tasks[j].state \in REACHED /\ tasks[j].spec = J
      BY <1>1, <1>5, <1>7 DEF FiredIn, InState, In, REACHED, SameSpecs
    <2>2. ClosedAt(tasks, j) /\ Attached(tasks, j)
      BY <1>3, <1>7, <2>1 DEF RegionClosed, Reach
    <2> QED
      BY <1>1, <1>5, <2>1, <2>2, ClosedStays DEF Moves
  <1> QED
    BY <1>4, <1>6, <1>7

LEMMA ThreadStartCloses ==
  ASSUME IInv, ReachInv, NEW t \in DOMAIN tasks, RunThreadStart(t), FollowsNet(tasks'),
         NEW J, NEW R, Region(J, R), NEW j \in FiredIn(tasks'), tasks'[j].spec = J
  PROVE  j \in FiredIn(tasks)
  <1> DEFINE T    == AssignThread(tasks, t, threads + 1)
             outs == Outputs(tasks[t].spec)
  <1>1. /\ Tree(tasks, Specs) /\ tasks[t].spec \in Specs /\ Kind(tasks[t].spec) = "ThreadStart"
        /\ threads + 1 \in Nat
    BY RunnableReach, IInvSplit DEF RunThreadStart, OthersTyped
  <1>2. /\ Tree(T, Specs) /\ DOMAIN T = DOMAIN tasks
        /\ \A d \in DOMAIN tasks : T[d].state = tasks[d].state /\ T[d].spec = tasks[d].spec
    BY <1>1, AssignThreadTree
  <1>3. \/ tasks' = SetState(T, {t}, "ERROR")
        \/ tasks' = SyncChildren(T, t, outs, Len(outs), "READY")
    BY DEF RunThreadStart
  <1> HIDE DEF T
  <1>4. j \in DOMAIN tasks' /\ tasks'[j].state \in {"READY", "COMPLETED"} /\ Kind(tasks'[j].spec) = "Join"
    BY DEF FiredIn, InState, In
  <1>5. j \in DOMAIN T /\ tasks'[j].state = T[j].state /\ tasks'[j].spec = T[j].spec
    <2>1. CASE tasks' = SetState(T, {t}, "ERROR")
      BY <1>2, <1>4, <2>1, SetStateEffect
    <2>2. CASE tasks' = SyncChildren(T, t, outs, Len(outs), "READY")
      <3>1. Gapped(outs, Len(outs)) /\ Len(outs) \in Nat /\ "READY" \in ANY /\ t \in DOMAIN T
        BY <1>1, <1>2, OutputsGapped, MasksTyped DEF Gapped
      <3> HIDE DEF outs
      <3>2. Grown(T, tasks', t, {"READY"})
        BY <1>2, <2>2, <3>1, SyncChildrenTree DEF Gapped
      <3>3. tasks'[t].spec = tasks[t].spec
        BY <1>2, <3>2 DEF Grown
      <3>4. ~(j # Root /\ Parent(j) = t)
        <4> SUFFICES ASSUME j # Root, Parent(j) = t PROVE FALSE
          OBVIOUS
        <4>1. J \in Follows(tasks[t].spec)
          BY <1>4, <3>3 DEF FollowsNet
        <4> QED
          BY <1>1, <4>1 DEF Region
      <3> QED
        BY <1>4, <3>2, <3>4 DEF Grown
    <2> QED
      BY <1>3, <2>1, <2>2
  <1> QED
    BY <1>2, <1>4, <1>5 DEF FiredIn, InState, In

LEMMA NextClosed ==
  ASSUME IInv, IInv', ReachInv, Arranged, Step \/ Run \/ UpdateWaitingTasks \/ Cancel,
         ByNet(tasks, tasks'), Stays(tasks, tasks'), FollowsNet(tasks'), NEW inner, Moves(inner),
         NEW after, NoLoopsIn(after), Behind(tasks, after),
         NEW J \in Specs, Kind(J) = "Join", NEW R, Region(J, R), Net[J].split # None,
         JoinCleared(tasks, calls, J), RegionClosed(tasks, J)
  PROVE  RegionClosed(tasks', J)
  <1>1. Tree(tasks, Specs) /\ Tree(tasks', Specs) /\ SameSpecs(tasks, tasks')
    BY IInvSplit, IInvSplitPrime DEF ByNet
  <1>2. FollowsNet(tasks) /\ threads \in Nat /\ Threaded(tasks, threads) /\ JoinsComplete
    BY DEF Arranged, Passes, ThreadInv, ShapeInv, IInv, TypeOK
  <1>3. CASE JoinFires
    BY <1>2, <1>3, JoinFiresClosed
  <1>4. CASE CompleteTask
    <2>1. DOMAIN tasks' = DOMAIN tasks
      BY <1>1, <1>4, SetStateEffect DEF CompleteTask
    <2>2. FiredIn(tasks') \subseteq FiredIn(tasks)
      BY <1>2, <1>4, CompleteTaskFired
    <2> QED
      BY <1>1, <2>1, <2>2, StillClosed
  <1>5. CASE Step /\ ~JoinFires /\ ~CompleteTask
    <2>1. FiredIn(tasks') \subseteq FiredIn(tasks)
      BY <1>5, StepGently, GentleFired DEF Gently
    <2>2. calls # <<>> /\ Top.op # "complete"
      <3>1. \/ Doing("predict") \/ Doing("hook") \/ Doing("cancel")
            \/ Doing("children") \/ Doing("visit") \/ Doing("finish")
        <4>1. Predict \/ CancelNext \/ ChildrenNext \/ VisitNext \/ Finish \/ Doing("hook")
          BY <1>5, ZenonT(30) DEF Step, UpdateSimple, UpdateFails, UpdateExecute, UpdateGate,
                UpdateAcquire, UpdateJoin, Hook
        <4> QED
          BY <4>1 DEF Predict, CancelNext, ChildrenNext, VisitNext, Finish
      <3> QED
        BY <3>1 DEF Doing, Top
    <2>3. Reach(tasks)
      BY <2>2, InProgress
    <2> QED
      BY <1>1, <2>1, <2>3, StillClosed
  <1>6. CASE Run
    <2>1. PICK t \in DOMAIN tasks : RunTask(t)
      BY <1>6 DEF Run
    <2>2. Reach(tasks)
      <3>1. calls = <<>>
        BY <2>1, RunFires
      <3> QED
        BY <3>1, AtRest DEF Quiescent
    <2>3. CASE RunsGently(t)
      BY <1>1, <2>2, <2>3, GentleFired, StillClosed DEF RunsGently
    <2>4. CASE RunThreadStart(t)
      BY <1>1, <2>2, <2>4, ThreadStartCloses, StillClosed
    <2> QED
      BY <2>1, <2>3, <2>4, RunGently
  <1>7. CASE UpdateWaitingTasks \/ Cancel
    <2>1. FiredIn(tasks') \subseteq FiredIn(tasks)
      BY <1>7, MethodsGently, GentleFired DEF Gently
    <2>2. Reach(tasks)
      BY <1>7, AtRest DEF UpdateWaitingTasks, Cancel
    <2> QED
      BY <1>1, <2>1, <2>2, StillClosed
  <1> QED
    BY <1>3, <1>4, <1>5, <1>6, <1>7

-----------------------------------------------------------------------------
(* The invariant of a region R of the join J, until a task is reset.       *)

RegionOK(J, R) ==
    /\ LiveBelow(tasks, J, R)
    /\ CancelsOutside(tasks, calls, Inner(J, R))
    /\ GoesDown(tasks, calls, J, R)
    /\ JoinCleared(tasks, calls, J)
    /\ RegionClosed(tasks, J)

LEMMA InitRegion ==
  ASSUME Init, NEW J \in Specs, NEW R
  PROVE  RegionOK(J, R)
  <1>1. DOMAIN tasks = {Root} /\ tasks[Root].state = "FUTURE"
    BY DEF Init
  <1>2. Children(tasks, Root) = {}
    BY <1>1 DEF Children
  <1>3. LiveBelow(tasks, J, R)
    BY <1>1, <1>2 DEF LiveBelow
  <1>4. calls = <<PredictFrame(Root, {Root}, 0, NOT_FINISHED), Frame("hook", Root, {})>>
    BY DEF Init
  <1>5. \A f \in Frames(calls) : f.op \in {"predict", "hook"}
    <2> DEFINE a == PredictFrame(Root, {Root}, 0, NOT_FINISHED)
               b == Frame("hook", Root, {})
    <2>1. a.op = "predict" /\ b.op = "hook"
      BY DEF PredictFrame, Frame
    <2>2. calls = <<a, b>>
      BY <1>4
    <2> HIDE DEF a, b
    <2> QED
      BY <2>1, <2>2 DEF Frames
  <1>6. NoneCancels(calls)
    BY <1>5 DEF NoneCancels
  <1>7. FiredIn(tasks) = {}
    BY <1>1 DEF FiredIn, InState, In
  <1> QED
    BY <1>3, <1>6, <1>7, NoneOutside, NoneCleared, InitDown DEF RegionOK, RegionClosed

LEMMA NextRegion ==
  ASSUME IInv, IInv', ReachInv, Arranged, Arranged', Bounded(tasks), ByNet(tasks, tasks'), ~PredictRaises,
         Step \/ Run \/ UpdateWaitingTasks \/ Cancel, Stays(tasks, tasks'),
         NEW after, NoLoopsIn(after), Behind(tasks, after),
         NEW J \in Specs, Kind(J) = "Join", NEW R, Region(J, R), Net[J].split # None,
         Net[J].threshold = 0 \/ Net[J].cancel, RegionOK(J, R)
  PROVE  RegionOK(J, R)'
  <1>1. Tree(tasks, Specs) /\ Tree(tasks', Specs) /\ SameSpecs(tasks, tasks')
    BY IInvSplit, IInvSplitPrime DEF ByNet
  <1>2. FollowsNet(tasks) /\ FollowsNet(tasks') /\ FiringInv
    BY DEF Arranged, ShapeInv, Passes
  <1>3. \A s \in Inner(J, R) : Kind(s) # "Join"
    BY RegionSpecs
  <1>4. Moves(Inner(J, R))
    <2>1. CASE Step
      BY <1>2, <1>3, <2>1, StepMoves DEF RegionOK
    <2>2. CASE Run
      BY <2>2, RunMoves DEF Run
    <2>3. CASE UpdateWaitingTasks \/ Cancel
      BY <2>3, MethodsMove
    <2> QED
      BY <2>1, <2>2, <2>3
  <1>5. LiveBelow(tasks', J, R)
    BY <1>1, <1>2, <1>4, LiveStays DEF RegionOK, Moves
  <1>6. CancelsOutside(tasks', calls', Inner(J, R))
    BY NextOutside DEF RegionOK
  <1>7. GoesDown(tasks', calls', J, R)
    BY <1>2, NextDown DEF RegionOK
  <1>8. JoinCleared(tasks', calls', J)
    BY <1>2, NextCleared DEF RegionOK
  <1>9. RegionClosed(tasks', J)
    BY <1>2, <1>4, NextClosed DEF RegionOK
  <1> QED
    BY <1>5, <1>6, <1>7, <1>8, <1>9 DEF RegionOK

\* The joins of the theorem.
Closing == {s \in Specs : /\ Kind(s) = "Join" /\ Net[s].split # None
                          /\ Net[s].threshold = 0 \/ Net[s].cancel}

RegionsOK(inside) == resets = 0 => \A J \in Closing : RegionOK(J, inside[J])

LEMMA NextRegions ==
  ASSUME IInv, ReachInv, Arranged, Bounded(tasks), ~PredictRaises, [OrderlyNext]_vars,
         NEW after, NoLoopsIn(after), Behind(tasks, after),
         NEW inside, RegionsIn(inside), RegionsOK(inside)
  PROVE  RegionsOK(inside)' /\ Bounded(tasks)' /\ Behind(tasks, after)'
  <1>1. IInv' /\ Arranged' /\ ByNet(tasks, tasks')
    BY OrderlyIInv, NextOrderly, NextByNet DEF StepByNet
  <1>2. Tree(tasks, Specs) /\ Tree(tasks', Specs)
    BY <1>1, IInvSplit, IInvSplitPrime
  <1>3. Bounded(tasks)' /\ Behind(tasks, after)'
    <2>1. Bounded(tasks')
      BY <1>1, <1>2, BoundedStays
    <2>2. Behind(tasks', after)
      BY <1>1, <1>2, BehindStays DEF NoLoopsIn
    <2>3. Bounded(tasks)' /\ Behind(tasks, after)'
      BY <2>1, <2>2 DEF Bounded, Behind
    <2> QED
      BY <2>3
  <1>4. ASSUME resets' = 0, NEW J \in Closing PROVE RegionOK(J, inside[J])'
    <2>1. resets = 0 /\ resets' = resets
      BY <1>4, ResetsCount, OrderlyIsNext, IInvSplit DEF OthersTyped
    <2>2. /\ J \in Specs /\ Kind(J) = "Join" /\ Net[J].split # None
          /\ Net[J].threshold = 0 \/ Net[J].cancel
      BY DEF Closing
    <2>3. Region(J, inside[J])
      BY <2>2 DEF RegionsIn
    <2>4. RegionOK(J, inside[J])
      BY <2>1 DEF RegionsOK
    <2>5. Stays(tasks, tasks')
      BY <2>1, NextReach
    <2>6. CASE UNCHANGED vars
      <3>1. UNCHANGED <<tasks, calls>>
        BY <2>6 DEF vars
      <3> QED
        BY <2>4, <3>1 DEF RegionOK
    <2>7. CASE Step \/ Run \/ UpdateWaitingTasks \/ Cancel
      BY <1>1, <2>2, <2>3, <2>4, <2>5, <2>7, NextRegion
    <2>8. CASE OrderlyReset
      BY <2>1, <2>8, IInvSplit, OrderlyResetGoesBack DEF GoBack, OthersTyped
    <2> QED
      BY <2>6, <2>7, <2>8 DEF OrderlyNext
  <1> QED
    BY <1>3, <1>4 DEF RegionsOK

\* When a structured join that waits for all its branches, or cancels the rest, has fired,
\* nothing is left to do between its split and the join, in a net in which these joins have
\* regions and no join comes after itself, until a task is reset, and unless a prediction raises.
THEOREM JoinsEndRegions ==
  ASSUME NEW CONSTANT after, NoLoopsIn(after), NEW CONSTANT inside, RegionsIn(inside)
  PROVE  OrderlySpec /\ []~PredictRaises => [](resets = 0 => JoinEndsRegion)
  <1>1. Init => Arranged /\ Bounded(tasks) /\ Behind(tasks, after) /\ RegionsOK(inside)
    <2> SUFFICES ASSUME Init PROVE Arranged /\ Bounded(tasks) /\ Behind(tasks, after) /\ RegionsOK(inside)
      OBVIOUS
    <2>1. Bounded(tasks)
      BY RootPath DEF Init, Bounded
    <2>2. RegionsOK(inside)
      BY InitRegion DEF RegionsOK, Closing
    <2> QED
      BY <2>1, <2>2, InitPass, InitThreads, InitShape, InitPending DEF Arranged
  <1>2. /\ IInv /\ ReachInv /\ [OrderlyNext]_vars /\ ~PredictRaises
        /\ Arranged /\ Bounded(tasks) /\ Behind(tasks, after) /\ RegionsOK(inside)
        => (Arranged /\ Bounded(tasks) /\ Behind(tasks, after) /\ RegionsOK(inside))'
    BY NextOrderly, NextRegions
  <1>3. RegionsOK(inside) /\ IInv => (resets = 0 => JoinEndsRegion)
    <2> SUFFICES ASSUME RegionsOK(inside), IInv, resets = 0, NEW j \in Fired, ~Unstructured(tasks, j),
                        (Net[tasks[j].spec].threshold = 0 \/ Net[tasks[j].spec].cancel),
                        NEW s \in SplitTask(tasks, j), NEW d \in Below(tasks, s),
                        In(tasks, d, NOT_FINISHED)
                 PROVE  d = j \/ Above(j, d)
      BY DEF JoinEndsRegion
    <2>1. j \in FiredIn(tasks) /\ j \in DOMAIN tasks /\ Kind(tasks[j].spec) = "Join"
      BY DEF Fired, FiredIn, InState
    <2>2. tasks[j].spec \in Closing
      <3>1. tasks[j].spec \in Specs
        BY <2>1, IInvSplit, StateTyped
      <3>2. Net[tasks[j].spec].split # None
        BY DEF Unstructured
      <3> QED
        BY <2>1, <3>1, <3>2 DEF Closing
    <2>3. RegionClosed(tasks, tasks[j].spec)
      BY <2>2 DEF RegionsOK, RegionOK
    <2> QED
      BY <2>1, <2>3 DEF RegionClosed, ClosedAt, In
  <1> QED
    BY <1>1, <1>2, <1>3, ReachAlways, PTL DEF OrderlySpec
=============================================================================
