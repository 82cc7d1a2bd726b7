---------------------------- MODULE ReachProofs ----------------------------
(***************************************************************************)
(* What a task has reached, its parent has passed: proofs, for every net   *)
(* and all bounds, that definite tasks never hang below predicted ones,    *)
(* that nothing is waited for, run or completed before its parent is       *)
(* finished, and that what is finished stays finished.                     *)
(*                                                                         *)
(* The states of the tree alone are not inductive: while a call is in      *)
(* progress, the frames below the top rely on what they have found out     *)
(* about their task before.  FrameOK says what each kind of frame relies   *)
(* on, Ordered which kinds of frames may be above it meanwhile.            *)
(***************************************************************************)
EXTENDS Restart, WorkflowProofs

EXPECTED == PREDICTED \union {"FUTURE"}

\* What an orderly reset does: the task is not the root, and its parent has completed.
GoBack(t) ==
    /\ MayReset
    /\ t # Root /\ In(tasks, Parent(t), {"COMPLETED"})
    /\ resets' = resets + 1
    /\ last' = Parent(t)
    /\ ResetBranch(t, <<Frame("hook", t, {})>>)
    /\ UNCHANGED <<locks, threads, success, completions, cancels, faults>>

LEMMA OrderlyResetGoesBack == OrderlyReset => \E t \in DOMAIN tasks : GoBack(t)
  BY DEF OrderlyReset, InOrder, ResetFromTaskId, GoBack

\* Every orderly step is a step of the engine.
LEMMA OrderlyIsNext == [OrderlyNext]_vars => [Next]_vars
  BY DEF OrderlyNext, OrderlyReset, Next, Reset

LEMMA OrderlyIInv == ASSUME IInv, [OrderlyNext]_vars PROVE IInv'
  BY NextIInv, OrderlyIsNext

\* All that comes before t has finished.
Attached(T, t) == \A a \in DOMAIN T : Above(a, t) => T[a].state \in FINISHED

\* The states of a tree in which nothing has been reached too early.
Reach(T) ==
    /\ \A t \in DOMAIN T : T[t].state # "STARTED"
    /\ \A t \in DOMAIN T : T[t].state \in REACHED => Attached(T, t)
    /\ \A t \in DOMAIN T \ {Root} :
          T[t].state = "FUTURE" =>
              /\ T[Parent(t)].state \notin PREDICTED
              /\ IsChoice(T[Parent(t)].spec) => T[Parent(t)].state \notin EXPECTED

\* The tree T as it will be when the task that is run has completed: until then
\* the children of a ThreadStart are READY before their parent has finished.
Sole(c)     == c # <<>> /\ Len(c) = 1 /\ Head(c).op = "complete"
Ended(T, c) == IF Sole(c) THEN SetState(T, {Head(c).task}, "COMPLETED") ELSE T

\* Unless it has been removed, p is in one of some states, and has been reached.
LiveIn(T, p, states) == p \in DOMAIN T => T[p].state \in states /\ Attached(T, p)

FrameOK(T, f) ==
    /\ Known(T, f.task)
    /\ f.op = "predict" => \A d \in DOMAIN T : T[d].state \in f.mask => T[d].state \in EXPECTED
    /\ f.op = "hook" => LiveIn(T, f.task, NOT_FINISHED)
    /\ f.op = "join" => LiveIn(T, f.task, NOT_FINISHED \union {"CANCELLED"})
    /\ f.op = "complete" => LiveIn(T, f.task, {"READY", "CANCELLED"})
    /\ f.op = "children" =>
          /\ LiveIn(T, f.task, FINISHED)
          /\ \A c \in f.todo : c # Root /\ Parent(c) = f.task

\* What may be above a frame in the stack: what completes a task is at the bottom.
Over(op) ==
    CASE op \in {"predict", "hook"} -> {"predict"}
      [] op \in {"cancel", "join"}  -> {"cancel"}
      [] op = "complete"            -> {"predict", "cancel"}
      [] OTHER                      -> Ops \ {"complete", "finish"}

Ordered(c)     == \A i, k \in DOMAIN c : i < k => c[i].op \in Over(c[k].op)
FramesOK(T, c) == \A i \in DOMAIN c : FrameOK(T, c[i])

\* The inductive invariant, with IInv.
ReachInv ==
    /\ Reach(Ended(tasks, calls))
    /\ Ordered(calls)
    /\ FramesOK(tasks, calls)

\* Whatever is finished stays finished.
Stays(T, U) ==
    \A t \in DOMAIN T \intersect DOMAIN U : T[t].state \in FINISHED => U[t].state \in FINISHED

FinishedForGood ==
    [][resets' # resets \/
       \A t \in DOMAIN tasks \intersect DOMAIN tasks' :
           tasks[t].state \in FINISHED => tasks'[t].state \in FINISHED]_vars
-----------------------------------------------------------------------------
(* What the changes of a tree do to its states *)

LEMMA StatesDiffer ==
  /\ PREDICTED = {"MAYBE", "LIKELY"} /\ EXPECTED = {"MAYBE", "LIKELY", "FUTURE"}
  /\ FINISHED = {"COMPLETED", "ERROR", "CANCELLED"}
  /\ NOT_FINISHED = EXPECTED \union {"WAITING", "READY", "STARTED"}
  /\ DEFINITE = {"FUTURE", "WAITING", "READY", "STARTED"}
  /\ ANY = NOT_FINISHED \union FINISHED
  BY DEF PREDICTED, EXPECTED, FINISHED, NOT_FINISHED, DEFINITE, ANY

LEMMA ParentLive ==
  ASSUME NEW T, Tree(T, Specs), NEW t \in DOMAIN T, t # Root
  PROVE  /\ Parent(t) \in DOMAIN T /\ Parent(t) # t
         /\ t \in Path /\ Parent(t) \in Path
  <1>1. t \in Path /\ Parent(t) \in DOMAIN T
    BY DEF Tree, IsTree, Closed
  <1> QED
    BY <1>1, ParentPath, PathLength

LEMMA StateTyped ==
  ASSUME NEW T, Tree(T, Specs), NEW t \in DOMAIN T
  PROVE  T[t].state \in ANY /\ T[t].spec \in Specs /\ t \in Path
  BY DEF Tree, IsTree, TaskType

\* All ancestors of a task are in the tree.
LEMMA AncestorsLive ==
  ASSUME NEW T, Tree(T, Specs), NEW d \in DOMAIN T, NEW a \in Path, Above(a, d)
  PROVE  a \in DOMAIN T
  <1> SUFFICES ASSUME a \notin DOMAIN T PROVE FALSE
    OBVIOUS
  <1> DEFINE S == {e \in DOMAIN T : Above(a, e)}
  <1>1. S \in SUBSET Path /\ d \in S
    BY StateTyped
  <1>2. PICK e \in S : \A u \in S : ~Above(u, e)
    <2> HIDE DEF S
    <2> QED
      BY <1>1, TopmostExists
  <1>3. e \in DOMAIN T /\ e \in Path /\ Above(a, e) /\ e # Root
    BY <1>1, <1>2, NothingAboveRoot
  <1>4. Parent(e) \in DOMAIN T /\ Parent(e) \in Path /\ Above(Parent(e), e)
    BY <1>3, ParentLive, AboveParent
  <1>5. Above(a, Parent(e))
    BY <1>3, <1>4, AncestorOrParent
  <1> QED
    BY <1>2, <1>4, <1>5

LEMMA AttachedRoot == ASSUME NEW T, Tree(T, Specs) PROVE Attached(T, Root)
  BY StateTyped, NothingAboveRoot DEF Attached

LEMMA AttachedParent ==
  ASSUME NEW T, Tree(T, Specs), NEW t \in DOMAIN T, t # Root
  PROVE  Attached(T, t) <=> T[Parent(t)].state \in FINISHED /\ Attached(T, Parent(t))
  <1>1. t \in Path /\ Parent(t) \in DOMAIN T /\ Parent(t) \in Path /\ Above(Parent(t), t)
    BY ParentLive, AboveParent
  <1>2. \A a \in DOMAIN T : Above(a, t) <=> a = Parent(t) \/ Above(a, Parent(t))
    <2> TAKE a \in DOMAIN T
    <2>1. a \in Path
      BY StateTyped
    <2>2. Above(a, t) => a = Parent(t) \/ Above(a, Parent(t))
      BY <1>1, <2>1, AncestorOrParent
    <2>3. a = Parent(t) \/ Above(a, Parent(t)) => Above(a, t)
      BY <1>1, <2>1, AboveParent
    <2> QED
      BY <2>2, <2>3
  <1> QED
    BY <1>1, <1>2 DEF Attached

LEMMA AttachedStays ==
  ASSUME NEW T, NEW U, Tree(T, Specs), Tree(U, Specs), Stays(T, U),
         NEW t \in DOMAIN T, Attached(T, t)
  PROVE  Attached(U, t)
  <1>1. \A a \in DOMAIN U : Above(a, t) => a \in DOMAIN T
    BY StateTyped, AncestorsLive
  <1> QED
    BY <1>1 DEF Attached, Stays

LEMMA ShrunkStays == ASSUME NEW T, NEW U, Shrunk(T, U) PROVE Stays(T, U)
  BY StatesDiffer DEF Shrunk, Stays

LEMMA SetStays ==
  ASSUME NEW T, Tree(T, Specs), NEW S, NEW state,
         state \in FINISHED \/ \A t \in S : t \in DOMAIN T => T[t].state \notin FINISHED
  PROVE  Stays(T, SetState(T, S, state))
  BY SetStateEffect DEF Stays

LEMMA ShrunkReach ==
  ASSUME NEW T, NEW U, Tree(T, Specs), Tree(U, Specs), Shrunk(T, U), Reach(T)
  PROVE  Reach(U)
  <1> SUFFICES ASSUME NEW t \in DOMAIN U
               PROVE  /\ U[t].state # "STARTED"
                      /\ U[t].state \in REACHED => Attached(U, t)
                      /\ t # Root /\ U[t].state = "FUTURE" =>
                            /\ U[Parent(t)].state \notin PREDICTED
                            /\ IsChoice(U[Parent(t)].spec) => U[Parent(t)].state \notin EXPECTED
    BY DEF Reach
  <1>1. t \in DOMAIN T /\ (U[t].state = T[t].state \/ U[t].state = "CANCELLED")
    BY DEF Shrunk
  <1>2. U[t].state \in REACHED => Attached(U, t)
    BY <1>1, ShrunkStays, AttachedStays DEF Reach, REACHED
  <1>3. CASE t = Root
    BY <1>1, <1>2, <1>3 DEF Reach
  <1>4. CASE t # Root
    <2>1. Parent(t) \in DOMAIN U
      BY <1>4, ParentLive
    <2>2. /\ U[Parent(t)].spec = T[Parent(t)].spec
          /\ U[Parent(t)].state = T[Parent(t)].state \/ U[Parent(t)].state = "CANCELLED"
      BY <2>1 DEF Shrunk
    <2> QED
      BY <1>1, <1>2, <1>4, <2>2, StatesDiffer DEF Reach
  <1> QED
    BY <1>3, <1>4

\* Tasks S of the tree whose parents have finished are set to a state.
LEMMA SetReach ==
  ASSUME NEW T, Tree(T, Specs), Reach(T), NEW S, NEW state \in REACHED,
         \A t \in S : t \in DOMAIN T =>
            /\ Attached(T, t)
            /\ state \in {"WAITING", "READY"} => T[t].state \notin FINISHED
  PROVE  Reach(SetState(T, S, state))
  <1> DEFINE U == SetState(T, S, state)
  <1>1. /\ DOMAIN U = DOMAIN T
        /\ \A d \in DOMAIN T : /\ U[d].spec = T[d].spec
                               /\ U[d].state = IF d \in S THEN state ELSE T[d].state
    BY SetStateEffect
  <1> HIDE DEF U
  <1> SUFFICES ASSUME NEW t \in DOMAIN T
               PROVE  /\ U[t].state # "STARTED"
                      /\ U[t].state \in REACHED => Attached(U, t)
                      /\ t # Root /\ U[t].state = "FUTURE" =>
                            /\ U[Parent(t)].state \notin PREDICTED
                            /\ IsChoice(U[Parent(t)].spec) => U[Parent(t)].state \notin EXPECTED
    BY <1>1 DEF Reach, U
  <1>2. U[t].state # "STARTED"
    BY <1>1 DEF Reach, REACHED
  <1>3. U[t].state \in REACHED => Attached(U, t)
    <2>1. Tree(U, Specs) /\ Stays(T, U)
      BY SetStateTree, SetStays, StatesDiffer DEF U, REACHED
    <2>2. U[t].state \in REACHED => Attached(T, t)
      BY <1>1 DEF Reach
    <2> QED
      BY <2>1, <2>2, AttachedStays
  <1>4. ASSUME t # Root, U[t].state = "FUTURE"
        PROVE  /\ U[Parent(t)].state \notin PREDICTED
               /\ IsChoice(U[Parent(t)].spec) => U[Parent(t)].state \notin EXPECTED
    <2>1. Parent(t) \in DOMAIN T
      BY <1>4, ParentLive
    <2> QED
      BY <1>1, <1>4, <2>1, StatesDiffer DEF Reach, REACHED
  <1> QED
    BY <1>2, <1>3, <1>4

\* When children are predicted below t: what is predicted below a definite task is
\* FUTURE, and otherwise nothing FUTURE had been there.
Foresees(T, t, states) ==
    /\ T[t].state \notin FINISHED
    /\ states \subseteq EXPECTED
    /\ "FUTURE" \in states =>
          /\ T[t].state \notin PREDICTED
          /\ IsChoice(T[t].spec) => T[t].state \notin EXPECTED
    /\ states \intersect PREDICTED # {} =>
          T[t].state \in PREDICTED \/ (IsChoice(T[t].spec) /\ T[t].state \in EXPECTED)

\* No state has changed but from one expected state to another.
SameOrExpected(T, U) ==
    /\ \A d \in DOMAIN T \intersect DOMAIN U :
          U[d].state = T[d].state \/ (T[d].state \in EXPECTED /\ U[d].state \in EXPECTED)
    /\ \A d \in DOMAIN U \ DOMAIN T : U[d].state \in EXPECTED

LEMMA GrownStays == ASSUME NEW T, NEW U, SameOrExpected(T, U) PROVE Stays(T, U)
  BY StatesDiffer DEF SameOrExpected, Stays

LEMMA GrownReach ==
  ASSUME NEW T, NEW U, Tree(T, Specs), Tree(U, Specs), Reach(T),
         NEW t, NEW states, Grown(T, U, t, states), Foresees(T, t, states)
  PROVE  Reach(U) /\ SameOrExpected(T, U)
  <1>1. ASSUME NEW d \in DOMAIN T \intersect DOMAIN U, U[d].state # T[d].state
        PROVE  /\ d # Root /\ Parent(d) = t /\ U[d].state \in states
               /\ T[d].state \in EXPECTED /\ U[d].state \in EXPECTED
               /\ U[d].state \in PREDICTED => T[d].state \in PREDICTED
    <2>1. d # Root /\ Parent(d) = t /\ T[d].state \in NOT_FINISHED /\ U[d].state \in states
      BY <1>1 DEF Grown
    <2>2. T[d].state \in EXPECTED
      <3>1. t \in DOMAIN T /\ (T[d].state \in REACHED => T[t].state \in FINISHED)
        BY <2>1, AttachedParent, ParentLive DEF Reach
      <3> QED
        BY <2>1, <3>1, StatesDiffer DEF Reach, Foresees, REACHED
    <2>3. U[d].state \in EXPECTED
      BY <2>1 DEF Foresees
    <2>4. U[d].state \in PREDICTED => T[d].state \in PREDICTED
      BY <2>1, <2>2, StatesDiffer DEF Reach, Foresees
    <2> QED
      BY <2>1, <2>2, <2>3, <2>4
  <1>2. SameOrExpected(T, U)
    BY <1>1 DEF SameOrExpected, Grown, Foresees
  <1>3. ASSUME NEW d \in DOMAIN U PROVE U[d].state # "STARTED"
    BY <1>2, StatesDiffer DEF SameOrExpected, Reach
  <1>4. ASSUME NEW d \in DOMAIN U, U[d].state \in REACHED PROVE Attached(U, d)
    <2>1. d \in DOMAIN T /\ U[d].state = T[d].state
      BY <1>2, <1>4, StatesDiffer DEF SameOrExpected, REACHED
    <2> QED
      BY <1>2, <1>4, <2>1, GrownStays, AttachedStays DEF Reach
  <1>5. ASSUME NEW d \in DOMAIN U \ {Root}, U[d].state = "FUTURE"
        PROVE  /\ U[Parent(d)].state \notin PREDICTED
               /\ IsChoice(U[Parent(d)].spec) => U[Parent(d)].state \notin EXPECTED
    <2>1. CASE d \in DOMAIN T /\ T[d].state = "FUTURE"
      <3>1. Parent(d) \in DOMAIN T /\ Parent(d) \in DOMAIN U
        BY <2>1, ParentLive
      <3>2. /\ T[Parent(d)].state \notin PREDICTED
            /\ IsChoice(T[Parent(d)].spec) => T[Parent(d)].state \notin EXPECTED
        BY <2>1 DEF Reach
      <3>3. U[Parent(d)].spec = T[Parent(d)].spec
        BY <3>1 DEF Grown
      <3>4. U[Parent(d)].state # T[Parent(d)].state =>
               /\ T[Parent(d)].state \in EXPECTED
               /\ U[Parent(d)].state \in PREDICTED => T[Parent(d)].state \in PREDICTED
        BY <1>1, <3>1
      <3> QED
        BY <3>2, <3>3, <3>4, Zenon
    <2>2. CASE ~(d \in DOMAIN T /\ T[d].state = "FUTURE")
      <3>1. Parent(d) = t /\ "FUTURE" \in states
        BY <1>1, <1>5, <2>2 DEF Grown
      <3>2. U[t].state = T[t].state /\ U[t].spec = T[t].spec
        BY DEF Grown
      <3> QED
        BY <3>1, <3>2 DEF Foresees, IsChoice
    <2> QED
      BY <2>1, <2>2
  <1> QED
    BY <1>2, <1>3, <1>4, <1>5 DEF Reach
-----------------------------------------------------------------------------
(* What they do to the frames in the stack *)

LEMMA OverOps ==
  ASSUME NEW op \in Ops
  PROVE  /\ "predict" \in Over(op) => op \notin {"cancel", "join"}
         /\ "cancel" \in Over(op) => op \notin {"predict", "hook"}
         /\ \A x \in Ops \ {"predict", "cancel"} :
               x \in Over(op) => op \in {"children", "visit", "finish"}
         /\ op \in {"children", "visit", "finish"} => Over(op) = Ops \ {"complete", "finish"}
         /\ "complete" \notin Over(op) /\ "finish" \notin Over(op)
  BY DEF Over, Ops

LEMMA ShrunkFrame ==
  ASSUME NEW T, NEW U, Tree(T, Specs), Tree(U, Specs), Shrunk(T, U),
         NEW f \in FrameType, FrameOK(T, f), f.op \notin {"predict", "hook"}
  PROVE  FrameOK(U, f)
  <1>1. Known(U, f.task)
    BY ShrunkKnown DEF FrameOK
  <1>2. ASSUME NEW p, NEW states, "CANCELLED" \in states, LiveIn(T, p, states)
        PROVE  LiveIn(U, p, states)
    <2> SUFFICES ASSUME p \in DOMAIN U
                 PROVE  U[p].state \in states /\ Attached(U, p)
      BY DEF LiveIn
    <2>1. p \in DOMAIN T /\ U[p].state \in states
      BY <1>2 DEF Shrunk, LiveIn
    <2> QED
      BY <1>2, <2>1, ShrunkStays, AttachedStays DEF LiveIn
  <1>3. f.op = "join" => LiveIn(U, f.task, NOT_FINISHED \union {"CANCELLED"})
    BY <1>2 DEF FrameOK
  <1>4. f.op = "complete" => LiveIn(U, f.task, {"READY", "CANCELLED"})
    BY <1>2 DEF FrameOK
  <1>5. f.op = "children" => LiveIn(U, f.task, FINISHED)
    BY <1>2, StatesDiffer DEF FrameOK
  <1> QED
    BY <1>1, <1>3, <1>4, <1>5 DEF FrameOK

LEMMA GrownFrame ==
  ASSUME NEW T, NEW U, Tree(T, Specs), Tree(U, Specs), NEW t, NEW states,
         Grown(T, U, t, states), SameOrExpected(T, U), NEW f \in FrameType, FrameOK(T, f)
  PROVE  FrameOK(U, f)
  <1>1. f.task \in Path
    BY DEF FrameType
  <1>2. Known(U, f.task) /\ (f.task \in DOMAIN U => f.task \in DOMAIN T)
    BY <1>1, GrownKnown DEF FrameOK
  <1>3. ASSUME NEW S \in {NOT_FINISHED, {"READY", "CANCELLED"},
                         NOT_FINISHED \union {"CANCELLED"}, FINISHED},
               LiveIn(T, f.task, S)
        PROVE  LiveIn(U, f.task, S)
    <2> SUFFICES ASSUME f.task \in DOMAIN U
                 PROVE  U[f.task].state \in S /\ Attached(U, f.task)
      BY DEF LiveIn
    <2>1. f.task \in DOMAIN T /\ T[f.task].state \in S
      BY <1>2, <1>3 DEF LiveIn
    <2>2. U[f.task].state \in S
      BY <1>3, <2>1, StatesDiffer DEF SameOrExpected
    <2> QED
      BY <1>3, <2>1, <2>2, GrownStays, AttachedStays DEF LiveIn
  <1>4. f.op = "predict" => \A d \in DOMAIN U : U[d].state \in f.mask => U[d].state \in EXPECTED
    BY DEF FrameOK, SameOrExpected
  <1>5. f.op = "children" => LiveIn(U, f.task, FINISHED)
    BY <1>3 DEF FrameOK
  <1>6. /\ f.op = "hook" => LiveIn(U, f.task, NOT_FINISHED)
        /\ f.op = "join" => LiveIn(U, f.task, NOT_FINISHED \union {"CANCELLED"})
        /\ f.op = "complete" => LiveIn(U, f.task, {"READY", "CANCELLED"})
    BY <1>3 DEF FrameOK
  <1> QED
    BY <1>2, <1>4, <1>5, <1>6 DEF FrameOK

LEMMA SetFrame ==
  ASSUME NEW T, Tree(T, Specs), NEW S, NEW state,
         state \in FINISHED \/ \A t \in S : t \in DOMAIN T => T[t].state \notin FINISHED,
         state \in ANY,
         NEW f \in FrameType, FrameOK(T, f), f.op \notin {"predict", "hook", "join", "complete"}
  PROVE  FrameOK(SetState(T, S, state), f)
  <1> DEFINE U == SetState(T, S, state)
  <1>1. /\ DOMAIN U = DOMAIN T
        /\ \A d \in DOMAIN T : /\ U[d].born = T[d].born
                               /\ U[d].state = IF d \in S THEN state ELSE T[d].state
    BY SetStateEffect
  <1> HIDE DEF U
  <1>2. Known(U, f.task)
    BY <1>1 DEF FrameOK, Known
  <1>3. ASSUME LiveIn(T, f.task, FINISHED) PROVE LiveIn(U, f.task, FINISHED)
    <2>1. Tree(U, Specs) /\ Stays(T, U)
      BY SetStateTree, SetStays DEF U
    <2> SUFFICES ASSUME f.task \in DOMAIN U
                 PROVE  U[f.task].state \in FINISHED /\ Attached(U, f.task)
      BY DEF LiveIn
    <2>2. f.task \in DOMAIN T /\ T[f.task].state \in FINISHED /\ Attached(T, f.task)
      BY <1>1, <1>3 DEF LiveIn
    <2> QED
      BY <1>1, <2>1, <2>2, AttachedStays DEF Stays
  <1> QED
    BY <1>2, <1>3 DEF FrameOK, U

\* A frame for a live task.
LEMMA NewFrame ==
  ASSUME NEW T, Tree(T, Specs), NEW t \in DOMAIN T, NEW op \in Ops, NEW S,
         op \notin {"predict", "hook", "join", "complete", "children"}
  PROVE  FrameOK(T, Frame(op, t, S))
  BY LiveIsKnown DEF FrameOK, Frame

LEMMA NewLiveFrame ==
  ASSUME NEW T, Tree(T, Specs), NEW t \in DOMAIN T, Attached(T, t), NEW S
  PROVE  /\ T[t].state \in NOT_FINISHED => FrameOK(T, Frame("hook", t, S))
         /\ T[t].state \in NOT_FINISHED => FrameOK(T, Frame("join", t, S))
         /\ T[t].state \in {"READY", "CANCELLED"} => FrameOK(T, Frame("complete", t, S))
  BY LiveIsKnown DEF FrameOK, Frame, LiveIn

LEMMA NewPredictFrame ==
  ASSUME NEW T, Tree(T, Specs), NEW t \in DOMAIN T, NEW S, NEW k, NEW mask, mask \subseteq EXPECTED
  PROVE  FrameOK(T, PredictFrame(t, S, k, mask))
  BY LiveIsKnown DEF FrameOK, PredictFrame

LEMMA ConcatFrames ==
  ASSUME NEW a \in Seq(FrameType), NEW b \in Seq(FrameType)
  PROVE  /\ a \o b \in Seq(FrameType) /\ Len(a) \in Nat
         /\ \A i \in DOMAIN (a \o b) :
               \/ i \in DOMAIN a /\ (a \o b)[i] = a[i]
               \/ i - Len(a) \in DOMAIN b /\ (a \o b)[i] = b[i - Len(a)] /\ i > Len(a)
         /\ DOMAIN a = 1..Len(a) /\ DOMAIN (a \o b) \subseteq Nat
  <1> DEFINE d == a \o b
  <1>1. /\ d \in Seq(FrameType) /\ Len(d) = Len(a) + Len(b)
        /\ \A i \in 1..Len(a) : d[i] = a[i]
        /\ \A i \in (Len(a) + 1)..Len(d) : d[i] = b[i - Len(a)]
    BY ConcatProperties
  <1>2. /\ Len(a) \in Nat /\ Len(b) \in Nat
        /\ DOMAIN a = 1..Len(a) /\ DOMAIN b = 1..Len(b) /\ DOMAIN d = 1..Len(d)
    BY <1>1, LenProperties
  <1> HIDE DEF d
  <1>3. ASSUME NEW i \in DOMAIN d
        PROVE  \/ i \in DOMAIN a /\ d[i] = a[i]
               \/ /\ i - Len(a) \in DOMAIN b /\ d[i] = b[i - Len(a)] /\ i > Len(a)
    BY <1>1, <1>2
  <1>4. DOMAIN d \subseteq Nat
    BY <1>2
  <1> QED
    BY <1>1, <1>2, <1>3, <1>4 DEF d

LEMMA FramesConcat ==
  ASSUME NEW a \in Seq(FrameType), NEW b \in Seq(FrameType), NEW T,
         Ordered(a), Ordered(b), FramesOK(T, a), FramesOK(T, b),
         \A i \in DOMAIN a : \A k \in DOMAIN b : a[i].op \in Over(b[k].op)
  PROVE  /\ a \o b \in Seq(FrameType)
         /\ Ordered(a \o b) /\ FramesOK(T, a \o b)
  <1> DEFINE d == a \o b
  <1>1. /\ d \in Seq(FrameType) /\ Len(a) \in Nat /\ DOMAIN a = 1..Len(a)
        /\ DOMAIN d \subseteq Nat
    BY ConcatFrames
  <1>2. \A i \in DOMAIN d :
           \/ i \in DOMAIN a /\ d[i] = a[i]
           \/ i - Len(a) \in DOMAIN b /\ d[i] = b[i - Len(a)] /\ i > Len(a)
    BY ConcatFrames
  <1> HIDE DEF d
  <1>3. Ordered(d)
    <2> SUFFICES ASSUME NEW i \in DOMAIN d, NEW k \in DOMAIN d, i < k
                 PROVE  d[i].op \in Over(d[k].op)
      BY DEF Ordered
    <2>1. CASE k \in DOMAIN a
      <3>1. k - Len(a) \notin DOMAIN b \/ ~(k > Len(a))
        BY <1>1, <2>1
      <3>2. i \in DOMAIN a /\ ~(i > Len(a))
        BY <1>1, <2>1
      <3> QED
        BY <1>2, <2>1, <3>1, <3>2 DEF Ordered
    <2>2. CASE k - Len(a) \in DOMAIN b /\ d[k] = b[k - Len(a)] /\ i \in DOMAIN a /\ d[i] = a[i]
      BY <2>2
    <2>3. CASE /\ k - Len(a) \in DOMAIN b /\ d[k] = b[k - Len(a)]
               /\ i - Len(a) \in DOMAIN b /\ d[i] = b[i - Len(a)]
      <3>1. i - Len(a) < k - Len(a)
        BY <1>1
      <3> QED
        BY <2>3, <3>1 DEF Ordered
    <2> QED
      BY <1>2, <2>1, <2>2, <2>3
  <1>4. FramesOK(T, d)
    BY <1>2 DEF FramesOK
  <1> QED
    BY <1>1, <1>3, <1>4 DEF d

LEMMA OneFrame ==
  ASSUME NEW f \in FrameType, NEW T, FrameOK(T, f)
  PROVE  /\ <<f>> \in Seq(FrameType) /\ Ordered(<<f>>) /\ FramesOK(T, <<f>>)
         /\ \A i \in DOMAIN <<f>> : <<f>>[i] = f
  BY DEF Ordered, FramesOK

LEMMA NoFrame ==
  /\ <<>> \in Seq(FrameType) /\ Ordered(<<>>) /\ DOMAIN <<>> = {}
  /\ \A T : FramesOK(T, <<>>)
  BY DEF Ordered, FramesOK

\* The stack when the top frame is replaced by some others.
LEMMA StackStep ==
  ASSUME NEW c \in Seq(FrameType), c # <<>>, NEW T, NEW U,
         Ordered(c), FramesOK(T, c),
         NEW frames \in Seq(FrameType), Ordered(frames), FramesOK(U, frames),
         Head(c).op \in {"predict", "cancel"} =>
            \A i \in DOMAIN frames : frames[i].op = Head(c).op,
         Head(c).op # "complete" =>
            \A i \in DOMAIN frames : frames[i].op \notin {"complete", "finish"},
         \A f \in FrameType : FrameOK(T, f) /\ Head(c).op \in Over(f.op) => FrameOK(U, f)
  PROVE  /\ frames \o Tail(c) \in Seq(FrameType)
         /\ Ordered(frames \o Tail(c)) /\ FramesOK(U, frames \o Tail(c))
  <1> DEFINE rest == Tail(c)
  <1>1. /\ rest \in Seq(FrameType) /\ Len(rest) = Len(c) - 1 /\ Head(c) = c[1]
        /\ \A i \in 1..Len(rest) : rest[i] = c[i + 1]
        /\ Len(c) \in Nat \ {0} /\ Len(rest) \in Nat
        /\ Head(c) \in FrameType
    BY HeadTailProperties, LenProperties
  <1>2. DOMAIN c = 1..Len(c) /\ DOMAIN rest = 1..Len(rest)
    BY <1>1, LenProperties
  <1> HIDE DEF rest
  <1>3. ASSUME NEW k \in DOMAIN rest
        PROVE  /\ rest[k] \in FrameType /\ Head(c).op \in Over(rest[k].op)
               /\ FrameOK(U, rest[k])
    <2>1. k + 1 \in DOMAIN c /\ 1 \in DOMAIN c /\ rest[k] = c[k + 1] /\ 1 < k + 1
      BY <1>1, <1>2
    <2>2. rest[k] \in FrameType /\ Head(c).op \in Over(rest[k].op) /\ FrameOK(T, rest[k])
      BY <1>1, <1>2, <2>1 DEF Ordered, FramesOK
    <2> QED
      BY <2>2
  <1>4. FramesOK(U, rest)
    BY <1>3 DEF FramesOK
  <1>5. Ordered(rest)
    <2> SUFFICES ASSUME NEW i \in DOMAIN rest, NEW k \in DOMAIN rest, i < k
                 PROVE  rest[i].op \in Over(rest[k].op)
      BY DEF Ordered
    <2>1. k + 1 \in DOMAIN c /\ i + 1 \in DOMAIN c /\ rest[k] = c[k + 1] /\ rest[i] = c[i + 1]
          /\ i + 1 < k + 1
      BY <1>1, <1>2
    <2> QED
      BY <2>1 DEF Ordered
  <1>6. ASSUME NEW i \in DOMAIN frames, NEW k \in DOMAIN rest
        PROVE  frames[i].op \in Over(rest[k].op)
    <2>1. rest[k].op \in Ops /\ frames[i].op \in Ops /\ Head(c).op \in Ops
          /\ Head(c).op \in Over(rest[k].op)
      <3>1. frames[i] \in FrameType
        OBVIOUS
      <3> QED
        BY <1>1, <1>3, <3>1 DEF FrameType
    <2>2. CASE Head(c).op \in {"predict", "cancel"}
      BY <2>1, <2>2
    <2>3. CASE Head(c).op \notin {"predict", "cancel"}
      BY <2>1, <2>3, OverOps
    <2> QED
      BY <2>2, <2>3
  <1> QED
    BY <1>1, <1>4, <1>5, <1>6, FramesConcat DEF rest

\* When the task that is run completes, nothing has been reached too early.
LEMMA EndedReach ==
  ASSUME NEW T, Tree(T, Specs), Reach(T), NEW c \in Seq(FrameType), FramesOK(T, c)
  PROVE  Reach(Ended(T, c))
  <1>1. CASE ~Sole(c)
    BY <1>1 DEF Ended
  <1>2. CASE Sole(c)
    <2>1. 1 \in DOMAIN c /\ Head(c) = c[1] /\ Head(c).op = "complete"
      BY <1>2 DEF Sole
    <2>2. LiveIn(T, Head(c).task, {"READY", "CANCELLED"})
      BY <2>1 DEF FramesOK, FrameOK
    <2>3. Reach(SetState(T, {Head(c).task}, "COMPLETED"))
      BY <2>2, SetReach DEF LiveIn, REACHED
    <2> QED
      BY <1>2, <2>3 DEF Ended
  <1> QED
    BY <1>1, <1>2
-----------------------------------------------------------------------------
(* The steps of a call *)

\* The invariant while a call is in progress.
LEMMA InProgress ==
  ASSUME IInv, ReachInv, calls # <<>>
  PROVE  /\ Tree(tasks, Specs) /\ calls \in Seq(FrameType)
         /\ Ordered(calls) /\ FramesOK(tasks, calls)
         /\ Top \in FrameType /\ FrameOK(tasks, Top)
         /\ Top.op # "complete" => Reach(tasks)
         /\ Tail(calls) \in Seq(FrameType)
  <1>1. Top = calls[1] /\ 1 \in DOMAIN calls /\ Top \in FrameType /\ Tail(calls) \in Seq(FrameType)
    BY IInvSplit, StackTyped, HeadTailProperties DEF Top
  <1> QED
    BY <1>1, IInvSplit DEF ReachInv, FramesOK, Ended, Sole, Top

LEMMA AtRest == ASSUME IInv, ReachInv, Quiescent PROVE Tree(tasks, Specs) /\ Reach(tasks)
  BY IInvSplit DEF ReachInv, Ended, Sole, Quiescent

LEMMA TopStep ==
  ASSUME IInv, ReachInv, IInv', calls # <<>>,
         NEW frames \in Seq(FrameType), calls' = frames \o Tail(calls),
         Ordered(frames), FramesOK(tasks', frames),
         Top.op \in {"predict", "cancel"} => \A i \in DOMAIN frames : frames[i].op = Top.op,
         Top.op # "complete" =>
            \A i \in DOMAIN frames : frames[i].op \notin {"complete", "finish"},
         \A f \in FrameType :
            FrameOK(tasks, f) /\ Top.op \in Over(f.op) => FrameOK(tasks', f),
         Reach(tasks')
  PROVE  ReachInv'
  <1>1. Ordered(calls') /\ FramesOK(tasks', calls')
    BY InProgress, StackStep DEF Top
  <1>2. Reach(Ended(tasks', calls'))
    BY <1>1, IInvSplitPrime, EndedReach
  <1> QED
    BY <1>1, <1>2 DEF ReachInv

LEMMA ReturnStep ==
  ASSUME IInv, ReachInv, IInv', calls # <<>>, Return,
         \A f \in FrameType :
            FrameOK(tasks, f) /\ Top.op \in Over(f.op) => FrameOK(tasks', f),
         Reach(tasks')
  PROVE  ReachInv'
  <1>1. calls' = <<>> \o Tail(calls)
    BY InProgress DEF Return
  <1> QED
    BY <1>1, TopStep, NoFrame

\* The same for a loop that makes a call for one member of its list.
LEMMA CallStep ==
  ASSUME IInv, ReachInv, IInv', calls # <<>>, Top.op \notin {"complete", "finish"},
         NEW frames \in Seq(FrameType), NEW S \in SUBSET Path, CallWith(frames, S),
         Ordered(frames), FramesOK(tasks', frames),
         FrameOK(tasks', [Top EXCEPT !.todo = S]),
         \A i \in DOMAIN frames : frames[i].op \in Over(Top.op),
         Top.op \in {"predict", "cancel"} => \A i \in DOMAIN frames : frames[i].op = Top.op,
         \A f \in FrameType :
            FrameOK(tasks, f) /\ Top.op \in Over(f.op) => FrameOK(tasks', f),
         Reach(tasks')
  PROVE  ReachInv'
  <1> DEFINE frame == [Top EXCEPT !.todo = S]
             again == IF S = {} THEN <<>> ELSE <<frame>>
  <1>1. frame \in FrameType /\ frame.op = Top.op
    BY InProgress DEF FrameType
  <1> HIDE DEF frame
  <1>2. /\ again \in Seq(FrameType) /\ Ordered(again) /\ FramesOK(tasks', again)
        /\ \A i \in DOMAIN again : again[i].op = Top.op
    BY <1>1, OneFrame, NoFrame DEF frame
  <1>3. calls' = (frames \o again) \o Tail(calls)
    BY DEF CallWith, frame
  <1> HIDE DEF again
  <1>4. /\ frames \o again \in Seq(FrameType)
        /\ Ordered(frames \o again) /\ FramesOK(tasks', frames \o again)
    BY <1>2, FramesConcat
  <1>5. Top.op \in {"predict", "cancel"} =>
           \A i \in DOMAIN (frames \o again) : (frames \o again)[i].op = Top.op
    BY <1>2, ConcatProperties
  <1>6. \A i \in DOMAIN frames : frames[i].op \notin {"complete", "finish"}
    <2>1. Top.op \in Ops
      BY InProgress DEF FrameType
    <2> QED
      BY <2>1, OverOps
  <1>7. \A i \in DOMAIN (frames \o again) : (frames \o again)[i].op \notin {"complete", "finish"}
    BY <1>2, <1>6, ConcatProperties
  <1> DEFINE pushed == frames \o again
  <1>8. pushed \in Seq(FrameType) /\ calls' = pushed \o Tail(calls)
    BY <1>3, <1>4
  <1>9. Ordered(pushed) /\ FramesOK(tasks', pushed)
    BY <1>4
  <1>10. \A i \in DOMAIN pushed : pushed[i].op \notin {"complete", "finish"}
    BY <1>7
  <1>11. Top.op \in {"predict", "cancel"} => \A i \in DOMAIN pushed : pushed[i].op = Top.op
    BY <1>5
  <1> HIDE DEF pushed
  <1> QED
    BY <1>8, <1>9, <1>10, <1>11, TopStep

LEMMA RaiseStep ==
  ASSUME IInv, ReachInv, IInv', calls # <<>>, Top.op # "complete", Raise
  PROVE  ReachInv' /\ Stays(tasks, tasks')
  <1> DEFINE S == {calls[i].task : i \in {k \in DOMAIN calls : calls[k].op = "complete"}}
  <1>1. Tree(tasks, Specs) /\ Reach(tasks) /\ FramesOK(tasks, calls)
    BY InProgress
  <1>2. \A t \in S : t \in DOMAIN tasks => Attached(tasks, t)
    BY <1>1 DEF FramesOK, FrameOK, LiveIn
  <1>3. tasks' = SetState(tasks, S, "ERROR") /\ calls' = <<>>
    BY DEF Raise
  <1> HIDE DEF S
  <1>4. Reach(tasks')
    BY <1>1, <1>2, <1>3, SetReach DEF REACHED
  <1>5. Stays(tasks, tasks')
    BY <1>1, <1>3, SetStays, StatesDiffer
  <1> QED
    BY <1>3, <1>4, <1>5, NoFrame DEF ReachInv, Ended, Sole

LEMMA GrownTwice ==
  ASSUME NEW T, NEW V, NEW U, Tree(T, Specs), Tree(V, Specs), Tree(U, Specs),
         NEW t, NEW A, NEW B, Grown(T, V, t, A), Grown(V, U, t, B)
  PROVE  Grown(T, U, t, A \union B)
  <1>1. t \in DOMAIN T /\ t \in DOMAIN V /\ t \in DOMAIN U /\ U[t].state = T[t].state
    BY DEF Grown
  <1>2. /\ T[t].born \in Nat /\ V[t].born \in Nat /\ V[t].born >= T[t].born
        /\ V[t].thread = T[t].thread
    BY <1>1 DEF Tree, IsTree, TaskType, Grown
  <1>3. ASSUME NEW d \in DOMAIN U \ DOMAIN V
        PROVE  /\ d \notin DOMAIN T
               /\ d # Root /\ Parent(d) = t /\ Slot(d) > T[t].born
               /\ U[d].state \in B /\ U[d].thread = T[t].thread
    <2>1. d # Root /\ Parent(d) = t /\ Slot(d) > V[t].born /\ U[d].state \in B
          /\ U[d].thread = T[t].thread
      BY <1>2 DEF Grown
    <2>2. d \in Path
      BY DEF Tree, IsTree
    <2>3. Slot(d) \in Nat
      BY <2>1, <2>2, ParentPath
    <2>4. Slot(d) > T[t].born
      BY <1>2, <2>1, <2>3
    <2>5. d \notin DOMAIN T
      BY <1>2, <2>1, <2>3, <2>4 DEF Tree, Closed
    <2> QED
      BY <2>1, <2>4, <2>5
  <1>4. ASSUME NEW d \in DOMAIN T \intersect DOMAIN U
        PROVE  /\ U[d].spec = T[d].spec /\ U[d].thread = T[d].thread
               /\ U[d].born >= T[d].born
               /\ \/ U[d].state = T[d].state
                  \/ /\ d # Root /\ Parent(d) = t
                     /\ T[d].state \in NOT_FINISHED /\ U[d].state \in A \union B
    <2>1. d \in DOMAIN V
      BY <1>3
    <2>2. T[d].born \in Nat /\ V[d].born \in Nat /\ U[d].born \in Nat
      BY <2>1 DEF Tree, IsTree, TaskType
    <2>3. /\ V[d].spec = T[d].spec /\ V[d].thread = T[d].thread /\ V[d].born >= T[d].born
          /\ U[d].spec = V[d].spec /\ U[d].thread = V[d].thread /\ U[d].born >= V[d].born
      BY <2>1 DEF Grown
    <2>4. \/ V[d].state = T[d].state
          \/ /\ d # Root /\ Parent(d) = t
             /\ T[d].state \in NOT_FINISHED /\ V[d].state \in A
      BY <2>1 DEF Grown
    <2>5. \/ U[d].state = V[d].state
          \/ /\ d # Root /\ Parent(d) = t
             /\ V[d].state \in NOT_FINISHED /\ U[d].state \in B
      BY <2>1 DEF Grown
    <2>6. U[d].born >= T[d].born
      BY <2>2, <2>3
    <2> QED
      BY <2>3, <2>4, <2>5, <2>6
  <1>5. ASSUME NEW d \in DOMAIN U \ DOMAIN T
        PROVE  /\ d # Root /\ Parent(d) = t /\ Slot(d) > T[t].born
               /\ U[d].state \in A \union B /\ U[d].thread = T[t].thread
    <2>1. CASE d \notin DOMAIN V
      BY <1>3, <2>1
    <2>2. CASE d \in DOMAIN V
      <3>1. d # Root /\ Parent(d) = t /\ Slot(d) > T[t].born /\ V[d].state \in A
            /\ V[d].thread = T[t].thread
        BY <2>2 DEF Grown
      <3>2. U[d].thread = V[d].thread /\ (U[d].state = V[d].state \/ U[d].state \in B)
        BY <2>2 DEF Grown
      <3> QED
        BY <3>1, <3>2
    <2> QED
      BY <2>1, <2>2
  <1> QED
    BY <1>1, <1>4, <1>5 DEF Grown

\* _predict_hook on an expected task.
LEMMA PredictHookGrown ==
  ASSUME NEW T, Tree(T, Specs), NEW t \in DOMAIN T, NEW n \in Nat, T[t].state \in EXPECTED
  PROVE  \E states : Grown(T, PredictHook(T, t, n), t, states) /\ Foresees(T, t, states)
  <1> DEFINE s      == T[t].spec
             state  == PredictedState(T, t)
             synced == SyncChildren(T, t, PredictedOutputs(s, n), OutputCount(s, n), state)
             U      == AddChildren(synced, t, Conditional(s), Len(Outputs(s)), "MAYBE")
  <1>1. s \in Specs /\ state \in ANY
    BY PredictedStateTyped, StateTyped
  <1>2. Gapped(PredictedOutputs(s, n), OutputCount(s, n)) /\ Gapped(Conditional(s), Len(Outputs(s)))
    BY <1>1, PredictedOutputsGapped, PickGapped DEF Conditional
  <1>3. /\ IsChoice(s) => state \in PREDICTED
        /\ ~IsChoice(s) /\ T[t].state = "FUTURE" => state = "FUTURE"
        /\ ~IsChoice(s) /\ T[t].state \in PREDICTED => state \in PREDICTED
    BY StatesDiffer DEF PredictedState, In
  <1> HIDE DEF state
  <1>4. Tree(synced, Specs) /\ t \in DOMAIN synced /\ Grown(T, synced, t, {state})
    BY <1>1, <1>2, SyncChildrenTree DEF Gapped
  <1> HIDE DEF synced
  <1>5. CASE ~IsChoice(s)
    <2>1. PredictHook(T, t, n) = synced
      BY <1>5 DEF PredictHook, synced, state
    <2>2. Foresees(T, t, {state})
      BY <1>3, <1>5, StatesDiffer DEF Foresees
    <2> QED
      BY <1>4, <2>1, <2>2
  <1>6. CASE IsChoice(s)
    <2>1. PredictHook(T, t, n) = U
      BY <1>6 DEF PredictHook, synced, state
    <2> HIDE DEF s
    <2>2. Tree(U, Specs) /\ Grown(synced, U, t, {"MAYBE"})
      BY <1>2, <1>4, AddChildrenTree, StatesDiffer DEF Gapped
    <2> HIDE DEF U
    <2>3. Grown(T, U, t, {state} \union {"MAYBE"})
      BY <1>4, <2>2, GrownTwice
    <2>4. Foresees(T, t, {state} \union {"MAYBE"})
      BY <1>3, <1>6, StatesDiffer DEF Foresees, s
    <2> QED
      BY <2>1, <2>3, <2>4
  <1> QED
    BY <1>5, <1>6

\* A tree that has grown by a prediction, and what this means for the stack.
LEMMA HookedTree ==
  ASSUME NEW T, Tree(T, Specs), Reach(T), NEW t \in DOMAIN T, NEW n \in Nat,
         T[t].state \in EXPECTED
  PROVE  /\ Tree(PredictHook(T, t, n), Specs) /\ Reach(PredictHook(T, t, n))
         /\ t \in DOMAIN PredictHook(T, t, n)
         /\ PredictHook(T, t, n)[t].state = T[t].state
         /\ SameOrExpected(T, PredictHook(T, t, n))
         /\ \A f \in FrameType : FrameOK(T, f) => FrameOK(PredictHook(T, t, n), f)
  <1> DEFINE U == PredictHook(T, t, n)
  <1>1. Tree(U, Specs)
    BY PredictHookTree
  <1>2. PICK states : Grown(T, U, t, states) /\ Foresees(T, t, states)
    BY PredictHookGrown
  <1> HIDE DEF U
  <1>3. Reach(U) /\ SameOrExpected(T, U)
    BY <1>1, <1>2, GrownReach
  <1>4. \A f \in FrameType : FrameOK(T, f) => FrameOK(U, f)
    BY <1>1, <1>2, <1>3, GrownFrame
  <1>5. t \in DOMAIN U /\ U[t].state = T[t].state
    BY <1>2 DEF Grown
  <1> QED
    BY <1>1, <1>3, <1>4, <1>5 DEF U

LEMMA PredictReach == ASSUME IInv, IInv', ReachInv, Predict PROVE ReachInv' /\ Stays(tasks, tasks')
  <1>1. calls # <<>> /\ Top.op = "predict"
    BY DEF Predict, Doing, Top
  <1>2. /\ Tree(tasks, Specs) /\ Reach(tasks) /\ Top \in FrameType /\ FrameOK(tasks, Top)
        /\ Top.task \in Path /\ Top.todo \in SUBSET Path
        /\ Top.looked \in Nat /\ Top.mask \in SUBSET ANY
    BY <1>1, InProgress, StackTyped
  <1>3. CASE Top.todo = {}
    <2>1. Return /\ UNCHANGED tasks
      BY <1>3 DEF Predict
    <2> QED
      BY <1>1, <1>2, <2>1, ReturnStep DEF Stays
  <1>4. CASE Top.todo # {}
    <2> DEFINE n(t)    == PredictedTimes(tasks[t].spec)
               T(t)    == IF In(tasks, t, Top.mask) THEN PredictHook(tasks, t, n(t)) ELSE tasks
               next(t) == PredictNext(T(t), t, Top.looked, Top.mask)
    <2>1. PICK t \in Top.todo :
            /\ t \in DOMAIN tasks
            /\ \/ Raise
               \/ /\ tasks' = T(t)
                  /\ CallWith(IF next(t) = {} THEN <<>>
                              ELSE <<PredictFrame(t, next(t), Top.looked + 1, Top.mask)>>,
                              Top.todo \ {t})
      BY <1>4 DEF Predict
    <2>2. CASE Raise
      BY <1>1, <2>2, RaiseStep
    <2>3. CASE /\ tasks' = T(t)
               /\ CallWith(IF next(t) = {} THEN <<>>
                           ELSE <<PredictFrame(t, next(t), Top.looked + 1, Top.mask)>>,
                           Top.todo \ {t})
      <3>1. n(t) \in Nat /\ t \in Path
        BY <1>2, <2>1, StateTyped, PredictedTimesTyped
      <3>2. In(tasks, t, Top.mask) => tasks[t].state \in EXPECTED
        BY <1>1, <1>2, <2>1 DEF FrameOK, In
      <3>3. /\ Tree(T(t), Specs) /\ Reach(T(t)) /\ t \in DOMAIN T(t)
            /\ SameOrExpected(tasks, T(t))
            /\ \A f \in FrameType : FrameOK(tasks, f) => FrameOK(T(t), f)
        <4>1. CASE In(tasks, t, Top.mask)
          BY <1>2, <2>1, <3>1, <3>2, <4>1, HookedTree
        <4>2. CASE ~In(tasks, t, Top.mask)
          BY <1>2, <2>1, <4>2 DEF SameOrExpected
        <4> QED
          BY <4>1, <4>2
      <3>4. next(t) \in SUBSET Path
        BY <3>3, PredictNextTyped
      <3> HIDE DEF n, T, next
      <3> DEFINE f == PredictFrame(t, next(t), Top.looked + 1, Top.mask)
                 frames == IF next(t) = {} THEN <<>> ELSE <<f>>
      <3>5. f \in FrameType /\ f.op = "predict" /\ f.task = t /\ f.mask = Top.mask
        BY <1>2, <3>1, <3>4, PredictFrameTyped DEF PredictFrame
      <3>6. FrameOK(tasks', f)
        <4>1. FrameOK(tasks', Top)
          BY <1>2, <2>3, <3>3
        <4>2. Known(tasks', t)
          BY <2>3, <3>3, LiveIsKnown
        <4> HIDE DEF f
        <4> QED
          BY <1>1, <3>5, <4>1, <4>2 DEF FrameOK
      <3> HIDE DEF f
      <3>7. /\ frames \in Seq(FrameType) /\ Ordered(frames) /\ FramesOK(tasks', frames)
            /\ \A i \in DOMAIN frames : frames[i].op = "predict"
        BY <3>5, <3>6, OneFrame, NoFrame
      <3>8. FrameOK(tasks', [Top EXCEPT !.todo = Top.todo \ {t}])
        <4>1. FrameOK(tasks', Top)
          BY <1>2, <2>3, <3>3
        <4>2. LET g == [Top EXCEPT !.todo = Top.todo \ {t}]
              IN  g.op = "predict" /\ g.task = Top.task /\ g.mask = Top.mask
          BY <1>1, <1>2 DEF FrameType
        <4> QED
          BY <1>1, <4>1, <4>2 DEF FrameOK
      <3>9. CallWith(frames, Top.todo \ {t})
        BY <2>3 DEF f
      <3> HIDE DEF frames
      <3>10. "predict" \in Over(Top.op) /\ Top.todo \ {t} \in SUBSET Path
        BY <1>1, <1>2 DEF Over
      <3>11. \A g \in FrameType : FrameOK(tasks, g) => FrameOK(tasks', g)
        BY <2>3, <3>3
      <3>12. ReachInv'
        BY <1>1, <2>3, <3>3, <3>7, <3>8, <3>9, <3>10, <3>11, CallStep
      <3> QED
        BY <2>3, <3>3, <3>12, GrownStays
    <2> QED
      BY <2>1, <2>2, <2>3
  <1> QED
    BY <1>3, <1>4

\* The frames below a hook, and below what may not be above them.
LEMMA BelowOthers ==
  ASSUME NEW op \in Ops \ {"predict", "cancel"}, NEW f \in FrameType, op \in Over(f.op)
  PROVE  f.op \notin {"predict", "hook", "join", "complete"}
  BY OverOps DEF FrameType

\* An update hook that sets the state of its task.
LEMMA HookSets ==
  ASSUME IInv, IInv', ReachInv, NEW kinds, Hook(kinds), Return,
         NEW state \in {"READY", "WAITING"}, tasks' = SetState(tasks, {Top.task}, state)
  PROVE  ReachInv' /\ Stays(tasks, tasks')
  <1>1. calls # <<>> /\ Top.op = "hook" /\ Top.task \in DOMAIN tasks
    BY DEF Hook, Doing, Top
  <1>2. Tree(tasks, Specs) /\ Reach(tasks) /\ FrameOK(tasks, Top)
    BY <1>1, InProgress
  <1>3. tasks[Top.task].state \notin FINISHED /\ Attached(tasks, Top.task)
    BY <1>1, <1>2, StatesDiffer DEF FrameOK, LiveIn
  <1>4. Reach(tasks')
    BY <1>2, <1>3, SetReach DEF REACHED
  <1>5. Stays(tasks, tasks')
    BY <1>2, <1>3, SetStays
  <1>6. \A f \in FrameType : FrameOK(tasks, f) /\ Top.op \in Over(f.op) => FrameOK(tasks', f)
    BY <1>1, <1>2, <1>3, BelowOthers, SetFrame, StatesDiffer DEF Ops
  <1> QED
    BY <1>1, <1>4, <1>5, <1>6, ReturnStep

LEMMA HookReadies ==
  ASSUME IInv, IInv', ReachInv, NEW kinds, Hook(kinds), SetReady(Top.task)
  PROVE  ReachInv' /\ Stays(tasks, tasks')
  <1>1. calls # <<>> /\ Top.op = "hook" /\ Top.task \in DOMAIN tasks
    BY DEF Hook, Doing, Top
  <1>2. tasks[Top.task].state \notin FINISHED
    BY <1>1, InProgress, StatesDiffer DEF FrameOK, LiveIn
  <1>3. tasks' = SetState(tasks, {Top.task}, "READY") /\ Return
    BY <1>1, <1>2, StatesDiffer DEF SetReady, Ready, In
  <1> QED
    BY <1>3, HookSets

LEMMA HookWaits ==
  ASSUME IInv, IInv', ReachInv, NEW kinds, Hook(kinds), SetWaiting(Top.task)
  PROVE  ReachInv' /\ Stays(tasks, tasks')
  BY HookSets DEF SetWaiting

LEMMA UpdateReach ==
  ASSUME IInv, IInv', ReachInv,
         UpdateSimple \/ UpdateFails \/ UpdateExecute \/ UpdateGate \/ UpdateAcquire
  PROVE  ReachInv' /\ Stays(tasks, tasks')
  <1>1. CASE UpdateSimple
    BY <1>1, HookReadies DEF UpdateSimple
  <1>2. CASE UpdateFails
    <2>1. calls # <<>> /\ Top.op # "complete" /\ Raise
      BY <1>2 DEF UpdateFails, Hook, Doing, Top
    <2> QED
      BY <2>1, RaiseStep
  <1>3. CASE UpdateExecute
    BY <1>3, HookReadies, HookWaits DEF UpdateExecute
  <1>4. CASE UpdateGate
    BY <1>4, HookReadies, HookWaits DEF UpdateGate
  <1>5. CASE UpdateAcquire
    BY <1>5, HookReadies, HookWaits DEF UpdateAcquire
  <1> QED
    BY <1>1, <1>2, <1>3, <1>4, <1>5

\* The frames in which a join cancels the tasks that it does not wait for.
LEMMA WaitingFrames ==
  ASSUME Tree(tasks, Specs), NEW j \in DOMAIN tasks
  PROVE  LET waiting == WaitingTasks(tasks, j)
             frames  == [i \in DOMAIN waiting |-> Frame("cancel", j, waiting[i])]
         IN  /\ frames \in Seq(FrameType)
             /\ \A i \in DOMAIN frames : frames[i].op = "cancel" /\ FrameOK(tasks, frames[i])
  <1> DEFINE waiting == WaitingTasks(tasks, j)
             s       == tasks[j].spec
             frames  == [i \in DOMAIN waiting |-> Frame("cancel", j, waiting[i])]
  <1>1. j \in Path /\ s \in Specs
    BY StateTyped
  <1>2. \E k \in Nat : DOMAIN waiting = 1..k
    <2>1. Inputs(s) \in Seq(Specs)
      BY <1>1, NetTyped
    <2>2. Len(Inputs(s)) \in Nat /\ DOMAIN Inputs(s) = 1..Len(Inputs(s))
      BY <2>1, LenProperties
    <2>3. DOMAIN waiting = 1..Len(Inputs(s)) \/ DOMAIN waiting = 1..1
      BY <2>2 DEF WaitingTasks
    <2> QED
      BY <2>2, <2>3
  <1>3. \A i \in DOMAIN waiting : waiting[i] \in SUBSET Path
    BY ChildrenTyped DEF WaitingTasks, Instances, OfSpec, ActivatedTasks, Tree, IsTree
  <1> HIDE DEF waiting, s
  <1>4. ASSUME NEW i \in DOMAIN waiting
        PROVE  /\ Frame("cancel", j, waiting[i]) \in FrameType
               /\ FrameOK(tasks, Frame("cancel", j, waiting[i]))
    BY <1>1, <1>3, FrameTyped, NewFrame DEF Ops
  <1>5. frames \in Seq(FrameType)
    <2>1. PICK k \in Nat : DOMAIN waiting = 1..k
      BY <1>2
    <2> QED
      BY <1>4, <2>1, IsASeq
  <1>6. \A i \in DOMAIN frames : frames[i].op = "cancel" /\ FrameOK(tasks, frames[i])
    BY <1>4 DEF Frame
  <1> QED
    BY <1>5, <1>6 DEF waiting

LEMMA UpdateJoinReach ==
  ASSUME IInv, IInv', ReachInv, UpdateJoin
  PROVE  ReachInv' /\ Stays(tasks, tasks')
  <1> DEFINE j       == Top.task
             s       == tasks[j].spec
             waiting == WaitingTasks(tasks, j)
             first   == IF Net[s].cancel
                        THEN [i \in DOMAIN waiting |-> Frame("cancel", j, waiting[i])]
                        ELSE <<>>
             fire    == <<Frame("join", j, {})>>
  <1>1. calls # <<>> /\ Top.op = "hook" /\ j \in DOMAIN tasks /\ Hook({"Join"})
    BY DEF UpdateJoin, Hook, Doing, Top
  <1>2. /\ Tree(tasks, Specs) /\ Reach(tasks) /\ FrameOK(tasks, Top)
        /\ calls \in Seq(FrameType) /\ j \in Path /\ s \in Specs
    BY <1>1, InProgress, StateTyped
  <1>3. tasks[j].state \in NOT_FINISHED /\ Attached(tasks, j)
    BY <1>1, <1>2 DEF FrameOK, LiveIn
  <1>4. \/ Return /\ UNCHANGED tasks
        \/ Raise
        \/ ReturnTo(fire) /\ UNCHANGED tasks
        \/ SetWaiting(j)
        \/ ReturnTo(first \o fire) /\ UNCHANGED tasks
    BY DEF UpdateJoin
  <1>5. fire \in Seq(FrameType) /\ Ordered(fire) /\ FramesOK(tasks, fire) /\ fire[1].op = "join"
        /\ DOMAIN fire = {1}
    <2>1. Frame("join", j, {}) \in FrameType
      BY <1>2, FrameTyped DEF Ops
    <2>2. FrameOK(tasks, Frame("join", j, {}))
      BY <1>1, <1>2, <1>3, NewLiveFrame
    <2> QED
      BY <2>1, <2>2, OneFrame DEF Frame
  <1>6. /\ first \in Seq(FrameType) /\ Ordered(first) /\ FramesOK(tasks, first)
        /\ \A i \in DOMAIN first : first[i].op = "cancel"
    <2>1. /\ first \in Seq(FrameType)
          /\ \A i \in DOMAIN first : first[i].op = "cancel" /\ FrameOK(tasks, first[i])
      BY <1>1, <1>2, WaitingFrames, NoFrame
    <2> HIDE DEF first
    <2>2. Ordered(first) /\ FramesOK(tasks, first)
      BY <2>1 DEF Ordered, FramesOK, Over
    <2> QED
      BY <2>1, <2>2
  <1> HIDE DEF first, fire, s, waiting
  <1>7. /\ first \o fire \in Seq(FrameType)
        /\ Ordered(first \o fire) /\ FramesOK(tasks, first \o fire)
    BY <1>5, <1>6, FramesConcat DEF Over
  <1>8. CASE Return /\ UNCHANGED tasks
    BY <1>1, <1>2, <1>8, ReturnStep DEF Stays
  <1>9. CASE Raise
    BY <1>1, <1>9, RaiseStep
  <1>10. CASE SetWaiting(j)
    BY <1>1, <1>10, HookWaits
  <1>11. ASSUME UNCHANGED tasks, NEW frames \in {fire, first \o fire}, ReturnTo(frames)
         PROVE  ReachInv' /\ Stays(tasks, tasks')
    <2>1. \A i \in DOMAIN frames : frames[i].op \notin {"complete", "finish"}
      <3>1. \A i \in DOMAIN fire : fire[i].op = "join"
        BY <1>5
      <3>2. \A i \in DOMAIN (first \o fire) : (first \o fire)[i].op \in {"cancel", "join"}
        BY <1>5, <1>6, <3>1, ConcatProperties
      <3> QED
        BY <1>11, <3>1, <3>2
    <2>2. frames \in Seq(FrameType) /\ Ordered(frames) /\ FramesOK(tasks', frames)
      BY <1>5, <1>7, <1>11
    <2>3. ReachInv'
      BY <1>1, <1>2, <1>11, <2>1, <2>2, TopStep DEF ReturnTo
    <2> QED
      BY <1>11, <2>3 DEF Stays
  <1> QED
    BY <1>4, <1>8, <1>9, <1>10, <1>11

LEMMA CancelNextReach ==
  ASSUME IInv, IInv', ReachInv, CancelNext
  PROVE  ReachInv' /\ Stays(tasks, tasks')
  <1>1. calls # <<>> /\ Top.op = "cancel"
    BY DEF CancelNext, Doing, Top
  <1>2. /\ Tree(tasks, Specs) /\ Reach(tasks) /\ Top \in FrameType /\ FrameOK(tasks, Top)
        /\ Tree(tasks', Specs) /\ Top.todo \in SUBSET Path
    BY <1>1, InProgress, StackTyped, IInvSplitPrime
  <1>3. CASE Top.todo = {}
    <2>1. Return /\ UNCHANGED tasks
      BY <1>3 DEF CancelNext
    <2> QED
      BY <1>1, <1>2, <2>1, ReturnStep DEF Stays
  <1>4. CASE Top.todo # {}
    <2>1. PICK t \in Top.todo :
            /\ CallWith(<<>>, Top.todo \ {t})
            /\ tasks' = IF t \in DOMAIN tasks THEN CancelBranch(tasks, t) ELSE tasks
      BY <1>4 DEF CancelNext
    <2>2. Shrunk(tasks, tasks')
      BY <1>2, <2>1, CancelBranchShrunk DEF Shrunk
    <2>3. Reach(tasks') /\ Stays(tasks, tasks')
      BY <1>2, <2>2, ShrunkReach, ShrunkStays
    <2>4. \A f \in FrameType : FrameOK(tasks, f) /\ Top.op \in Over(f.op) => FrameOK(tasks', f)
      BY <1>1, <1>2, <2>2, ShrunkFrame, OverOps DEF FrameType
    <2>5. FrameOK(tasks', [Top EXCEPT !.todo = Top.todo \ {t}])
      <3>1. FrameOK(tasks', Top)
        BY <1>1, <1>2, <2>4 DEF Over
      <3>2. LET g == [Top EXCEPT !.todo = Top.todo \ {t}]
            IN  g.op = "cancel" /\ g.task = Top.task
        BY <1>1, <1>2 DEF FrameType
      <3> QED
        BY <3>1, <3>2 DEF FrameOK
    <2>6. Top.todo \ {t} \in SUBSET Path
      BY <1>2
    <2>7. ReachInv'
      BY <1>1, <2>1, <2>3, <2>4, <2>5, <2>6, NoFrame, CallStep
    <2> QED
      BY <2>3, <2>7
  <1> QED
    BY <1>3, <1>4

LEMMA JoinFiresReach ==
  ASSUME IInv, IInv', ReachInv, JoinFires
  PROVE  ReachInv' /\ Stays(tasks, tasks')
  <1> DEFINE j     == Top.task
             found == OtherInstances(tasks, j)
             V     == DropChildren(tasks, found)
             W     == SetState(V, found \intersect DOMAIN V, "CANCELLED")
  <1>1. calls # <<>> /\ Top.op = "join" /\ j \in DOMAIN tasks /\ Return
    BY DEF JoinFires, Doing, Top
  <1>2. /\ Tree(tasks, Specs) /\ Reach(tasks) /\ Top \in FrameType /\ FrameOK(tasks, Top)
        /\ Tree(tasks', Specs)
    BY <1>1, InProgress, IInvSplitPrime
  <1>3. found \in SUBSET Path
    BY <1>2 DEF OtherInstances, Instances, OfSpec, Tree, IsTree
  <1>4. tasks' = Ready(W, j)
    BY DEF JoinFires, DoJoin
  <1> HIDE DEF found
  <1>5. Tree(V, Specs) /\ Shrunk(tasks, V)
    BY <1>2, <1>3, DropChildrenTree, DropChildrenShrunk
  <1> HIDE DEF V
  <1>6. Tree(W, Specs) /\ Shrunk(tasks, W)
    BY <1>5, SetStateTree, SetStateEffect, StatesDiffer DEF Shrunk
  <1> HIDE DEF W
  <1>7. Reach(W) /\ Stays(tasks, W) /\ FrameOK(W, Top)
    BY <1>1, <1>2, <1>6, ShrunkReach, ShrunkStays, ShrunkFrame
  <1>8. \A f \in FrameType : FrameOK(tasks, f) /\ Top.op \in Over(f.op) => FrameOK(W, f)
    BY <1>1, <1>2, <1>6, BelowOthers, ShrunkFrame DEF Ops
  <1>9. CASE tasks' = W
    BY <1>1, <1>7, <1>8, <1>9, ReturnStep
  <1>10. CASE tasks' # W
    <2>1. /\ j \in DOMAIN W /\ W[j].state \notin {"COMPLETED", "CANCELLED"}
          /\ tasks' = SetState(W, {j}, "READY")
      BY <1>4, <1>10 DEF Ready, In
    <2>2. W[j].state \notin FINISHED /\ Attached(W, j)
      BY <1>1, <1>7, <2>1, StatesDiffer DEF FrameOK, LiveIn
    <2>3. Reach(tasks') /\ Stays(W, tasks') /\ DOMAIN tasks' = DOMAIN W
      BY <1>6, <1>7, <2>1, <2>2, SetReach, SetStays, SetStateEffect DEF REACHED
    <2>4. Stays(tasks, tasks')
      BY <1>6, <1>7, <2>3 DEF Stays, Shrunk
    <2>5. \A f \in FrameType : FrameOK(tasks, f) /\ Top.op \in Over(f.op) => FrameOK(tasks', f)
      BY <1>1, <1>6, <1>8, <2>1, <2>2, StatesDiffer, BelowOthers, SetFrame DEF Ops
    <2> QED
      BY <1>1, <2>3, <2>4, <2>5, ReturnStep
  <1> QED
    BY <1>9, <1>10

LEMMA CompleteTaskReach ==
  ASSUME IInv, IInv', ReachInv, CompleteTask
  PROVE  ReachInv' /\ Stays(tasks, tasks')
  <1> DEFINE t == Top.task
             f == Frame("children", t, Children(tasks, t))
             g == Frame("visit", t, {Root})
             h == Frame("finish", t, {})
  <1>1. /\ calls # <<>> /\ Top.op = "complete"
        /\ tasks' = SetState(tasks, {t}, "COMPLETED") /\ ReturnTo(<<f, g, h>>)
    BY DEF CompleteTask, Doing, Top
  <1>2. /\ Tree(tasks, Specs) /\ Top \in FrameType /\ FrameOK(tasks, Top)
        /\ Tree(tasks', Specs) /\ t \in Path
    BY <1>1, InProgress, IInvSplitPrime, StackTyped
  <1>3. LiveIn(tasks, t, {"READY", "CANCELLED"})
    BY <1>1, <1>2 DEF FrameOK
  <1>4. Reach(tasks')
    <2>1. CASE Sole(calls)
      BY <1>1, <2>1 DEF ReachInv, Ended, Top
    <2>2. CASE ~Sole(calls)
      <3>1. Reach(tasks)
        BY <2>2 DEF ReachInv, Ended
      <3> QED
        BY <1>1, <1>2, <1>3, <3>1, SetReach DEF LiveIn, REACHED
    <2> QED
      BY <2>1, <2>2
  <1>5. Stays(tasks, tasks')
    BY <1>1, <1>2, SetStays, StatesDiffer
  <1>6. \A x \in FrameType : FrameOK(tasks, x) /\ Top.op \in Over(x.op) => FrameOK(tasks', x)
    BY <1>1, <1>2, StatesDiffer, BelowOthers, SetFrame DEF Ops
  <1>7. Known(tasks', t) /\ LiveIn(tasks', t, FINISHED)
    <2>1. Known(tasks', t) /\ (t \in DOMAIN tasks' => t \in DOMAIN tasks)
      BY <1>1, <1>2, SetStateEffect DEF FrameOK, Known
    <2>2. t \in DOMAIN tasks' => tasks'[t].state \in FINISHED
      BY <1>1, <1>2, SetStateEffect, StatesDiffer
    <2>3. t \in DOMAIN tasks' => Attached(tasks', t)
      BY <1>2, <1>3, <1>5, <2>1, AttachedStays DEF LiveIn
    <2> QED
      BY <2>1, <2>2, <2>3 DEF LiveIn
  <1>8. f \in FrameType /\ g \in FrameType /\ h \in FrameType
    BY <1>2, ChildrenTyped, RootPath, FrameTyped DEF Ops
  <1>9. FrameOK(tasks', f) /\ FrameOK(tasks', g) /\ FrameOK(tasks', h)
    BY <1>7 DEF FrameOK, Frame, Children
  <1>10. f.op = "children" /\ g.op = "visit" /\ h.op = "finish"
    BY DEF Frame
  <1> HIDE DEF f, g, h
  <1>11. <<f, g, h>> \in Seq(FrameType) /\ Ordered(<<f, g, h>>) /\ FramesOK(tasks', <<f, g, h>>)
    <2>1. <<f, g, h>> \in Seq(FrameType) /\ DOMAIN <<f, g, h>> = 1..3
      BY <1>8
    <2>2. ASSUME NEW i \in 1..3 PROVE <<f, g, h>>[i] \in {f, g, h}
      OBVIOUS
    <2>3. FramesOK(tasks', <<f, g, h>>)
      BY <1>9, <2>1, <2>2 DEF FramesOK
    <2>4. Ordered(<<f, g, h>>)
      BY <1>10, <2>1, <2>2 DEF Ordered, Over, Ops
    <2> QED
      BY <2>1, <2>3, <2>4
  <1> QED
    BY <1>1, <1>4, <1>5, <1>6, <1>11, TopStep DEF ReturnTo

\* The frames in which a live task that has been reached is updated.
LEMMA UpdateFramesOK ==
  ASSUME Tree(tasks, Specs), NEW t \in DOMAIN tasks,
         tasks[t].state \in NOT_FINISHED, Attached(tasks, t)
  PROVE  /\ UpdateFrames(t) \in Seq(FrameType) /\ Ordered(UpdateFrames(t))
         /\ FramesOK(tasks, UpdateFrames(t))
         /\ \A i \in DOMAIN UpdateFrames(t) : UpdateFrames(t)[i].op \in {"predict", "hook"}
  <1> DEFINE f == PredictFrame(t, {t}, 0, PREDICTED)
             g == Frame("hook", t, {})
             a == IF In(tasks, t, PREDICTED) THEN <<f>> ELSE <<>>
  <1>1. t \in Path
    BY StateTyped
  <1>2. f \in FrameType /\ FrameOK(tasks, f) /\ f.op = "predict"
    BY <1>1, PredictFrameTyped, NewPredictFrame, MasksTyped, StatesDiffer DEF PredictFrame
  <1>3. g \in FrameType /\ FrameOK(tasks, g) /\ g.op = "hook"
    BY <1>1, FrameTyped, NewLiveFrame DEF Frame, Ops
  <1>4. UpdateFrames(t) = a \o <<g>>
    BY DEF UpdateFrames
  <1> HIDE DEF f, g
  <1>5. /\ a \in Seq(FrameType) /\ Ordered(a) /\ FramesOK(tasks, a)
        /\ \A i \in DOMAIN a : a[i].op = "predict"
    BY <1>2, OneFrame, NoFrame
  <1>6. /\ <<g>> \in Seq(FrameType) /\ Ordered(<<g>>) /\ FramesOK(tasks, <<g>>)
        /\ \A i \in DOMAIN <<g>> : <<g>>[i].op = "hook"
    BY <1>3, OneFrame
  <1> HIDE DEF a
  <1>7. /\ a \o <<g>> \in Seq(FrameType)
        /\ Ordered(a \o <<g>>) /\ FramesOK(tasks, a \o <<g>>)
    BY <1>5, <1>6, FramesConcat DEF Over
  <1>8. \A i \in DOMAIN (a \o <<g>>) : (a \o <<g>>)[i].op \in {"predict", "hook"}
    BY <1>5, <1>6, ConcatProperties
  <1> QED
    BY <1>4, <1>7, <1>8

LEMMA ChildrenNextReach ==
  ASSUME IInv, IInv', ReachInv, ChildrenNext
  PROVE  ReachInv' /\ Stays(tasks, tasks')
  <1>1. calls # <<>> /\ Top.op = "children" /\ UNCHANGED tasks
    BY DEF ChildrenNext, Doing, Top
  <1>2. /\ Tree(tasks, Specs) /\ Reach(tasks) /\ Top \in FrameType /\ FrameOK(tasks, Top)
        /\ Top.todo \in SUBSET Path
    BY <1>1, InProgress, StackTyped
  <1>3. CASE Top.todo = {}
    <2>1. Return
      BY <1>3 DEF ChildrenNext
    <2> QED
      BY <1>1, <1>2, <2>1, ReturnStep DEF Stays
  <1>4. CASE Top.todo # {}
    <2>1. PICK c \in Top.todo :
            /\ c \in DOMAIN tasks
            /\ CallWith(IF In(tasks, c, FINISHED) THEN <<>> ELSE UpdateFrames(c), Top.todo \ {c})
      BY <1>4 DEF ChildrenNext
    <2> DEFINE frames == IF In(tasks, c, FINISHED) THEN <<>> ELSE UpdateFrames(c)
    <2>2. Attached(tasks, c)
      <3>1. c # Root /\ Parent(c) = Top.task
        BY <1>1, <1>2, <2>1 DEF FrameOK
      <3>2. Top.task \in DOMAIN tasks
        BY <1>2, <2>1, <3>1, ParentLive
      <3> QED
        BY <1>1, <1>2, <2>1, <3>1, <3>2, AttachedParent DEF FrameOK, LiveIn
    <2>3. ~In(tasks, c, FINISHED) => tasks[c].state \in NOT_FINISHED
      BY <1>2, <2>1, StateTyped, StatesDiffer DEF In
    <2>4. frames \in Seq(FrameType) /\ Ordered(frames) /\ FramesOK(tasks, frames)
      BY <1>2, <2>1, <2>2, <2>3, UpdateFramesOK, NoFrame
    <2>5. \A i \in DOMAIN frames : frames[i].op \in {"predict", "hook"}
      BY <1>2, <2>1, <2>2, <2>3, UpdateFramesOK, NoFrame
    <2> HIDE DEF frames
    <2>6. FrameOK(tasks, [Top EXCEPT !.todo = Top.todo \ {c}])
      <3>1. LET g == [Top EXCEPT !.todo = Top.todo \ {c}]
            IN  g.op = "children" /\ g.task = Top.task /\ g.todo \subseteq Top.todo
        BY <1>1, <1>2 DEF FrameType
      <3> QED
        BY <1>1, <1>2, <3>1 DEF FrameOK
    <2>7. CallWith(frames, Top.todo \ {c}) /\ Top.todo \ {c} \in SUBSET Path
      BY <1>2, <2>1 DEF frames
    <2>8. \A i \in DOMAIN frames : frames[i].op \in Over(Top.op)
      BY <1>1, <2>5 DEF Over, Ops
    <2>9. ReachInv'
      BY <1>1, <1>2, <2>4, <2>6, <2>7, <2>8, CallStep
    <2> QED
      BY <1>1, <2>9 DEF Stays
  <1> QED
    BY <1>3, <1>4

LEMMA VisitNextReach ==
  ASSUME IInv, IInv', ReachInv, VisitNext
  PROVE  ReachInv' /\ Stays(tasks, tasks')
  <1>1. calls # <<>> /\ Top.op = "visit" /\ UNCHANGED tasks
    BY DEF VisitNext, Doing, Top
  <1>2. /\ Tree(tasks, Specs) /\ Reach(tasks) /\ Top \in FrameType /\ FrameOK(tasks, Top)
        /\ Top.todo \in SUBSET Path
    BY <1>1, InProgress, StackTyped
  <1>3. CASE Top.todo = {}
    <2>1. Return
      BY <1>3 DEF VisitNext
    <2> QED
      BY <1>1, <1>2, <2>1, ReturnStep DEF Stays
  <1>4. CASE Top.todo # {}
    <2>1. \E frames \in Seq(FrameType), S \in SUBSET Path :
             /\ CallWith(frames, S) /\ Ordered(frames) /\ FramesOK(tasks, frames)
             /\ \A i \in DOMAIN frames : frames[i].op \in {"predict", "hook"}
      <3>1. PICK t \in Top.todo :
              IF t \in DOMAIN tasks
              THEN CallWith(IF In(tasks, t, {"WAITING"}) THEN UpdateFrames(t) ELSE <<>>,
                            (Top.todo \ {t})
                                \union (IF In(tasks, t, PREDICTED) THEN {}
                                        ELSE Children(tasks, t)))
              ELSE CallWith(<<>>, Top.todo \ {t})
        BY <1>4 DEF VisitNext
      <3>2. Top.todo \ {t} \in SUBSET Path /\ Children(tasks, t) \in SUBSET Path
        BY <1>2, ChildrenTyped
      <3>3. CASE t \in DOMAIN tasks
        <4> DEFINE frames == IF In(tasks, t, {"WAITING"}) THEN UpdateFrames(t) ELSE <<>>
                   S == (Top.todo \ {t})
                           \union (IF In(tasks, t, PREDICTED) THEN {} ELSE Children(tasks, t))
        <4>1. In(tasks, t, {"WAITING"}) => tasks[t].state \in NOT_FINISHED /\ Attached(tasks, t)
          BY <1>2, <3>3, StatesDiffer DEF Reach, REACHED, In
        <4>2. /\ frames \in Seq(FrameType) /\ Ordered(frames) /\ FramesOK(tasks, frames)
              /\ \A i \in DOMAIN frames : frames[i].op \in {"predict", "hook"}
          BY <1>2, <3>3, <4>1, UpdateFramesOK, NoFrame
        <4>3. CallWith(frames, S) /\ S \in SUBSET Path
          BY <3>1, <3>2, <3>3
        <4> HIDE DEF frames, S
        <4> QED
          BY <4>2, <4>3
      <3>4. CASE t \notin DOMAIN tasks
        BY <3>1, <3>2, <3>4, NoFrame
      <3> QED
        BY <3>3, <3>4
    <2>2. PICK frames \in Seq(FrameType), S \in SUBSET Path :
             /\ CallWith(frames, S) /\ Ordered(frames) /\ FramesOK(tasks, frames)
             /\ \A i \in DOMAIN frames : frames[i].op \in {"predict", "hook"}
      BY <2>1
    <2>3. FrameOK(tasks, [Top EXCEPT !.todo = S])
      <3>1. LET g == [Top EXCEPT !.todo = S]
            IN  g.op = "visit" /\ g.task = Top.task
        BY <1>1, <1>2 DEF FrameType
      <3> QED
        BY <1>1, <1>2, <3>1 DEF FrameOK
    <2>4. \A i \in DOMAIN frames : frames[i].op \in Over(Top.op)
      BY <1>1, <2>2 DEF Over, Ops
    <2>5. ReachInv'
      BY <1>1, <1>2, <2>2, <2>3, <2>4, CallStep
    <2> QED
      BY <1>1, <2>5 DEF Stays
  <1> QED
    BY <1>3, <1>4

LEMMA FinishReach ==
  ASSUME IInv, IInv', ReachInv, Finish
  PROVE  ReachInv' /\ Stays(tasks, tasks')
  <1>1. calls # <<>> /\ Top.op = "finish" /\ UNCHANGED tasks /\ Return
    BY DEF Finish, Doing, Top
  <1>2. Reach(tasks)
    BY <1>1, InProgress
  <1> QED
    BY <1>1, <1>2, ReturnStep DEF Stays

LEMMA StepReach == ASSUME IInv, IInv', ReachInv, Step PROVE ReachInv' /\ Stays(tasks, tasks')
  BY PredictReach, UpdateReach, UpdateJoinReach, CancelNextReach, JoinFiresReach,
     CompleteTaskReach, ChildrenNextReach, VisitNextReach, FinishReach DEF Step

-----------------------------------------------------------------------------
(* Task.run *)

\* A task that may be run: its parent has finished.
LEMMA RunnableReach ==
  ASSUME IInv, ReachInv, NEW t, NEW kinds, Running(t, kinds)
  PROVE  /\ Tree(tasks, Specs) /\ Reach(tasks) /\ calls = <<>>
         /\ t \in DOMAIN tasks /\ t \in Path /\ tasks[t].spec \in Specs
         /\ tasks[t].state = "READY" /\ Attached(tasks, t)
         /\ Kind(tasks[t].spec) \in kinds
  <1>1. Tree(tasks, Specs) /\ Reach(tasks) /\ calls = <<>>
    BY AtRest DEF Running, Quiescent
  <1>2. t \in DOMAIN tasks /\ tasks[t].state = "READY" /\ Kind(tasks[t].spec) \in kinds
    BY DEF Running, InState
  <1> QED
    BY <1>1, <1>2, StateTyped DEF Reach, REACHED

\* The stack of a run.
LEMMA RunStack ==
  ASSUME IInv', NEW t \in Path, NEW frames \in Seq(FrameType), RunWith(t, frames),
         Ordered(frames), FramesOK(tasks', frames),
         \A i \in DOMAIN frames : frames[i].op \in {"predict", "cancel"},
         FrameOK(tasks', Frame("complete", t, {}))
  PROVE  Ordered(calls') /\ FramesOK(tasks', calls')
  <1> DEFINE f == Frame("complete", t, {})
  <1>1. f \in FrameType /\ f.op = "complete"
    BY FrameTyped DEF Ops, Frame
  <1> HIDE DEF f
  <1>2. /\ <<f>> \in Seq(FrameType) /\ Ordered(<<f>>) /\ FramesOK(tasks', <<f>>)
        /\ \A i \in DOMAIN <<f>> : <<f>>[i].op = "complete"
    BY <1>1, OneFrame DEF f
  <1>3. Ordered(frames \o <<f>>) /\ FramesOK(tasks', frames \o <<f>>)
    BY <1>2, FramesConcat DEF Over
  <1> QED
    BY <1>3 DEF RunWith, f

LEMMA RunStep ==
  ASSUME IInv', NEW t \in Path, NEW frames \in Seq(FrameType), RunWith(t, frames),
         Ordered(frames), FramesOK(tasks', frames),
         \A i \in DOMAIN frames : frames[i].op \in {"predict", "cancel"},
         FrameOK(tasks', Frame("complete", t, {})), Reach(tasks')
  PROVE  ReachInv'
  <1>1. Ordered(calls') /\ FramesOK(tasks', calls')
    BY RunStack
  <1> QED
    BY <1>1, IInvSplitPrime, EndedReach DEF ReachInv

LEMMA RunRaisesReach ==
  ASSUME IInv, IInv', ReachInv, NEW t, NEW kinds, Running(t, kinds), RunRaises(t)
  PROVE  ReachInv' /\ Stays(tasks, tasks')
  <1>1. /\ Tree(tasks, Specs) /\ Reach(tasks) /\ Attached(tasks, t)
        /\ tasks' = SetState(tasks, {t}, "ERROR") /\ calls' = <<>>
    BY RunnableReach DEF RunRaises
  <1>2. Reach(tasks') /\ Stays(tasks, tasks')
    BY <1>1, SetReach, SetStays, StatesDiffer DEF REACHED
  <1> QED
    BY <1>1, <1>2, NoFrame DEF ReachInv, Ended, Sole

\* Nothing happens to the tree before the task completes.
LEMMA RunPlainReach ==
  ASSUME IInv, IInv', ReachInv, NEW t, NEW kinds, Running(t, kinds),
         RunWith(t, <<>>), UNCHANGED tasks
  PROVE  ReachInv' /\ Stays(tasks, tasks')
  <1>1. FrameOK(tasks, Frame("complete", t, {})) /\ Reach(tasks) /\ t \in Path
    BY RunnableReach, NewLiveFrame
  <1> QED
    BY <1>1, NoFrame, RunStep DEF Stays

\* The children of a running task are synchronized.
LEMMA RunSyncs ==
  ASSUME IInv, ReachInv, NEW t, NEW kinds, Running(t, kinds),
         NEW outs, NEW n, Gapped(outs, n), tasks' = SyncChildren(tasks, t, outs, n, "FUTURE")
  PROVE  /\ Reach(tasks') /\ Stays(tasks, tasks') /\ Tree(tasks', Specs)
         /\ t \in DOMAIN tasks'
         /\ FrameOK(tasks', Frame("complete", t, {}))
  <1>1. /\ Tree(tasks, Specs) /\ Reach(tasks) /\ t \in DOMAIN tasks /\ t \in Path
        /\ tasks[t].state = "READY" /\ Attached(tasks, t)
    BY RunnableReach
  <1>2. /\ Tree(tasks', Specs) /\ t \in DOMAIN tasks' /\ Grown(tasks, tasks', t, {"FUTURE"})
    BY <1>1, SyncChildrenTree, MasksTyped DEF Gapped
  <1>3. Foresees(tasks, t, {"FUTURE"})
    BY <1>1, StatesDiffer DEF Foresees
  <1>4. Reach(tasks') /\ SameOrExpected(tasks, tasks')
    BY <1>1, <1>2, <1>3, GrownReach
  <1>5. FrameOK(tasks, Frame("complete", t, {})) /\ Frame("complete", t, {}) \in FrameType
    BY <1>1, NewLiveFrame, FrameTyped DEF Ops
  <1>6. FrameOK(tasks', Frame("complete", t, {}))
    BY <1>1, <1>2, <1>4, <1>5, GrownFrame
  <1> QED
    BY <1>2, <1>4, <1>6, GrownStays

LEMMA RunSplitReach ==
  ASSUME IInv, IInv', ReachInv, NEW t, NEW kinds, Running(t, kinds),
         NEW outs, NEW n, Gapped(outs, n), NEW looked \in Nat, RunSplit(t, outs, n, looked)
  PROVE  ReachInv' /\ Stays(tasks, tasks')
  <1>1. CASE SyncRaises(tasks, t, outs, n)
    BY <1>1, RunRaisesReach DEF RunSplit
  <1>2. CASE ~SyncRaises(tasks, t, outs, n)
    <2> DEFINE todo == InState(tasks', PREDICTED \union {"FUTURE"}) \intersect Children(tasks', t)
               f    == PredictFrame(t, todo, looked, PREDICTED \union {"FUTURE"})
    <2>1. tasks' = SyncChildren(tasks, t, outs, n, "FUTURE") /\ RunWith(t, <<f>>)
      BY <1>2 DEF RunSplit
    <2>2. /\ Reach(tasks') /\ Stays(tasks, tasks') /\ Tree(tasks', Specs)
          /\ t \in DOMAIN tasks' /\ t \in Path
          /\ FrameOK(tasks', Frame("complete", t, {}))
      BY <2>1, RunSyncs, RunnableReach
    <2>3. todo \in SUBSET Path
      BY <2>2, ChildrenTyped
    <2> HIDE DEF todo
    <2>4. f \in FrameType /\ f.op = "predict"
      BY <2>2, <2>3, PredictFrameTyped, MasksTyped DEF PredictFrame
    <2>5. FrameOK(tasks', f)
      BY <2>2, NewPredictFrame DEF EXPECTED
    <2> HIDE DEF f
    <2>6. /\ <<f>> \in Seq(FrameType) /\ Ordered(<<f>>) /\ FramesOK(tasks', <<f>>)
          /\ \A i \in DOMAIN <<f>> : <<f>>[i].op = "predict"
      BY <2>4, <2>5, OneFrame
    <2>7. ReachInv'
      BY <2>1, <2>2, <2>6, RunStep
    <2> QED
      BY <2>2, <2>7
  <1> QED
    BY <1>1, <1>2

LEMMA RunChoiceReach ==
  ASSUME IInv, IInv', ReachInv, NEW t,
         RunMultiChoice(t) \/ RunExclusiveChoice(t) \/ RunMultiInstance(t)
  PROVE  ReachInv' /\ Stays(tasks, tasks')
  <1> DEFINE s == tasks[t].spec
  <1>1. CASE RunMultiChoice(t)
    <2>1. Running(t, {"MultiChoice"}) /\ s \in Specs
      BY <1>1, RunnableReach DEF RunMultiChoice
    <2>2. PICK matching \in SUBSET Net[s].cond :
             RunSplit(t, Pick(Outputs(s), (Specs \ Net[s].cond) \union matching),
                      Len(Outputs(s)), 0)
      BY <1>1 DEF RunMultiChoice
    <2>3. Gapped(Pick(Outputs(s), (Specs \ Net[s].cond) \union matching), Len(Outputs(s)))
      BY <2>1, PickGapped
    <2> HIDE DEF s
    <2> QED
      BY <2>1, <2>2, <2>3, RunSplitReach
  <1>2. CASE RunExclusiveChoice(t)
    <2>1. Running(t, {"ExclusiveChoice"}) /\ s \in Specs /\ Kind(s) = "ExclusiveChoice"
      BY <1>2, RunnableReach DEF RunExclusiveChoice
    <2>2. PICK output \in Net[s].cond \union {Net[s].default} : RunSplit(t, <<output>>, 1, 0)
      BY <1>2 DEF RunExclusiveChoice
    <2>3. Gapped(<<output>>, 1)
      BY <2>1, NetTyped DEF Gapped
    <2> HIDE DEF s
    <2> QED
      BY <2>1, <2>2, <2>3, RunSplitReach
  <1>3. CASE RunMultiInstance(t)
    <2>1. Running(t, {"MultiInstance"}) /\ s \in Specs
      BY <1>3, RunnableReach DEF RunMultiInstance
    <2>2. PICK n \in Net[s].times : RunSplit(t, PredictedOutputs(s, n), OutputCount(s, n), 1)
      BY <1>3 DEF RunMultiInstance
    <2>3. Gapped(PredictedOutputs(s, n), OutputCount(s, n))
      BY <2>1, NetTyped, PredictedOutputsGapped
    <2> HIDE DEF s
    <2> QED
      BY <2>1, <2>2, <2>3, RunSplitReach
  <1> QED
    BY <1>1, <1>2, <1>3

LEMMA RunThreadSplitReach ==
  ASSUME IInv, IInv', ReachInv, NEW t, RunThreadSplit(t)
  PROVE  ReachInv' /\ Stays(tasks, tasks')
  <1> DEFINE s == tasks[t].spec
  <1>1. Running(t, {"ThreadSplit"}) /\ s \in Specs /\ t \in Path
    BY RunnableReach DEF RunThreadSplit
  <1>2. PICK n \in Net[s].times :
           \/ RunRaises(t)
           \/ /\ tasks' = SyncChildren(tasks, t, PredictedOutputs(s, n), OutputCount(s, n),
                                       "FUTURE")
              /\ RunWith(t, <<>>)
    BY DEF RunThreadSplit
  <1>3. Gapped(PredictedOutputs(s, n), OutputCount(s, n))
    BY <1>1, NetTyped, PredictedOutputsGapped
  <1> HIDE DEF s
  <1>4. CASE RunRaises(t)
    BY <1>1, <1>4, RunRaisesReach
  <1>5. CASE /\ tasks' = SyncChildren(tasks, t, PredictedOutputs(s, n), OutputCount(s, n), "FUTURE")
             /\ RunWith(t, <<>>)
    <2>1. Reach(tasks') /\ Stays(tasks, tasks') /\ FrameOK(tasks', Frame("complete", t, {}))
      BY <1>1, <1>3, <1>5, RunSyncs
    <2> QED
      BY <1>1, <1>5, <2>1, NoFrame, RunStep
  <1> QED
    BY <1>2, <1>4, <1>5

\* The children of a ThreadStart are READY at once; it completes next.
LEMMA ThreadStartReach ==
  ASSUME NEW T, NEW U, Tree(T, Specs), Tree(U, Specs), Reach(T), NEW t \in DOMAIN T,
         T[t].state = "READY", Attached(T, t), Grown(T, U, t, {"READY"})
  PROVE  Reach(SetState(U, {t}, "COMPLETED")) /\ Attached(U, t) /\ Stays(T, U)
  <1> DEFINE W == SetState(U, {t}, "COMPLETED")
  <1>1. /\ DOMAIN W = DOMAIN U /\ t \in DOMAIN U
        /\ \A d \in DOMAIN U : /\ W[d].spec = U[d].spec
                               /\ W[d].state = IF d = t THEN "COMPLETED" ELSE U[d].state
    BY SetStateEffect DEF Grown
  <1> HIDE DEF W
  <1>2. ASSUME NEW d \in DOMAIN T \intersect DOMAIN U
        PROVE  /\ U[d].spec = T[d].spec
               /\ \/ U[d].state = T[d].state
                  \/ /\ d # Root /\ Parent(d) = t
                     /\ T[d].state \in NOT_FINISHED /\ U[d].state = "READY"
    BY DEF Grown
  <1>3. ASSUME NEW d \in DOMAIN U \ DOMAIN T
        PROVE  d # Root /\ Parent(d) = t /\ U[d].state = "READY"
    BY DEF Grown
  <1>4. Stays(T, U)
    BY <1>2, StatesDiffer DEF Stays
  <1>5. Attached(U, t)
    BY <1>1, <1>4, AttachedStays
  <1>6. Tree(W, Specs) /\ Stays(T, W)
    BY <1>1, <1>4, SetStateTree, StatesDiffer DEF W, Stays
  <1>7. ASSUME NEW d \in DOMAIN U
        PROVE  /\ W[d].state # "STARTED"
               /\ W[d].state \in REACHED => Attached(W, d)
    <2>1. CASE d \in DOMAIN T /\ U[d].state = T[d].state
      <3>1. W[d].state # "STARTED"
        BY <1>1, <2>1 DEF Reach
      <3>2. W[d].state \in REACHED => Attached(T, d)
        BY <1>1, <2>1 DEF Reach, REACHED
      <3>3. Attached(T, d) => Attached(W, d)
        BY <1>6, <2>1, AttachedStays
      <3> QED
        BY <3>1, <3>2, <3>3
    <2>2. CASE ~(d \in DOMAIN T /\ U[d].state = T[d].state)
      <3>1. d # Root /\ Parent(d) = t /\ U[d].state = "READY"
        BY <1>2, <1>3, <2>2
      <3>2. W[t].state \in FINISHED /\ Attached(W, t)
        BY <1>1, <1>6, AttachedStays, StatesDiffer
      <3>3. Attached(W, d)
        BY <1>1, <1>6, <3>1, <3>2, AttachedParent
      <3>4. d # t
        BY <1>1, <3>1, ParentLive
      <3> QED
        BY <1>1, <3>1, <3>3, <3>4
    <2> QED
      BY <2>1, <2>2
  <1>8. ASSUME NEW d \in DOMAIN U \ {Root}, W[d].state = "FUTURE"
        PROVE  /\ W[Parent(d)].state \notin PREDICTED
               /\ IsChoice(W[Parent(d)].spec) => W[Parent(d)].state \notin EXPECTED
    <2>1. d \in DOMAIN T /\ T[d].state = "FUTURE"
      BY <1>1, <1>2, <1>3, <1>8
    <2>2. Parent(d) \in DOMAIN T /\ Parent(d) \in DOMAIN U
      BY <2>1, ParentLive
    <2>3. /\ T[Parent(d)].state \notin PREDICTED
          /\ IsChoice(T[Parent(d)].spec) => T[Parent(d)].state \notin EXPECTED
      BY <2>1 DEF Reach
    <2>4. /\ W[Parent(d)].spec = T[Parent(d)].spec
          /\ W[Parent(d)].state \in {T[Parent(d)].state, "READY", "COMPLETED"}
      BY <1>1, <1>2, <2>2
    <2> QED
      BY <2>3, <2>4, StatesDiffer
  <1>9. Reach(W)
    BY <1>1, <1>7, <1>8 DEF Reach
  <1> QED
    BY <1>4, <1>5, <1>9 DEF W

LEMMA RunThreadStartReach ==
  ASSUME IInv, IInv', ReachInv, NEW t, RunThreadStart(t)
  PROVE  ReachInv' /\ Stays(tasks, tasks')
  <1> DEFINE T    == AssignThread(tasks, t, threads + 1)
             outs == Outputs(tasks[t].spec)
             f    == Frame("complete", t, {})
  <1>1. /\ Tree(tasks, Specs) /\ Reach(tasks) /\ calls = <<>>
        /\ t \in DOMAIN tasks /\ t \in Path /\ tasks[t].spec \in Specs
        /\ tasks[t].state = "READY" /\ Attached(tasks, t) /\ threads \in Nat
    BY RunnableReach, IInvSplit DEF RunThreadStart, OthersTyped
  <1>2. /\ Tree(T, Specs) /\ DOMAIN T = DOMAIN tasks
        /\ \A d \in DOMAIN tasks : T[d].state = tasks[d].state /\ T[d].spec = tasks[d].spec
    BY <1>1, AssignThreadTree
  <1>3. \/ tasks' = SetState(T, {t}, "ERROR") /\ calls' = <<>>
        \/ tasks' = SyncChildren(T, t, outs, Len(outs), "READY") /\ RunWith(t, <<>>)
    BY <1>1 DEF RunThreadStart
  <1>4. Gapped(outs, Len(outs))
    BY <1>1, OutputsGapped
  <1> HIDE DEF T, outs
  <1>5. Reach(T) /\ T[t].state = "READY" /\ Attached(T, t)
    <2>1. \A d \in DOMAIN tasks \ {Root} : Parent(d) \in DOMAIN tasks
      BY <1>1, ParentLive
    <2> QED
      BY <1>1, <1>2, <2>1, Zenon DEF Reach, Attached
  <1>6. ASSUME NEW U, Stays(T, U) PROVE Stays(tasks, U)
    BY <1>2, <1>6 DEF Stays
  <1>7. CASE tasks' = SetState(T, {t}, "ERROR") /\ calls' = <<>>
    <2>1. Reach(tasks') /\ Stays(T, tasks')
      BY <1>2, <1>5, <1>7, SetReach, SetStays, StatesDiffer DEF REACHED
    <2> QED
      BY <1>6, <1>7, <2>1, NoFrame DEF ReachInv, Ended, Sole
  <1>8. CASE tasks' = SyncChildren(T, t, outs, Len(outs), "READY") /\ RunWith(t, <<>>)
    <2>1. Tree(tasks', Specs) /\ Grown(T, tasks', t, {"READY"})
      BY <1>1, <1>2, <1>4, <1>8, SyncChildrenTree, MasksTyped DEF Gapped
    <2>2. /\ Reach(SetState(tasks', {t}, "COMPLETED")) /\ Attached(tasks', t)
          /\ Stays(T, tasks')
      BY <1>1, <1>2, <1>5, <2>1, ThreadStartReach
    <2>3. t \in DOMAIN tasks' /\ tasks'[t].state = "READY"
      BY <1>5, <2>1 DEF Grown
    <2>4. FrameOK(tasks', f)
      BY <2>1, <2>2, <2>3, NewLiveFrame
    <2>5. Ordered(calls') /\ FramesOK(tasks', calls')
      BY <1>1, <1>8, <2>4, NoFrame, RunStack
    <2>6. calls' = <<f>>
      BY <1>8 DEF RunWith
    <2>7. Ended(tasks', calls') = SetState(tasks', {t}, "COMPLETED")
      BY <2>6 DEF Ended, Sole, Frame
    <2> QED
      BY <1>6, <2>2, <2>5, <2>7 DEF ReachInv
  <1> QED
    BY <1>3, <1>7, <1>8

LEMMA RunCancelReach ==
  ASSUME IInv, IInv', ReachInv, NEW t, RunCancel(t)
  PROVE  ReachInv' /\ Stays(tasks, tasks')
  <1> DEFINE f == Frame("complete", t, {})
  <1>1. /\ Tree(tasks, Specs) /\ Reach(tasks) /\ t \in Path
        /\ t \in DOMAIN tasks /\ tasks[t].state = "READY" /\ Attached(tasks, t)
        /\ Tree(tasks', Specs) /\ tasks' = CancelBranch(tasks, Root) /\ RunWith(t, <<>>)
    BY RunnableReach, IInvSplitPrime DEF RunCancel
  <1>2. Shrunk(tasks, tasks')
    BY <1>1, CancelBranchShrunk
  <1>3. Reach(tasks') /\ Stays(tasks, tasks')
    BY <1>1, <1>2, ShrunkReach, ShrunkStays
  <1>4. f \in FrameType /\ FrameOK(tasks, f) /\ f.op = "complete"
    BY <1>1, FrameTyped, NewLiveFrame DEF Ops, Frame
  <1> HIDE DEF f
  <1>5. FrameOK(tasks', f)
    BY <1>1, <1>2, <1>4, ShrunkFrame
  <1> QED
    BY <1>1, <1>3, <1>5, NoFrame, RunStep DEF f

\* The frames of a CancelTask.
LEMMA ContextFrames ==
  ASSUME Tree(tasks, Specs), NEW t \in DOMAIN tasks
  PROVE  LET context == Net[tasks[t].spec].context
             frames  == [i \in DOMAIN context |-> Frame("cancel", t, OfSpec(tasks, context[i]))]
         IN  /\ frames \in Seq(FrameType)
             /\ \A i \in DOMAIN frames : frames[i].op = "cancel" /\ FrameOK(tasks, frames[i])
  <1> DEFINE context == Net[tasks[t].spec].context
             frames  == [i \in DOMAIN context |-> Frame("cancel", t, OfSpec(tasks, context[i]))]
  <1>1. t \in Path /\ tasks[t].spec \in Specs
    BY StateTyped
  <1>2. Len(context) \in Nat /\ DOMAIN context = 1..Len(context)
    BY <1>1, NetTyped, LenProperties
  <1>3. \A s : OfSpec(tasks, s) \in SUBSET Path
    BY DEF OfSpec, Tree, IsTree
  <1> HIDE DEF context
  <1>4. ASSUME NEW i \in DOMAIN context
        PROVE  /\ Frame("cancel", t, OfSpec(tasks, context[i])) \in FrameType
               /\ FrameOK(tasks, Frame("cancel", t, OfSpec(tasks, context[i])))
    BY <1>1, <1>3, FrameTyped, NewFrame DEF Ops
  <1>5. frames \in Seq(FrameType)
    BY <1>2, <1>4, IsASeq
  <1>6. \A i \in DOMAIN frames : frames[i].op = "cancel" /\ FrameOK(tasks, frames[i])
    BY <1>4 DEF Frame
  <1> QED
    BY <1>5, <1>6 DEF context

LEMMA RunCancelTaskReach ==
  ASSUME IInv, IInv', ReachInv, NEW t, RunCancelTask(t)
  PROVE  ReachInv' /\ Stays(tasks, tasks')
  <1> DEFINE context == Net[tasks[t].spec].context
             frames  == [i \in DOMAIN context |-> Frame("cancel", t, OfSpec(tasks, context[i]))]
  <1>1. /\ Tree(tasks, Specs) /\ Reach(tasks) /\ t \in Path
        /\ t \in DOMAIN tasks /\ tasks[t].state = "READY" /\ Attached(tasks, t)
    BY RunnableReach DEF RunCancelTask
  <1>2. RunWith(t, frames) /\ UNCHANGED tasks
    BY DEF RunCancelTask
  <1>3. /\ frames \in Seq(FrameType)
        /\ \A i \in DOMAIN frames : frames[i].op = "cancel" /\ FrameOK(tasks, frames[i])
    BY <1>1, ContextFrames
  <1> HIDE DEF frames
  <1>4. Ordered(frames) /\ FramesOK(tasks, frames)
    BY <1>3 DEF Ordered, FramesOK, Over
  <1>5. FrameOK(tasks, Frame("complete", t, {}))
    BY <1>1, NewLiveFrame
  <1>6. ReachInv'
    BY <1>1, <1>2, <1>3, <1>4, <1>5, RunStep
  <1> QED
    BY <1>2, <1>6 DEF Stays

LEMMA RunReach == ASSUME IInv, IInv', ReachInv, Run PROVE ReachInv' /\ Stays(tasks, tasks')
  <1>1. PICK t \in DOMAIN tasks : RunTask(t)
    BY DEF Run
  <1>2. CASE RunSimple(t)
    BY <1>2, RunPlainReach DEF RunSimple
  <1>3. CASE RunFails(t)
    BY <1>3, RunRaisesReach DEF RunFails
  <1>4. CASE RunReleaseMutex(t)
    BY <1>4, RunPlainReach, RunRaisesReach DEF RunReleaseMutex
  <1> QED
    BY <1>1, <1>2, <1>3, <1>4, RunChoiceReach, RunThreadSplitReach, RunThreadStartReach,
       RunCancelReach, RunCancelTaskReach DEF RunTask
-----------------------------------------------------------------------------
(* The other public methods *)

LEMMA UpdateWaitingTasksReach ==
  ASSUME IInv, IInv', ReachInv, UpdateWaitingTasks
  PROVE  ReachInv' /\ Stays(tasks, tasks')
  <1> DEFINE f == Frame("visit", Root, {Root})
  <1>1. /\ Tree(tasks, Specs) /\ Reach(tasks) /\ UNCHANGED tasks /\ calls' = <<f>>
    BY AtRest DEF UpdateWaitingTasks
  <1>2. f \in FrameType /\ f.op = "visit"
    BY RootPath, FrameTyped DEF Ops, Frame
  <1>3. FrameOK(tasks, f)
    BY <1>1, NewFrame DEF Ops, Tree, Closed
  <1> HIDE DEF f
  <1>4. Ordered(<<f>>) /\ FramesOK(tasks, <<f>>)
    BY <1>2, <1>3, OneFrame
  <1>5. Ended(tasks, <<f>>) = tasks
    BY <1>2 DEF Ended, Sole
  <1> QED
    BY <1>1, <1>4, <1>5 DEF ReachInv, Stays

LEMMA CancelReach ==
  ASSUME IInv, IInv', ReachInv, Cancel
  PROVE  ReachInv' /\ Stays(tasks, tasks')
  <1>1. /\ Tree(tasks, Specs) /\ Reach(tasks) /\ Tree(tasks', Specs)
        /\ calls = <<>> /\ calls' = <<>> /\ tasks' = CancelBranch(tasks, Root)
    BY AtRest, IInvSplitPrime DEF Cancel, Quiescent
  <1>2. Shrunk(tasks, tasks')
    BY <1>1, CancelBranchShrunk
  <1>3. Reach(tasks') /\ Stays(tasks, tasks')
    BY <1>1, <1>2, ShrunkReach, ShrunkStays
  <1> QED
    BY <1>1, <1>3, NoFrame DEF ReachInv, Ended, Sole

\* A task without children may be expected again.
LEMMA BareReach ==
  ASSUME NEW T, Tree(T, Specs), Reach(T), NEW t \in DOMAIN T, t # Root,
         T[Parent(t)].state = "COMPLETED",
         \A d \in DOMAIN T \ {Root} : Parent(d) # t
  PROVE  Reach(SetState(T, {t}, "FUTURE")) /\ Attached(SetState(T, {t}, "FUTURE"), t)
  <1> DEFINE U == SetState(T, {t}, "FUTURE")
  <1>1. /\ DOMAIN U = DOMAIN T
        /\ \A d \in DOMAIN T : /\ U[d].spec = T[d].spec
                               /\ U[d].state = IF d = t THEN "FUTURE" ELSE T[d].state
    BY SetStateEffect
  <1>2. \A d \in DOMAIN T \ {Root} : /\ Parent(d) \in DOMAIN T
                                     /\ U[Parent(d)].state = T[Parent(d)].state
                                     /\ U[Parent(d)].spec = T[Parent(d)].spec
    BY <1>1, ParentLive
  <1> HIDE DEF U
  <1>5. \A d \in DOMAIN T : ~Above(t, d)
    <2> DEFINE S == {d \in DOMAIN T : Above(t, d)}
    <2> SUFFICES ASSUME S # {} PROVE FALSE
      OBVIOUS
    <2>1. S \in SUBSET Path /\ t \in Path
      BY StateTyped
    <2>2. PICK e \in S : \A u \in S : ~Above(u, e)
      <3> HIDE DEF S
      <3> QED
        BY <2>1, TopmostExists
    <2>3. e \in DOMAIN T /\ e \in Path /\ Above(t, e) /\ e # Root
      BY <2>1, <2>2, NothingAboveRoot
    <2>4. Parent(e) \in DOMAIN T /\ Parent(e) \in Path /\ Above(Parent(e), e) /\ Parent(e) # t
      BY <2>3, ParentLive, AboveParent
    <2>5. Above(t, Parent(e))
      BY <2>1, <2>3, <2>4, AncestorOrParent
    <2> QED
      BY <2>2, <2>4, <2>5
  <1>6. \A d \in DOMAIN T : Attached(T, d) => Attached(U, d)
    BY <1>1, <1>5 DEF Attached
  <1>3. Attached(U, t)
    <2>1. Attached(T, Parent(t)) /\ T[Parent(t)].state \in FINISHED
      BY <1>2, StatesDiffer DEF Reach, REACHED
    <2> QED
      BY <1>6, <2>1, AttachedParent
  <1>4. ASSUME NEW d \in DOMAIN U
        PROVE  /\ U[d].state # "STARTED"
               /\ U[d].state \in REACHED => Attached(U, d)
               /\ d # Root /\ U[d].state = "FUTURE" =>
                     /\ U[Parent(d)].state \notin PREDICTED
                     /\ IsChoice(U[Parent(d)].spec) => U[Parent(d)].state \notin EXPECTED
    <2>1. CASE d = t
      BY <1>1, <1>2, <2>1, StatesDiffer DEF REACHED
    <2>2. CASE d # t
      <3>1. d \in DOMAIN T /\ U[d].state = T[d].state
        BY <1>1, <2>2
      <3>2. U[d].state # "STARTED" /\ (U[d].state \in REACHED => Attached(T, d))
        BY <3>1 DEF Reach
      <3>3. Attached(T, d) => Attached(U, d)
        BY <1>6, <3>1
      <3>4. d # Root /\ U[d].state = "FUTURE" =>
                /\ T[Parent(d)].state \notin PREDICTED
                /\ IsChoice(T[Parent(d)].spec) => T[Parent(d)].state \notin EXPECTED
        BY <3>1 DEF Reach
      <3> QED
        BY <1>2, <3>1, <3>2, <3>3, <3>4, Zenon
    <2> QED
      BY <2>1, <2>2
  <1> QED
    BY <1>1, <1>3, <1>4 DEF Reach, U

\* What a reset leaves before the task is predicted again.
LEMMA ResetParts ==
  ASSUME IInv, NEW t \in DOMAIN tasks, GoBack(t)
  PROVE  LET pruned == RemoveBranches(tasks, Children(tasks, t))
             bare   == SetState(pruned, {t}, "FUTURE")
         IN  /\ Tree(pruned, Specs) /\ t \in DOMAIN pruned /\ Shrunk(tasks, pruned)
             /\ \A d \in DOMAIN pruned \ {Root} : Parent(d) # t
             /\ \A d \in DOMAIN pruned : pruned[d] = tasks[d]
             /\ Tree(bare, Specs) /\ t \in DOMAIN bare /\ bare[t].state = "FUTURE"
             /\ \E n \in Nat : tasks' = PredictHook(bare, t, n)
  <1> DEFINE pruned == RemoveBranches(tasks, Children(tasks, t))
             bare   == SetState(pruned, {t}, "FUTURE")
  <1>1. Tree(tasks, Specs) /\ t \in Path /\ tasks[t].spec \in Specs
    BY IInvSplit, StateTyped
  <1>2. /\ Tree(pruned, Specs) /\ t \in DOMAIN pruned /\ Shrunk(tasks, pruned)
        /\ \A d \in DOMAIN pruned \ {Root} : Parent(d) # t
        /\ \A d \in DOMAIN pruned : pruned[d] = tasks[d]
    <2>1. Children(tasks, t) \in SUBSET Path
      BY <1>1, ChildrenTyped
    <2>2. \A c \in Children(tasks, t) : c # Root /\ c # t /\ ~Above(c, t)
      BY <1>1, ChildDeeper DEF Tree
    <2>3. /\ Tree(pruned, Specs) /\ t \in DOMAIN pruned
          /\ DOMAIN pruned \subseteq DOMAIN tasks
          /\ \A d \in DOMAIN pruned : pruned[d] = tasks[d]
      BY <1>1, <2>1, <2>2, RemoveBranchesTree
    <2>4. \A d \in DOMAIN pruned \ {Root} : Parent(d) # t
      BY DEF RemoveBranches, Children
    <2> HIDE DEF pruned
    <2> QED
      BY <2>3, <2>4 DEF Shrunk
  <1>3. \E n \in Nat : tasks' = PredictHook(bare, t, n)
    <2>1. (IF IsMultiple(tasks[t].spec) THEN Net[tasks[t].spec].times ELSE {1}) \subseteq Nat
      BY <1>1, NetTyped
    <2>2. \E n \in IF IsMultiple(tasks[t].spec) THEN Net[tasks[t].spec].times ELSE {1} :
             tasks' = PredictHook(bare, t, n)
      BY DEF GoBack, ResetBranch
    <2> HIDE DEF bare
    <2> QED
      BY <2>1, <2>2
  <1> HIDE DEF pruned
  <1>4. Tree(bare, Specs) /\ t \in DOMAIN bare /\ bare[t].state = "FUTURE"
    BY <1>2, SetStateTree, SetStateEffect, MasksTyped
  <1> QED
    BY <1>2, <1>3, <1>4 DEF pruned

LEMMA ResetReach == ASSUME IInv, IInv', ReachInv, OrderlyReset PROVE ReachInv' /\ resets' # resets
  <1>1. Tree(tasks, Specs) /\ OthersTyped /\ Reach(tasks)
    BY IInvSplit, AtRest, OrderlyResetGoesBack DEF GoBack, MayReset
  <1>2. PICK t \in DOMAIN tasks : GoBack(t)
    BY OrderlyResetGoesBack
  <1>3. t \in Path /\ t # Root /\ tasks[Parent(t)].state = "COMPLETED"
    BY <1>1, <1>2, StateTyped DEF GoBack, MayReset, In
  <1> DEFINE pruned == RemoveBranches(tasks, Children(tasks, t))
             bare   == SetState(pruned, {t}, "FUTURE")
             mask   == PREDICTED \union {"FUTURE"}
             next   == PredictNext(tasks', t, 0, mask)
             f      == PredictFrame(t, next, 1, mask)
             g      == Frame("hook", t, {})
  <1>4. /\ Tree(pruned, Specs) /\ t \in DOMAIN pruned /\ Shrunk(tasks, pruned)
        /\ \A d \in DOMAIN pruned \ {Root} : Parent(d) # t
        /\ \A d \in DOMAIN pruned : pruned[d] = tasks[d]
        /\ Tree(bare, Specs) /\ t \in DOMAIN bare /\ bare[t].state = "FUTURE"
    BY <1>2, ResetParts
  <1>5. PICK n \in Nat : tasks' = PredictHook(bare, t, n)
    BY <1>2, ResetParts
  <1>6. calls' = <<f>> \o <<g>>
    BY <1>2 DEF GoBack, ResetBranch
  <1> HIDE DEF pruned
  <1>7. Reach(pruned) /\ pruned[Parent(t)].state = "COMPLETED"
    BY <1>1, <1>3, <1>4, ShrunkReach, ParentLive
  <1>8. Reach(bare) /\ Attached(bare, t)
    BY <1>3, <1>4, <1>7, BareReach
  <1> HIDE DEF bare
  <1>9. /\ Tree(tasks', Specs) /\ Reach(tasks') /\ t \in DOMAIN tasks'
        /\ \A x \in FrameType : FrameOK(bare, x) => FrameOK(tasks', x)
    BY <1>4, <1>5, <1>8, HookedTree DEF EXPECTED
  <1>10. next \in SUBSET Path /\ mask \subseteq EXPECTED /\ mask \in SUBSET ANY
    BY <1>9, PredictNextTyped, MasksTyped DEF EXPECTED
  <1> HIDE DEF next, mask
  <1>11. f \in FrameType /\ f.op = "predict" /\ FrameOK(tasks', f)
    BY <1>3, <1>9, <1>10, PredictFrameTyped, NewPredictFrame DEF PredictFrame
  <1>12. g \in FrameType /\ g.op = "hook" /\ FrameOK(tasks', g)
    <2>1. g \in FrameType
      BY <1>3, FrameTyped DEF Ops
    <2>2. FrameOK(bare, g)
      BY <1>4, <1>8, NewLiveFrame, StatesDiffer
    <2>3. FrameOK(tasks', g)
      BY <1>9, <2>1, <2>2
    <2> QED
      BY <2>1, <2>3 DEF Frame
  <1> HIDE DEF f, g
  <1>13. /\ <<f>> \in Seq(FrameType) /\ Ordered(<<f>>) /\ FramesOK(tasks', <<f>>)
         /\ <<g>> \in Seq(FrameType) /\ Ordered(<<g>>) /\ FramesOK(tasks', <<g>>)
    BY <1>11, <1>12, OneFrame
  <1>14. \A i \in DOMAIN <<f>> : \A k \in DOMAIN <<g>> : <<f>>[i].op \in Over(<<g>>[k].op)
    BY <1>11, <1>12 DEF Over
  <1>15. calls' \in Seq(FrameType) /\ Ordered(calls') /\ FramesOK(tasks', calls')
    BY <1>6, <1>13, <1>14, FramesConcat
  <1>16. Reach(Ended(tasks', calls'))
    BY <1>9, <1>15, EndedReach
  <1>17. resets' # resets
    BY <1>1, <1>2 DEF GoBack, OthersTyped
  <1> QED
    BY <1>15, <1>16, <1>17 DEF ReachInv
-----------------------------------------------------------------------------
(* The theorems *)

LEMMA InitReach == ASSUME Init PROVE ReachInv
  <1> DEFINE f == PredictFrame(Root, {Root}, 0, NOT_FINISHED)
             g == Frame("hook", Root, {})
  <1>1. /\ Tree(tasks, Specs) /\ DOMAIN tasks = {Root} /\ tasks[Root].state = "FUTURE"
        /\ calls = <<f, g>>
    <2>1. Tree(tasks, Specs)
      BY InitIInv, IInvSplit
    <2>2. calls = <<f, g>>
      BY DEF Init
    <2>3. DOMAIN tasks = {Root} /\ tasks[Root].state = "FUTURE"
      BY DEF Init
    <2> QED
      BY <2>1, <2>2, <2>3
  <1>2. Reach(tasks)
    BY <1>1 DEF Reach, REACHED
  <1>3. f \in FrameType /\ f.op = "predict" /\ g \in FrameType /\ g.op = "hook"
    <2>1. {Root} \in SUBSET Path /\ {} \in SUBSET Path /\ Root \in Path /\ "hook" \in Ops
      BY RootPath DEF Ops
    <2>2. f \in FrameType /\ g \in FrameType
      BY <2>1, PredictFrameTyped, FrameTyped, MasksTyped
    <2> QED
      BY <2>2 DEF Frame, PredictFrame
  <1>4. FrameOK(tasks, f)
    <2>1. Known(tasks, f.task)
      BY <1>1, LiveIsKnown DEF PredictFrame
    <2>2. \A d \in DOMAIN tasks : tasks[d].state \in EXPECTED
      BY <1>1 DEF EXPECTED
    <2> HIDE DEF f
    <2> QED
      BY <1>3, <2>1, <2>2 DEF FrameOK
  <1>5. FrameOK(tasks, g)
    BY <1>1, AttachedRoot, NewLiveFrame, StatesDiffer
  <1> HIDE DEF f, g
  <1>6. Ordered(<<f, g>>) /\ FramesOK(tasks, <<f, g>>)
    <2>1. DOMAIN <<f, g>> = 1..2
      OBVIOUS
    <2>2. \A i \in 1..2 : <<f, g>>[i] \in {f, g}
      OBVIOUS
    <2>3. FramesOK(tasks, <<f, g>>)
      BY <1>4, <1>5, <2>1, <2>2 DEF FramesOK
    <2>4. Ordered(<<f, g>>)
      BY <1>3, <2>1 DEF Ordered, Over
    <2> QED
      BY <2>3, <2>4
  <1>7. <<f, g>> \in Seq(FrameType)
    BY <1>3
  <1> QED
    BY <1>1, <1>2, <1>6, <1>7, EndedReach DEF ReachInv

LEMMA NextReach ==
  ASSUME IInv, ReachInv, [OrderlyNext]_vars
  PROVE  ReachInv' /\ (resets' # resets \/ Stays(tasks, tasks'))
  <1>1. IInv'
    BY OrderlyIInv
  <1>2. CASE OrderlyNext
    BY <1>1, <1>2, StepReach, RunReach, UpdateWaitingTasksReach, CancelReach, ResetReach DEF OrderlyNext
  <1>3. CASE UNCHANGED vars
    <2>1. UNCHANGED <<tasks, calls>>
      BY <1>3 DEF vars
    <2>2. ReachInv'
      BY <2>1 DEF ReachInv, Reach, Ordered, FramesOK, FrameOK, Ended, Sole
    <2> QED
      BY <2>1, <2>2 DEF Stays
  <1> QED
    BY <1>2, <1>3

LEMMA ReachAlways == OrderlySpec => [](IInv /\ ReachInv)
  <1>1. Init => IInv /\ ReachInv
    BY InitIInv, InitReach
  <1>2. IInv /\ ReachInv /\ [OrderlyNext]_vars => (IInv /\ ReachInv)'
    BY OrderlyIInv, NextReach
  <1> QED
    BY <1>1, <1>2, PTL DEF OrderlySpec

LEMMA DefiniteFromReach ==
  ASSUME IInv, ReachInv
  PROVE  /\ \A t \in InState(tasks, DEFINITE) \ {Root} : ~In(tasks, Parent(t), PREDICTED)
         /\ Quiescent => \A t \in InState(tasks, REACHED), a \in DOMAIN tasks :
                            Above(a, t) => In(tasks, a, FINISHED)
  <1>1. ASSUME NEW t \in InState(tasks, DEFINITE) \ {Root}
        PROVE  ~In(tasks, Parent(t), PREDICTED)
    <2>1. Tree(tasks, Specs) /\ t \in DOMAIN tasks /\ tasks[t].state \in DEFINITE
      BY <1>1, IInvSplit DEF InState
    <2>2. Parent(t) \in DOMAIN tasks /\ Parent(t) # t
      BY <1>1, <2>1, ParentLive
    <2>3. ASSUME NEW T, Tree(T, Specs), Reach(T), DOMAIN T = DOMAIN tasks,
                 T[t].state \in DEFINITE
          PROVE  T[Parent(t)].state \notin PREDICTED
      <3>1. CASE T[t].state = "FUTURE"
        BY <1>1, <2>1, <2>3, <3>1 DEF Reach
      <3>2. CASE T[t].state # "FUTURE"
        <4>1. Attached(T, t)
          BY <2>1, <2>3, <3>2, StatesDiffer DEF Reach, REACHED
        <4> QED
          BY <1>1, <2>1, <2>3, <4>1, AttachedParent, StatesDiffer
      <3> QED
        BY <3>1, <3>2
    <2>4. CASE ~Sole(calls)
      <3>1. Reach(tasks)
        BY <1>1, <2>4 DEF ReachInv, Ended
      <3> QED
        BY <2>1, <2>3, <3>1 DEF In
    <2>5. CASE Sole(calls)
      <3> DEFINE p == Head(calls).task
                 U == SetState(tasks, {p}, "COMPLETED")
      <3>1. Reach(U) /\ Tree(U, Specs)
        BY <1>1, <2>1, <2>5, SetStateTree, StatesDiffer DEF ReachInv, Ended
      <3>2. LiveIn(tasks, p, {"READY", "CANCELLED"})
        BY <1>1, <2>5, InProgress DEF Sole, FrameOK, Top
      <3>3. /\ DOMAIN U = DOMAIN tasks
            /\ \A d \in DOMAIN tasks : U[d].state = IF d = p THEN "COMPLETED" ELSE tasks[d].state
        BY <2>1, SetStateEffect
      <3> HIDE DEF U, p
      <3>4. CASE t = p
        BY <1>1, <2>1, <2>2, <3>2, <3>4, AttachedParent, StatesDiffer DEF LiveIn, In
      <3>5. CASE Parent(t) = p
        BY <2>2, <3>2, <3>5, StatesDiffer DEF LiveIn, In
      <3>6. CASE t # p /\ Parent(t) # p
        <4>1. U[Parent(t)].state \notin PREDICTED
          BY <2>1, <2>3, <3>1, <3>3, <3>6
        <4> QED
          BY <2>2, <3>3, <3>6, <4>1 DEF In
      <3> QED
        BY <3>4, <3>5, <3>6
    <2> QED
      BY <2>4, <2>5
  <1>2. ASSUME Quiescent, NEW t \in InState(tasks, REACHED), NEW a \in DOMAIN tasks, Above(a, t)
        PROVE  In(tasks, a, FINISHED)
    BY <1>2, AtRest DEF Reach, Attached, In, InState
  <1> QED
    BY <1>1, <1>2

\* What is finished stays finished, through every step of every call, unless a
\* task is reset: neither a join that fires nor a ThreadStart, which set states by
\* force, nor an update that was on its way when the task was cancelled brings a
\* task back to life.
THEOREM FinishedStays == OrderlySpec => FinishedForGood
  <1>1. IInv /\ ReachInv /\ [OrderlyNext]_vars =>
           [resets' # resets \/
            \A t \in DOMAIN tasks \intersect DOMAIN tasks' :
                tasks[t].state \in FINISHED => tasks'[t].state \in FINISHED]_vars
    BY NextReach DEF Stays
  <1> QED
    BY <1>1, ReachAlways, PTL DEF OrderlySpec, FinishedForGood

-----------------------------------------------------------------------------
(* Restarts: what is saved and loaded between two calls has the same tasks *)
(* in the same states, so that the invariants hold of it, too.             *)

\* A loaded tree is the saved one with other thread ids.
LEMMA LoadedTreeIsTree ==
  ASSUME Tree(tasks, Specs)
  PROVE  Tree(LoadedTree(tasks), Specs)
  <1> DEFINE U == LoadedTree(tasks)
  <1>1. DOMAIN U = DOMAIN tasks
    BY DEF LoadedTree, SavedTasks
  <1>2. \A t \in DOMAIN tasks : /\ U[t] \in TaskType(Specs)
                                /\ U[t].born = tasks[t].born
    <2> SUFFICES ASSUME NEW t \in DOMAIN tasks
                 PROVE  U[t] \in TaskType(Specs) /\ U[t].born = tasks[t].born
      OBVIOUS
    <2>1. tasks[t] \in TaskType(Specs)
      BY DEF Tree, IsTree
    <2>2. U[t] = [tasks[t] EXCEPT !.thread = 0]
      BY DEF LoadedTree, SavedTasks
    <2> QED
      BY <2>1, <2>2 DEF TaskType
  <1>3. IsTree(U, Specs)
    BY <1>1, <1>2 DEF Tree, IsTree
  <1>4. Closed(U)
    BY <1>1, <1>2 DEF Tree, Closed
  <1> QED
    BY <1>3, <1>4 DEF Tree

\* Loading changes no state.
LEMMA LoadedTreeIsCompleted ==
  ASSUME Tree(tasks, Specs), IsCompleted(tasks)
  PROVE  IsCompleted(LoadedTree(tasks))
  <1>1. \A t \in DOMAIN tasks : LoadedTree(tasks)[t].state = tasks[t].state
    BY DEF LoadedTree, SavedTasks, Tree, IsTree, TaskType
  <1> QED
    BY <1>1 DEF IsCompleted, InState, LoadedTree, SavedTasks

LEMMA ReloadPreserves == ASSUME IInv, Reload, last' = NoTask PROVE IInv'
  <1>1. Tree(tasks, Specs) /\ calls \in Seq(FrameType) /\ OthersTyped
    BY IInvSplit
  <1>2. Tree(tasks', Specs)
    BY <1>1, LoadedTreeIsTree DEF Reload
  <1>3. (calls \in Seq(FrameType))'
    BY <1>1 DEF Reload
  <1>4. OthersTyped'
    <2>1. NoTask \in Path
      BY DEF NoTask, Path
    <2> QED
      BY <1>1, <2>1 DEF Reload, OthersTyped, counters
  <1> QED
    BY <1>2, <1>3, <1>4, IInvSplitPrime

LEMMA ReloadCancelInv == ASSUME IInv, CancelInv, Reload PROVE CancelInv'
  <1>1. Tree(tasks, Specs)
    BY IInvSplit
  <1>2. UNCHANGED <<calls, cancels, resets>> /\ tasks' = LoadedTree(tasks)
    BY DEF Reload, counters
  <1>3. IsCompleted(tasks) => IsCompleted(tasks')
    BY <1>1, <1>2, LoadedTreeIsCompleted
  <1> QED
    BY <1>2, <1>3 DEF CancelInv, Walking

\* What has been reached is the same in the loaded tree.
LEMMA ReloadReach == ASSUME IInv, IInv', ReachInv, Reload PROVE ReachInv' /\ Stays(tasks, tasks')
  <1>1. /\ Tree(tasks, Specs) /\ Reach(tasks) /\ calls = <<>> /\ calls' = <<>>
        /\ tasks' = LoadedTree(tasks)
    BY AtRest DEF Reload, Quiescent
  <1>2. /\ DOMAIN tasks' = DOMAIN tasks
        /\ \A t \in DOMAIN tasks : /\ tasks'[t].state = tasks[t].state
                                   /\ tasks'[t].spec = tasks[t].spec
    BY <1>1 DEF LoadedTree, SavedTasks, Tree, IsTree, TaskType
  <1>3. \A t \in DOMAIN tasks \ {Root} : Parent(t) \in DOMAIN tasks
    BY <1>1, ParentLive
  <1>4. Reach(tasks')
    BY <1>1, <1>2, <1>3, Zenon DEF Reach, Attached
  <1> QED
    BY <1>1, <1>2, <1>4, NoFrame DEF ReachInv, Ended, Sole, Stays

\* In any order of resets, what a loaded workflow does keeps the tree and the cancellation.
LEMMA RestartKeeps == ASSUME IInv, CancelInv, [RestartNext]_vars PROVE IInv' /\ CancelInv'
  <1>1. CASE DictRestart \/ XmlRestart
    <2>1. Reload /\ last' = NoTask
      BY <1>1 DEF DictRestart, XmlRestart
    <2> QED
      BY <2>1, ReloadPreserves, ReloadCancelInv
  <1>2. CASE [Next]_vars
    BY <1>2, NextIInv, NextCancelInv
  <1> QED
    BY <1>1, <1>2 DEF RestartNext

LEMMA RestartKept == RestartSpec => [](IInv /\ CancelInv)
  <1>1. Init => IInv /\ CancelInv
    BY InitIInv DEF Init, CancelInv
  <1>2. IInv /\ CancelInv /\ [RestartNext]_vars => IInv' /\ CancelInv'
    BY RestartKeeps
  <1> QED
    BY <1>1, <1>2, PTL DEF RestartSpec

\* The tree of a workflow that is saved and loaded at any moments between calls
\* is a tree: whichever tasks there were, each has its parent.
THEOREM TreeClosedAcrossRestarts == RestartSpec => []TreeClosed
  <1>1. IInv => TreeClosed
    BY DEF IInv
  <1> QED
    BY <1>1, RestartKept, PTL

\* A workflow that was cancelled does not come back to life when it is loaded,
\* nor after that.
THEOREM CancelledAcrossRestarts == RestartSpec => []CancelIsFinal
  <1>1. CancelInv => CancelIsFinal
    BY DEF CancelInv, CancelIsFinal
  <1> QED
    BY <1>1, RestartKept, PTL

RInv == IInv /\ ReachInv

LEMMA NextRInv ==
  ASSUME RInv, [OrderlyRestartNext]_vars
  PROVE  RInv' /\ (resets' # resets \/ Stays(tasks, tasks'))
  <1>1. CASE DictRestart \/ XmlRestart
    <2>1. Reload /\ last' = NoTask
      BY <1>1 DEF DictRestart, XmlRestart
    <2> QED
      BY <2>1, ReloadPreserves, ReloadReach DEF RInv
  <1>2. CASE [OrderlyNext]_vars
    BY <1>2, OrderlyIInv, NextReach DEF RInv
  <1> QED
    BY <1>1, <1>2 DEF OrderlyRestartNext

LEMMA RestartInv == OrderlyRestartSpec => []RInv
  <1>1. Init => RInv
    BY InitIInv, InitReach DEF RInv
  <1>2. RInv /\ [OrderlyRestartNext]_vars => RInv'
    BY NextRInv
  <1> QED
    BY <1>1, <1>2, PTL DEF OrderlyRestartSpec
=============================================================================
