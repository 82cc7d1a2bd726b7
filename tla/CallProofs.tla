----------------------------- MODULE CallProofs -----------------------------
(***************************************************************************)
(* What the calls in progress achieve: proofs, for every net and all       *)
(* bounds, that completion is signalled once and in time, that joins fire  *)
(* once, on an instance that survives what it cancels, that no call works  *)
(* on a task that has been removed (unless a join is part of a loop), that *)
(* no call leaves a FUTURE task behind that it should have updated, that   *)
(* what is completed stays, what a mutex protects, and that no state goes  *)
(* backwards.                                                              *)
(***************************************************************************)
EXTENDS ThreadProofs

-----------------------------------------------------------------------------
(* completed_event.  Only one frame can signal completion: the one at the  *)
(* bottom of the stack.  So when it does the call is over, and afterwards  *)
(* CompletedStays.                                                         *)

SignalInv ==
    resets = 0 /\ completions > 0 => completions = 1 /\ IsCompleted(tasks) /\ Walking

\* What completes a task, or has completed it, is at the bottom of the stack.
LEMMA BottomAlone ==
  ASSUME IInv, ReachInv, Doing("complete") \/ Doing("finish")
  PROVE  Len(calls) = 1 /\ Tail(calls) = <<>>
  <1>1. calls # <<>> /\ calls \in Seq(FrameType) /\ calls[1].op \in {"complete", "finish"}
    BY IInvSplit DEF Doing
  <1>2. Len(calls) \in Nat \ {0} /\ DOMAIN calls = 1..Len(calls)
    BY <1>1
  <1>3. CASE Len(calls) > 1
    <2>1. 1 \in DOMAIN calls /\ 2 \in DOMAIN calls
      BY <1>2, <1>3
    <2>2. calls[1].op \in Over(calls[2].op)
      BY <2>1 DEF ReachInv, Ordered
    <2>3. calls[2].op \in Ops
      <3>1. calls[2] \in FrameType
        BY <1>1, <2>1
      <3> QED
        BY <3>1 DEF FrameType
    <2> QED
      BY <1>1, <2>2, <2>3, OverOps
  <1>4. CASE Len(calls) = 1
    <2>1. Tail(calls) \in Seq(FrameType) /\ Len(Tail(calls)) = 0
      BY <1>1, <1>4, HeadTailProperties
    <2> QED
      BY <1>4, <2>1, EmptySeq
  <1> QED
    BY <1>2, <1>3, <1>4

\* What signals completion is the last thing a call does.
LEMMA FinishIsLast == ASSUME IInv, ReachInv, Finish PROVE calls' = <<>>
  BY BottomAlone DEF Finish, Return

LEMMA NextSignalInv ==
  ASSUME IInv, ReachInv, SignalInv, [OrderlyNext]_vars
  PROVE  SignalInv'
  <1> SUFFICES ASSUME resets' = 0, completions' > 0
               PROVE  completions' = 1 /\ IsCompleted(tasks') /\ Walking'
    BY DEF SignalInv, IsCompleted, InState
  <1>1. OthersTyped
    BY IInvSplit
  <1>2. resets = 0 /\ resets' = resets
    BY <1>1, ResetsCount, OrderlyIsNext DEF OthersTyped
  <1>3. CASE completions > 0
    BY <1>2, <1>3, CompletedStays, OrderlyIsNext DEF SignalInv
  <1>4. CASE ~(completions > 0)
    <2>1. completions = 0 /\ completions' # completions
      BY <1>1, <1>4 DEF OthersTyped
    <2>2. Finish
      BY <2>1, OrderlyResetGoesBack DEF OrderlyNext, vars, counters, Step, Predict, UpdateSimple, UpdateFails,
         UpdateExecute, UpdateGate, UpdateAcquire, UpdateJoin, CancelNext, JoinFires,
         CompleteTask, ChildrenNext, VisitNext, Run, RunTask, RunSimple, RunFails,
         RunMultiChoice, RunExclusiveChoice, RunMultiInstance, RunThreadSplit,
         RunThreadStart, RunReleaseMutex, RunCancel, RunCancelTask, UpdateWaitingTasks,
         Cancel, GoBack
    <2>3. IsCompleted(tasks) /\ completions' = 1 /\ UNCHANGED tasks
      BY <2>1, <2>2 DEF Finish
    <2>4. Walking'
      BY <2>2, FinishIsLast DEF Walking
    <2> QED
      BY <2>3, <2>4
  <1> QED
    BY <1>3, <1>4

\* However many calls come close to the end, completed_event is called once, by the
\* one that finds nothing unfinished, and nothing unfinished appears afterwards.
THEOREM NeverSignalledEarly == OrderlySpec => []SignalledInTime
  <1>1. Init => SignalInv
    BY DEF Init, SignalInv
  <1>2. IInv /\ ReachInv /\ SignalInv /\ [OrderlyNext]_vars => SignalInv'
    BY NextSignalInv
  <1>3. IInv /\ SignalInv => SignalledInTime
    BY IInvSplit DEF SignalInv, SignalledInTime, OthersTyped
  <1> QED
    BY <1>1, <1>2, <1>3, ReachAlways, PTL DEF OrderlySpec
-----------------------------------------------------------------------------
(* Joins.  An instance fires when DoJoin has cancelled its rivals, and no  *)
(* other step makes an instance READY or completes one that was not READY, *)
(* but a ThreadStart: its children are READY at once, in a thread in which *)
(* nothing has been done before.                                           *)

FiredIn(T) == {j \in InState(T, {"READY", "COMPLETED"}) : Kind(T[j].spec) = "Join"}
OnceIn(T)  == \A j, k \in FiredIn(T) : Rivals(T, j, k) => j = k

\* A join that completes is READY, and nothing else is done meanwhile.
JoinsComplete ==
    \A a \in Completing(calls) \intersect DOMAIN tasks :
        Kind(tasks[a].spec) = "Join" => Sole(calls) /\ tasks[a].state = "READY"

JoinInv == OnceIn(tasks) /\ JoinsComplete

SameSpecs(T, U) == \A d \in DOMAIN T \intersect DOMAIN U : U[d].spec = T[d].spec

\* As long as a join is in the tree, so is all that is before it: it stays below the
\* same split.
LEMMA SplitStays ==
  ASSUME NEW T, NEW U, Tree(T, Specs), Tree(U, Specs), SameSpecs(T, U),
         NEW j \in DOMAIN T \intersect DOMAIN U
  PROVE  SplitTask(U, j) = SplitTask(T, j) /\ (Unstructured(U, j) <=> Unstructured(T, j))
  <1> DEFINE s == Net[T[j].spec].split
  <1>1. U[j].spec = T[j].spec
    BY DEF SameSpecs
  <1>2. ASSUME NEW a
        PROVE  a \in OfSpec(U, s) /\ Above(a, j) <=> a \in OfSpec(T, s) /\ Above(a, j)
    <2>1. Above(a, j) => (a \in DOMAIN T <=> a \in DOMAIN U)
      BY StateTyped, AncestorsLive
    <2> QED
      BY <2>1 DEF SameSpecs, OfSpec
  <1> HIDE DEF s
  <1>3. Nearest(U, j, s) = Nearest(T, j, s)
    BY <1>2 DEF Nearest
  <1> QED
    BY <1>1, <1>3 DEF SplitTask, Unstructured, s

LEMMA RivalsStay ==
  ASSUME NEW T, NEW U, Tree(T, Specs), Tree(U, Specs), SameSpecs(T, U),
         NEW j \in DOMAIN T \intersect DOMAIN U, NEW k \in DOMAIN T \intersect DOMAIN U,
         T[j].thread = U[j].thread, T[k].thread = U[k].thread
  PROVE  Rivals(U, j, k) <=> Rivals(T, j, k)
  BY SplitStays DEF Rivals, SameSpecs

\* If no instance fires that had not fired, none fires that must not.
LEMMA OnceStays ==
  ASSUME NEW T, NEW U, Tree(T, Specs), Tree(U, Specs), SameSpecs(T, U), OnceIn(T),
         \A d \in FiredIn(U) : d \in FiredIn(T) /\ U[d].thread = T[d].thread
  PROVE  OnceIn(U)
  <1> SUFFICES ASSUME NEW j \in FiredIn(U), NEW k \in FiredIn(U), Rivals(U, j, k)
               PROVE  j = k
    BY DEF OnceIn
  <1>1. /\ j \in DOMAIN T \intersect DOMAIN U /\ k \in DOMAIN T \intersect DOMAIN U
        /\ j \in FiredIn(T) /\ k \in FiredIn(T)
    BY DEF FiredIn, InState
  <1>2. Rivals(T, j, k)
    BY <1>1, RivalsStay
  <1> QED
    BY <1>1, <1>2 DEF OnceIn

LEMMA GentleOnce ==
  ASSUME NEW T, NEW U, Tree(T, Specs), Tree(U, Specs), Gentle(T, U), OnceIn(T)
  PROVE  OnceIn(U)
  <1>1. SameSpecs(T, U)
    BY DEF SameSpecs, Gentle, Handed
  <1>2. \A d \in FiredIn(U) : d \in FiredIn(T) /\ U[d].thread = T[d].thread
    BY DEF FiredIn, InState, Gentle, Handed, NoneFires
  <1> QED
    BY <1>1, <1>2, OnceStays

LEMMA GentleJoins ==
  ASSUME IInv, IInv', ReachInv, JoinInv, Gently, ~Doing("complete")
  PROVE  JoinInv'
  <1>1. OnceIn(tasks')
    BY IInvSplit, IInvSplitPrime, GentleOnce DEF Gently, JoinInv
  <1>2. ASSUME NEW a \in Completing(calls'), a \in DOMAIN tasks', Kind(tasks'[a].spec) = "Join"
        PROVE  FALSE
    <2>1. a \in Completing(calls) /\ a \in DOMAIN tasks
      BY <1>2, CompletingKnown DEF Gently, Gentle
    <2>2. Kind(tasks[a].spec) = "Join"
      BY <1>2, <2>1 DEF Gently, Gentle, Handed
    <2> QED
      BY <2>1, <2>2 DEF JoinInv, JoinsComplete, Sole, Doing
  <1> QED
    BY <1>1, <1>2 DEF JoinInv, JoinsComplete

\* The instance on which the join fires is the only one of its rivals that is left,
\* for one that is behind it has not been reached.
LEMMA JoinFiresJoins ==
  ASSUME IInv, IInv', ReachInv, JoinInv, JoinFires
  PROVE  JoinInv'
  <1> DEFINE j == Top.task
  <1>1. /\ calls # <<>> /\ Return /\ j \in DOMAIN tasks /\ Top.op = "join"
        /\ Tree(tasks, Specs) /\ Tree(tasks', Specs)
    BY IInvSplit, IInvSplitPrime DEF JoinFires, Doing, Top
  <1>2. Reach(tasks) /\ (tasks[j].state \in FINISHED => tasks[j].state = "CANCELLED")
    BY <1>1, InProgress, StatesDiffer DEF FrameOK, LiveIn
  <1>3. PICK V : /\ Tree(V, Specs) /\ Same(tasks, V)
                 /\ tasks' = Ready(V, j)
                 /\ \A d \in OtherInstances(tasks, j) \intersect DOMAIN V :
                       V[d].state = "CANCELLED"
                 /\ \A d \in DOMAIN V : V[d].state = tasks[d].state \/ V[d].state = "CANCELLED"
    BY JoinFiresParts
  <1>4. OnceIn(V) /\ SameSpecs(tasks, V) /\ DOMAIN V \subseteq DOMAIN tasks
    BY <1>1, <1>3, SameGentle, GentleOnce DEF JoinInv, Same, SameSpecs
  <1>5. ASSUME tasks' = V PROVE OnceIn(tasks')
    BY <1>4, <1>5
  <1>6. ASSUME tasks' # V PROVE OnceIn(tasks')
    <2>1. /\ j \in DOMAIN V /\ V[j].state # "CANCELLED"
          /\ tasks' = SetState(V, {j}, "READY")
      BY <1>3, <1>6 DEF Ready, In
    <2>2. /\ DOMAIN tasks' = DOMAIN V
          /\ \A d \in DOMAIN V : /\ tasks'[d].spec = V[d].spec /\ tasks'[d].thread = V[d].thread
                                 /\ d # j => tasks'[d].state = V[d].state
      BY <1>3, <2>1, SetStateEffect
    <2>3. SameSpecs(V, tasks') /\ SameSpecs(tasks, tasks')
      BY <1>4, <2>2 DEF SameSpecs
    <2>4. \A d \in FiredIn(tasks') \ {j} : d \in FiredIn(V)
      BY <2>2 DEF FiredIn, InState
    <2>5. ASSUME NEW k \in FiredIn(tasks'), k # j PROVE ~Rivals(tasks', j, k)
      <3> SUFFICES ASSUME Rivals(tasks', j, k) PROVE FALSE
        OBVIOUS
      <3>1. k \in DOMAIN V /\ k \in DOMAIN tasks /\ k \in FiredIn(V)
        BY <1>4, <2>4, <2>5 DEF FiredIn, InState
      <3>2. V[k].state # "CANCELLED" /\ tasks[k].state \in {"READY", "COMPLETED"}
        BY <1>3, <3>1 DEF FiredIn, InState, In
      <3>3. tasks[j].thread = tasks'[j].thread /\ tasks[k].thread = tasks'[k].thread
        BY <1>3, <2>1, <2>2, <3>1 DEF Same
      <3>4. Rivals(tasks, j, k)
        BY <1>1, <2>1, <2>2, <2>3, <3>1, <3>3, RivalsStay
      <3>5. k \in Instances(tasks, j, tasks[j].spec) \ {j}
        BY <2>5, <3>1, <3>4 DEF Instances, OfSpec, Rivals
      <3>6. \/ Unstructured(tasks, j)
            \/ SplitTask(tasks, j) = {}
            \/ \E s \in SplitTask(tasks, j) : s = k \/ Above(s, k)
        <4>1. \A s \in SplitTask(tasks, k) : Above(s, k)
          BY DEF SplitTask, Nearest
        <4> QED
          BY <3>4, <4>1 DEF Rivals
      <3>7. ~Above(j, k)
        <4>1. Above(j, k) => tasks[j].state \in FINISHED
          BY <1>1, <1>2, <3>1, <3>2 DEF Reach, Attached, REACHED
        <4>2. tasks[j].state = "CANCELLED" => V[j].state = "CANCELLED"
          BY <1>3, <2>1
        <4> QED
          BY <1>2, <2>1, <4>1, <4>2
      <3>8. k \in OtherInstances(tasks, j)
        BY <3>5, <3>6, <3>7 DEF OtherInstances
      <3> QED
        BY <1>3, <3>1, <3>2, <3>8
    <2>6. ASSUME NEW x \in FiredIn(tasks'), NEW y \in FiredIn(tasks'), Rivals(tasks', x, y)
          PROVE  x = y
      <3>1. CASE x = j
        BY <2>5, <2>6, <3>1
      <3>2. CASE y = j
        <4>1. Rivals(tasks', y, x)
          BY <2>6 DEF Rivals, Unstructured
        <4> QED
          BY <2>5, <3>2, <4>1
      <3>3. CASE x # j /\ y # j
        <4>1. x \in FiredIn(V) /\ y \in FiredIn(V) /\ x \in DOMAIN V /\ y \in DOMAIN V
          BY <2>4, <3>3 DEF FiredIn, InState
        <4>2. Rivals(V, x, y)
          BY <1>1, <1>3, <2>2, <2>3, <2>6, <4>1, RivalsStay
        <4> QED
          BY <1>4, <4>1, <4>2 DEF OnceIn
      <3> QED
        BY <3>1, <3>2, <3>3
    <2> QED
      BY <2>6 DEF OnceIn
  <1>7. ASSUME NEW a \in Completing(calls'), a \in DOMAIN tasks', Kind(tasks'[a].spec) = "Join"
        PROVE  FALSE
    <2>1. a \in Completing(calls)
      BY <1>1, <1>7, ReturnCompleting
    <2>2. a \in DOMAIN V /\ tasks'[a].spec = V[a].spec
      BY <1>3, <1>7, SetStateEffect DEF Ready
    <2>3. a \in DOMAIN tasks /\ Kind(tasks[a].spec) = "Join"
      BY <1>3, <1>7, <2>2 DEF Same
    <2> QED
      BY <1>1, <2>1, <2>3 DEF JoinInv, JoinsComplete, Sole, Top
  <1> QED
    BY <1>5, <1>6, <1>7 DEF JoinInv, JoinsComplete

LEMMA CompleteTaskJoins ==
  ASSUME IInv, IInv', ReachInv, JoinInv, CompleteTask
  PROVE  JoinInv'
  <1> DEFINE t == Top.task
             f == Frame("children", t, Children(tasks, t))
             g == Frame("visit", t, {Root})
             h == Frame("finish", t, {})
  <1>1. /\ calls # <<>> /\ Doing("complete")
        /\ tasks' = SetState(tasks, {t}, "COMPLETED")
        /\ calls' = <<f, g, h>> \o Tail(calls)
    BY DEF CompleteTask, Doing, ReturnTo
  <1>2. Tree(tasks, Specs) /\ Tree(tasks', Specs) /\ calls \in Seq(FrameType)
    BY IInvSplit, IInvSplitPrime
  <1>3. t \in Completing(calls)
    <2>1. 1 \in DOMAIN calls /\ Top = calls[1] /\ Top.op = "complete"
      BY <1>1, <1>2 DEF Top, Doing
    <2> QED
      BY <2>1 DEF Completing
  <1>4. Completing(calls') = {}
    <2>1. f.op = "children" /\ g.op = "visit" /\ h.op = "finish"
      BY DEF Frame
    <2> HIDE DEF f, g, h
    <2>2. calls' = <<f, g, h>>
      <3>1. <<f, g, h>> \in Seq({f, g, h})
        OBVIOUS
      <3>2. Tail(calls) = <<>>
        BY <1>1, BottomAlone
      <3> QED
        BY <1>1, <3>1, <3>2, ConcatEmptySeq
    <2>3. \A i \in DOMAIN calls' : calls'[i] \in {f, g, h}
      BY <2>2
    <2> QED
      BY <2>1, <2>3 DEF Completing
  <1>5. /\ DOMAIN tasks' = DOMAIN tasks
        /\ \A d \in DOMAIN tasks : /\ tasks'[d].spec = tasks[d].spec
                                   /\ tasks'[d].thread = tasks[d].thread
                                   /\ d # t => tasks'[d].state = tasks[d].state
    BY <1>1, <1>2, SetStateEffect
  <1>6. t \in DOMAIN tasks /\ Kind(tasks[t].spec) = "Join" => tasks[t].state = "READY"
    BY <1>3 DEF JoinInv, JoinsComplete
  <1>7. \A d \in FiredIn(tasks') : d \in FiredIn(tasks) /\ tasks'[d].thread = tasks[d].thread
    BY <1>5, <1>6 DEF FiredIn, InState, In
  <1>8. OnceIn(tasks')
    BY <1>2, <1>5, <1>7, OnceStays DEF SameSpecs, JoinInv
  <1> QED
    BY <1>4, <1>8 DEF JoinInv, JoinsComplete

LEMMA RunsJoins ==
  ASSUME IInv, IInv', ReachInv, JoinInv, NEW t \in DOMAIN tasks, RunsGently(t),
         tasks[t].state = "READY"
  PROVE  JoinInv'
  <1>1. OnceIn(tasks')
    BY IInvSplit, IInvSplitPrime, GentleOnce DEF RunsGently, JoinInv
  <1>2. ASSUME NEW a \in Completing(calls'), a \in DOMAIN tasks', Kind(tasks'[a].spec) = "Join"
        PROVE  Sole(calls') /\ tasks'[a].state = "READY"
    <2>1. a = t /\ Kind(tasks[t].spec) = "Join" /\ calls' # <<>>
      BY <1>2 DEF RunsGently, Gentle, Handed, Completing
    <2>2. calls' = <<Frame("complete", t, {})>> /\ UNCHANGED tasks
      BY <2>1 DEF RunsGently
    <2> QED
      BY <2>1, <2>2 DEF Sole, Frame
  <1> QED
    BY <1>1, <1>2 DEF JoinInv, JoinsComplete

\* The children that _sync_children leaves: those that match an output, and one for
\* every output that no child has matched.
LEMMA SyncedChildren ==
  ASSUME NEW T, Tree(T, Specs), NEW t \in DOMAIN T, NEW n \in Nat, NEW outs, Gapped(outs, n),
         NEW state \in ANY, NEW c \in Children(SyncChildren(T, t, outs, n, state), t)
  PROVE  LET U == SyncChildren(T, t, outs, n, state)
         IN  \/ c \in Kept(T, t, outs, n) /\ U[c].spec = T[c].spec
             \/ \E i \in Missing(T, t, outs) : c = Append(t, T[t].born + i) /\ U[c].spec = outs[i]
  <1> DEFINE kept  == Kept(T, t, outs, n)
             miss  == Missing(T, t, outs)
             set   == SetState(T, kept \intersect InState(T, NOT_FINISHED), state)
             gone  == Children(T, t) \ kept
             old   == RemoveBranches(set, gone)
             new   == [i \in miss |-> outs[i]]
             added == {Append(t, old[t].born + i) : i \in miss}
             U     == AddChildren(old, t, new, n, state)
  <1>1. t \in Path /\ c # Root /\ Parent(c) = t /\ c \in DOMAIN U
    BY StateTyped DEF Children, SyncChildren
  <1>2. /\ DOMAIN set = DOMAIN T
        /\ \A d \in DOMAIN T : set[d].spec = T[d].spec /\ set[d].born = T[d].born
    BY SetStateEffect
  <1>3. \A r \in gone : r # Root /\ r # t /\ ~Above(r, t) /\ r \in Path
    BY <1>1, ChildDeeper DEF Tree
  <1>4. c \in DOMAIN T => c \in kept \/ c \in gone
    BY <1>1 DEF Children
  <1>5. Tree(set, Specs)
    BY SetStateTree
  <1> HIDE DEF kept, set, gone
  <1>6. /\ t \in DOMAIN old /\ DOMAIN old \subseteq DOMAIN set
        /\ \A d \in DOMAIN old : old[d] = set[d] /\ d \notin gone
    <2>1. gone \in SUBSET Path /\ Root \notin gone
      BY <1>3
    <2>2. \A d \in DOMAIN old : d \notin gone
      BY DEF RemoveBranches
    <2> QED
      BY <1>2, <1>3, <1>5, <2>1, <2>2, RemoveBranchesTree
  <1> HIDE DEF old
  <1>7. old[t].born = T[t].born /\ T[t].born \in Nat
    BY <1>2, <1>6 DEF Tree, IsTree, TaskType
  <1>8. \A i \in miss : i \in Nat
    BY DEF Missing, Gapped
  <1>9. DOMAIN new = miss
    OBVIOUS
  <1>10. DOMAIN U = DOMAIN old \union added
    BY <1>9 DEF AddChildren
  <1>11. CASE c \in added
    <2>1. PICK i \in miss : c = Append(t, old[t].born + i)
      BY <1>11
    <2>2. old[t].born + i \in Nat /\ (old[t].born + i) - old[t].born = i
      BY <1>7, <1>8, <2>1
    <2>3. Slot(c) - old[t].born = i
      BY <1>1, <2>1, <2>2, AppendPath
    <2>4. U[c].spec = new[i]
      BY <1>9, <1>10, <1>11, <2>3 DEF AddChildren
    <2> QED
      BY <1>7, <2>1, <2>4 DEF SyncChildren, kept, set, gone, old
  <1>12. CASE c \notin added
    <2>1. c \in DOMAIN old /\ c # t
      BY <1>1, <1>10, <1>12, AppendPath, ParentPath, PathLength
    <2>2. U[c] = old[c]
      BY <1>9, <1>10, <1>12, <2>1 DEF AddChildren
    <2>3. U[c].spec = T[c].spec /\ c \in kept
      BY <1>2, <1>4, <1>6, <2>1, <2>2
    <2> QED
      BY <2>3 DEF SyncChildren, kept, set, gone, old
  <1> QED
    BY <1>11, <1>12

\* The siblings differ in their slots.
LEMMA ChildrenFinite ==
  ASSUME NEW T, Tree(T, Specs), NEW t \in DOMAIN T
  PROVE  /\ \A a, b \in Children(T, t) : Slot(a) = Slot(b) => a = b
         /\ \A a \in Children(T, t) : Slot(a) \in Nat
         /\ \A S \in SUBSET Children(T, t) : IsFiniteSet(S) /\ Cardinality(S) \in Nat
  <1>1. T[t].born \in Nat
    BY DEF Tree, IsTree, TaskType
  <1>2. \A a \in Children(T, t) : /\ a \in Path /\ a # Root /\ Parent(a) = t
                                 /\ Slot(a) \in 1..T[t].born
    BY DEF Tree, IsTree, Closed, Children
  <1>3. ASSUME NEW a \in Children(T, t), NEW b \in Children(T, t), Slot(a) = Slot(b)
        PROVE  a = b
    <2>1. /\ a \in Path /\ b \in Path /\ Len(a) \in Nat /\ Len(b) \in Nat
          /\ Len(t) = Len(a) - 1 /\ Len(t) = Len(b) - 1
          /\ \A i \in 1..Len(t) : t[i] = a[i] /\ t[i] = b[i]
      BY <1>2, ParentPath, PathLength
    <2>2. Len(a) = Len(b) /\ \A i \in 1..Len(a) : a[i] = b[i]
      BY <1>3, <2>1 DEF Slot
    <2> QED
      BY <2>1, <2>2, SeqEqual DEF Path
  <1>4. ASSUME NEW S \in SUBSET Children(T, t)
        PROVE  IsFiniteSet(S) /\ Cardinality(S) \in Nat
    <2> DEFINE f == [a \in S |-> Slot(a)]
    <2>1. f \in Injection(S, 1..T[t].born)
      BY <1>2, <1>3 DEF Injection, IsInjective
    <2>2. IsFiniteSet(1..T[t].born)
      BY <1>1, FS_Interval
    <2> HIDE DEF f
    <2> QED
      BY <2>1, <2>2, FS_Injection, FS_CardinalityType
  <1> QED
    BY <1>1, <1>2, <1>3, <1>4

LEMMA AtMostOne ==
  ASSUME NEW S
  PROVE  /\ (\A x, y \in S : x = y) => IsFiniteSet(S) /\ Cardinality(S) \in {0, 1}
         /\ IsFiniteSet(S) /\ Cardinality(S) = 0 => S = {}
         /\ IsFiniteSet(S) /\ Cardinality(S) \in {0, 1} => \A x, y \in S : x = y
  <1>1. ASSUME \A x, y \in S : x = y PROVE IsFiniteSet(S) /\ Cardinality(S) \in {0, 1}
    <2>1. S = {} \/ \E x : S = {x}
      BY <1>1
    <2> QED
      BY <2>1, FS_EmptySet, FS_Singleton
  <1> QED
    BY <1>1, FS_EmptySet, FS_Singleton

Older(T, t, b)     == {a \in Children(T, t) : T[a].spec = T[b].spec /\ Slot(a) <= Slot(b)}
Named(T, t, s)     == {a \in Children(T, t) : T[a].spec = s}
Places(outs, s, k) == {i \in DOMAIN outs : i <= k /\ outs[i] = s}

\* No two of them are of one spec if no output is connected twice.
LEMMA SyncOnce ==
  ASSUME NEW T, Tree(T, Specs), NEW t \in DOMAIN T, NEW n \in Nat, NEW outs, Gapped(outs, n),
         \A i, k \in DOMAIN outs : outs[i] = outs[k] => i = k,
         NEW state \in ANY,
         NEW c \in Children(SyncChildren(T, t, outs, n, state), t),
         NEW d \in Children(SyncChildren(T, t, outs, n, state), t),
         SyncChildren(T, t, outs, n, state)[c].spec = SyncChildren(T, t, outs, n, state)[d].spec
  PROVE  c = d
  <1> DEFINE U == SyncChildren(T, t, outs, n, state)
  <1>1. \A s, k : Cardinality(Places(outs, s, k)) \in {0, 1}
    <2> TAKE s, k
    <2>1. \A x, y \in Places(outs, s, k) : x = y
      BY DEF Places
    <2> QED
      BY <2>1, AtMostOne
  <1>2. /\ \A b : IsFiniteSet(Older(T, t, b)) /\ Cardinality(Older(T, t, b)) \in Nat
        /\ \A s : IsFiniteSet(Named(T, t, s)) /\ Cardinality(Named(T, t, s)) \in Nat
    <2>1. /\ \A b : Older(T, t, b) \in SUBSET Children(T, t)
          /\ \A s : Named(T, t, s) \in SUBSET Children(T, t)
      BY DEF Older, Named
    <2> QED
      BY <2>1, ChildrenFinite
  \* A child is matched if it is the oldest of its spec.
  <1>3. ASSUME NEW b \in Kept(T, t, outs, n)
        PROVE  b \in Children(T, t) /\ \A x, y \in Older(T, t, b) : x = y
    <2>1. /\ b \in Children(T, t)
          /\ Cardinality(Older(T, t, b)) <= Cardinality(Places(outs, T[b].spec, n))
      BY DEF Kept, Occurrences, Older, Places
    <2>2. Cardinality(Older(T, t, b)) \in {0, 1}
      BY <1>1, <1>2, <2>1
    <2> QED
      BY <1>2, <2>1, <2>2, AtMostOne
  <1>4. ASSUME NEW a \in Kept(T, t, outs, n), NEW b \in Kept(T, t, outs, n),
               T[a].spec = T[b].spec, Slot(a) <= Slot(b)
        PROVE  a = b
    <2>1. /\ a \in Children(T, t) /\ b \in Children(T, t)
          /\ \A x, y \in Older(T, t, b) : x = y
      BY <1>3
    <2>2. Slot(b) \in Nat
      BY <2>1, ChildrenFinite
    <2>3. a \in Older(T, t, b) /\ b \in Older(T, t, b)
      BY <1>4, <2>1, <2>2 DEF Older
    <2> QED
      BY <2>1, <2>3
  \* What is missing has no child yet.
  <1>5. ASSUME NEW i \in Missing(T, t, outs) PROVE Named(T, t, outs[i]) = {}
    <2>1. Cardinality(Places(outs, outs[i], i)) > Cardinality(Named(T, t, outs[i]))
      BY DEF Missing, Occurrences, Places, Named
    <2>2. Cardinality(Named(T, t, outs[i])) = 0
      BY <1>1, <1>2, <2>1
    <2> QED
      BY <1>2, <2>2, AtMostOne
  <1> HIDE DEF U
  <1> DEFINE isKept(b) == b \in Kept(T, t, outs, n) /\ U[b].spec = T[b].spec
             isNew(b)  == \E i \in Missing(T, t, outs) :
                             b = Append(t, T[t].born + i) /\ U[b].spec = outs[i]
  <1>6. (isKept(c) \/ isNew(c)) /\ (isKept(d) \/ isNew(d)) /\ U[c].spec = U[d].spec
    BY SyncedChildren DEF U
  <1>7. ASSUME NEW a, NEW b, isKept(a), isNew(b), U[a].spec = U[b].spec PROVE FALSE
    <2>1. PICK i \in Missing(T, t, outs) : U[b].spec = outs[i]
      BY <1>7
    <2>2. a \in Named(T, t, outs[i])
      BY <1>3, <1>7, <2>1 DEF Named
    <2> QED
      BY <1>5, <2>2
  <1>8. ASSUME isNew(c), isNew(d) PROVE c = d
    <2>1. PICK i \in Missing(T, t, outs) : c = Append(t, T[t].born + i) /\ U[c].spec = outs[i]
      BY <1>8
    <2>2. PICK k \in Missing(T, t, outs) : d = Append(t, T[t].born + k) /\ U[d].spec = outs[k]
      BY <1>8
    <2>3. i = k
      BY <1>6, <2>1, <2>2 DEF Missing
    <2> QED
      BY <2>1, <2>2, <2>3
  <1>9. ASSUME isKept(c), isKept(d) PROVE c = d
    <2>1. Slot(c) \in Nat /\ Slot(d) \in Nat /\ T[c].spec = T[d].spec
      BY <1>3, <1>6, <1>9, ChildrenFinite
    <2>2. Slot(c) <= Slot(d) \/ Slot(d) <= Slot(c)
      BY <2>1
    <2> QED
      BY <1>4, <1>9, <2>1, <2>2
  <1> HIDE DEF isKept, isNew
  <1> QED
    BY <1>6, <1>7, <1>8, <1>9

\* The children of a ThreadStart are READY in a thread of which they are the first,
\* and each of another spec.
LEMMA ThreadStartOnce ==
  ASSUME NEW T, Tree(T, Specs), NEW t \in DOMAIN T, NEW n \in Nat, OnceIn(T),
         \A d \in DOMAIN T : T[d].thread = n <=> d \in Branch(T, t),
         \A d \in Branch(T, t) : d \notin FiredIn(T)
  PROVE  LET outs == Outputs(T[t].spec)
         IN  OnceIn(SyncChildren(T, t, outs, Len(outs), "READY"))
  <1> DEFINE outs == Outputs(T[t].spec)
             U    == SyncChildren(T, t, outs, Len(outs), "READY")
  <1>1. /\ Gapped(outs, Len(outs)) /\ Len(outs) \in Nat
        /\ \A i, k \in DOMAIN outs : outs[i] = outs[k] => i = k
    BY OutputsGapped, NetTyped, NetAssumption, StateTyped DEF Outputs
  <1>2. "READY" \in ANY /\ t \in Branch(T, t)
    BY MasksTyped DEF Branch
  <1>3. Tree(U, Specs) /\ Grown(T, U, t, {"READY"})
    BY <1>1, <1>2, SyncChildrenTree DEF Gapped
  <1>4. ASSUME NEW c \in Children(U, t), NEW d \in Children(U, t), U[c].spec = U[d].spec
        PROVE  c = d
    BY <1>1, <1>2, <1>4, SyncOnce
  <1> HIDE DEF U, outs
  <1>5. SameSpecs(T, U)
    BY <1>3 DEF Grown, SameSpecs
  <1>6. ASSUME NEW d \in Children(U, t) PROVE U[d].thread = n
    <2>1. CASE d \in DOMAIN T
      <3>1. d \in Branch(T, t)
        BY <1>2, <1>6, <2>1, BranchChild DEF Children
      <3> QED
        BY <1>3, <1>6, <2>1, <3>1 DEF Grown, Children
    <2>2. CASE d \notin DOMAIN T
      BY <1>2, <1>3, <1>6, <2>2 DEF Grown, Children
    <2> QED
      BY <2>1, <2>2
  <1>7. ASSUME NEW d \in FiredIn(U), d \notin Children(U, t)
        PROVE  d \in DOMAIN T /\ d \in DOMAIN U /\ d \in FiredIn(T) /\ U[d].thread = T[d].thread /\ U[d].thread # n
    <2>1. d \in DOMAIN U /\ d \in DOMAIN T
      BY <1>3, <1>7 DEF Grown, Children, FiredIn, InState
    <2>2. U[d].state = T[d].state /\ U[d].spec = T[d].spec /\ U[d].thread = T[d].thread
      BY <1>3, <1>7, <2>1 DEF Grown, Children
    <2>3. d \in FiredIn(T)
      BY <1>7, <2>1, <2>2 DEF FiredIn, InState, In
    <2> QED
      BY <2>1, <2>2, <2>3
  <1>8. ASSUME NEW x \in FiredIn(U), NEW y \in FiredIn(U), Rivals(U, x, y)
        PROVE  x = y
    <2>1. U[x].spec = U[y].spec /\ U[x].thread = U[y].thread
      BY <1>8 DEF Rivals
    <2>2. CASE x \in Children(U, t) /\ y \in Children(U, t)
      BY <1>4, <2>1, <2>2
    <2>3. CASE x \notin Children(U, t) /\ y \notin Children(U, t)
      <3>1. Rivals(T, x, y)
        BY <1>3, <1>5, <1>7, <1>8, <2>3, RivalsStay
      <3> QED
        BY <1>7, <2>3, <3>1 DEF OnceIn
    <2> QED
      BY <1>6, <1>7, <2>1, <2>2, <2>3
  <1>9. OnceIn(U)
    BY <1>8 DEF OnceIn
  <1> QED
    BY <1>9 DEF U, outs

LEMMA RunThreadStartJoins ==
  ASSUME IInv, IInv', ReachInv, ThreadInv, JoinInv, NEW t \in DOMAIN tasks, RunThreadStart(t)
  PROVE  JoinInv'
  <1> DEFINE T    == AssignThread(tasks, t, threads + 1)
             outs == Outputs(tasks[t].spec)
  <1>1. /\ Tree(tasks, Specs) /\ Reach(tasks) /\ t \in Path
        /\ tasks[t].state = "READY" /\ Kind(tasks[t].spec) = "ThreadStart"
        /\ threads \in Nat /\ Tree(tasks', Specs) /\ calls = <<>>
    BY RunnableReach, IInvSplit, IInvSplitPrime DEF RunThreadStart, OthersTyped
  <1>2. /\ Tree(T, Specs) /\ DOMAIN T = DOMAIN tasks
        /\ \A d \in DOMAIN tasks :
              /\ T[d].state = tasks[d].state /\ T[d].spec = tasks[d].spec
              /\ T[d].thread = IF d \in Branch(tasks, t) THEN threads + 1 ELSE tasks[d].thread
    BY <1>1, AssignThreadTree
  <1>3. \/ tasks' = SetState(T, {t}, "ERROR") /\ calls' = <<>>
        \/ tasks' = SyncChildren(T, t, outs, Len(outs), "READY") /\ RunWith(t, <<>>)
    BY <1>1 DEF RunThreadStart
  <1> HIDE DEF T
  <1>4. \A d \in DOMAIN tasks : tasks[d].thread \in 0..threads
    BY DEF ThreadInv, Threaded
  <1>5. \A d \in Branch(tasks, t) : d \notin FiredIn(tasks)
    <2> SUFFICES ASSUME NEW d \in Branch(tasks, t), d \in FiredIn(tasks) PROVE FALSE
      OBVIOUS
    <2>1. d # t /\ d \in DOMAIN tasks /\ Above(t, d) /\ tasks[d].state \in REACHED
      BY <1>1 DEF FiredIn, InState, In, Branch, Below, REACHED
    <2>2. tasks[t].state \in FINISHED
      BY <1>1, <2>1 DEF Reach, Attached
    <2> QED
      BY <1>1, <2>2, StatesDiffer
  <1>6. FiredIn(T) = FiredIn(tasks) /\ Branch(T, t) = Branch(tasks, t)
    BY <1>2 DEF FiredIn, InState, In, Branch, Below
  <1>7. OnceIn(T)
    <2>1. \A d \in FiredIn(T) : d \in FiredIn(tasks) /\ T[d].thread = tasks[d].thread
      BY <1>2, <1>5, <1>6 DEF FiredIn, InState
    <2> QED
      BY <1>1, <1>2, <2>1, OnceStays DEF JoinInv, SameSpecs
  <1>8. OnceIn(tasks')
    <2>1. CASE tasks' = SetState(T, {t}, "ERROR")
      BY <1>1, <1>2, <1>7, <2>1, SetSame, SameGentle, GentleOnce
    <2>2. CASE tasks' = SyncChildren(T, t, outs, Len(outs), "READY")
      <3>1. \A d \in DOMAIN T : T[d].thread = threads + 1 <=> d \in Branch(T, t)
        BY <1>1, <1>2, <1>4, <1>6
      <3>2. t \in DOMAIN T /\ outs = Outputs(T[t].spec) /\ threads + 1 \in Nat
        BY <1>1, <1>2
      <3> HIDE DEF outs
      <3> QED
        BY <1>2, <1>5, <1>6, <1>7, <2>2, <3>1, <3>2, ThreadStartOnce
    <2> QED
      BY <1>3, <2>1, <2>2
  <1>9. ASSUME NEW a \in Completing(calls'), a \in DOMAIN tasks' PROVE Kind(tasks'[a].spec) # "Join"
    <2>1. a = t
      <3>1. <<>> \in Seq(FrameType) /\ Quiet(<<>>) /\ Completing(<<>>) = {}
        BY DEF Quiet, Completing
      <3> QED
        BY <1>1, <1>3, <1>9, <3>1, RunWithCompleting
    <2>2. tasks'[t].spec = tasks[t].spec
      <3>1. CASE tasks' = SetState(T, {t}, "ERROR")
        BY <1>2, <3>1, SetStateEffect
      <3>2. CASE tasks' = SyncChildren(T, t, outs, Len(outs), "READY")
        <4>1. Gapped(outs, Len(outs)) /\ "READY" \in ANY /\ t \in DOMAIN T
          BY <1>1, <1>2, OutputsGapped, StateTyped, MasksTyped
        <4>2. Grown(T, tasks', t, {"READY"})
          <5> HIDE DEF outs
          <5> QED
            BY <1>2, <3>2, <4>1, SyncChildrenTree DEF Gapped
        <4> QED
          BY <1>2, <4>1, <4>2 DEF Grown
      <3> QED
        BY <1>3, <3>1, <3>2
    <2> QED
      BY <1>1, <2>1, <2>2
  <1> QED
    BY <1>8, <1>9 DEF JoinInv, JoinsComplete

LEMMA NextJoins ==
  ASSUME IInv, ReachInv, ThreadInv, JoinInv, [OrderlyNext]_vars
  PROVE  JoinInv'
  <1>1. IInv'
    BY OrderlyIInv
  <1>2. CASE Step
    <2>1. CompleteTask \/ ~Doing("complete")
      BY <1>2 DEF Step, Predict, UpdateSimple, UpdateFails, UpdateExecute, UpdateGate,
         UpdateAcquire, UpdateJoin, CancelNext, JoinFires, ChildrenNext, VisitNext, Finish,
         Hook, Doing
    <2> QED
      BY <1>1, <1>2, <2>1, StepGently, GentleJoins, JoinFiresJoins, CompleteTaskJoins
  <1>3. CASE Run
    <2>1. PICK t \in DOMAIN tasks : RunTask(t)
      BY <1>3 DEF Run
    <2>2. tasks[t].state = "READY"
      BY <2>1 DEF RunTask, RunSimple, RunFails, RunMultiChoice, RunExclusiveChoice,
         RunMultiInstance, RunThreadSplit, RunThreadStart, RunReleaseMutex, RunCancel,
         RunCancelTask, Running, InState
    <2> QED
      BY <1>1, <2>1, <2>2, RunGently, RunsJoins, RunThreadStartJoins
  <1>4. CASE UpdateWaitingTasks \/ Cancel \/ OrderlyReset
    <2>1. ~Doing("complete")
      BY <1>4, OrderlyResetGoesBack DEF UpdateWaitingTasks, Cancel, GoBack, MayReset, Quiescent, Doing
    <2> QED
      BY <1>1, <1>4, <2>1, MethodsGently, ResetGently, GentleJoins
  <1>5. CASE UNCHANGED vars
    <2>1. UNCHANGED <<tasks, calls>>
      BY <1>5 DEF vars
    <2> QED
      BY <2>1 DEF JoinInv, JoinsComplete
  <1> QED
    BY <1>2, <1>3, <1>4, <1>5 DEF OrderlyNext

\* No two instances of a join have fired, whatever the net: however many branches arrive, in
\* one call or in many, in whatever order, with other instances waiting, READY or done, in threads
\* and in loops, after resets and cancellations.
THEOREM OneFiringAlwaysStands == OrderlySpec => []OneFiringStands
  <1>1. Init => JoinInv
    <2> SUFFICES ASSUME Init PROVE JoinInv
      OBVIOUS
    <2>1. FiredIn(tasks) = {}
      BY DEF Init, FiredIn, InState, In
    <2>2. Completing(calls) = {}
      <3> DEFINE f == PredictFrame(Root, {Root}, 0, NOT_FINISHED)
                 g == Frame("hook", Root, {})
      <3>1. calls = <<f, g>> /\ f.op = "predict" /\ g.op = "hook"
        BY DEF Init, PredictFrame, Frame
      <3> HIDE DEF f, g
      <3> QED
        BY <3>1 DEF Completing
    <2> QED
      BY <2>1, <2>2 DEF JoinInv, JoinsComplete, OnceIn
  <1>2. IInv /\ ReachInv /\ ThreadInv /\ JoinInv /\ [OrderlyNext]_vars => JoinInv'
    BY NextJoins
  <1>3. JoinInv => OneFiringStands
    BY DEF JoinInv, OnceIn, OneFiringStands, Fired, FiredIn
  <1>4. Init => ThreadInv
    BY InitThreads
  <1>5. IInv /\ ReachInv /\ ThreadInv /\ [OrderlyNext]_vars => ThreadInv'
    BY NextThreads
  <1> QED
    BY <1>1, <1>2, <1>3, <1>4, <1>5, ReachAlways, PTL DEF OrderlySpec
-----------------------------------------------------------------------------
(* The tree follows the net: the spec of a task that is added is an output *)
(* of its parent's.                                                        *)

ByNet(T, U) ==
    /\ SameSpecs(T, U)
    /\ \A d \in DOMAIN U \ DOMAIN T :
          d # Root /\ Parent(d) \in DOMAIN T /\ U[d].spec \in Follows(T[Parent(d)].spec)

\* What lies behind a task, after being the specs to which connections lead.
Behind(T, after) == \A k, d \in DOMAIN T : Above(k, d) => T[d].spec \in after[T[k].spec]

LEMMA BehindStays ==
  ASSUME NEW T, NEW U, Tree(T, Specs), Tree(U, Specs), ByNet(T, U),
         NEW after, LeadsTo(after), Behind(T, after)
  PROVE  Behind(U, after)
  <1> SUFFICES ASSUME NEW k \in DOMAIN U, NEW d \in DOMAIN U, Above(k, d)
               PROVE  U[d].spec \in after[U[k].spec]
    BY DEF Behind
  <1>1. k \in Path /\ d \in Path
    BY StateTyped
  <1>2. CASE d \in DOMAIN T
    <2>1. k \in DOMAIN T
      BY <1>1, <1>2, AncestorsLive
    <2> QED
      BY <1>2, <2>1 DEF Behind, ByNet, SameSpecs
  <1>3. CASE d \notin DOMAIN T
    <2> DEFINE p == Parent(d)
    <2>1. d # Root /\ p \in DOMAIN T /\ U[d].spec \in Follows(T[p].spec)
      BY <1>3 DEF ByNet
    <2>2. k = p \/ Above(k, p)
      BY <1>1, AncestorOrParent
    <2> HIDE DEF p
    <2>3. k \in DOMAIN T /\ T[k].spec = U[k].spec /\ T[k].spec \in Specs
      <3>1. k \in DOMAIN T
        BY <1>1, <2>1, <2>2, AncestorsLive
      <3> QED
        BY <3>1, StateTyped DEF ByNet, SameSpecs
    <2>4. CASE k = p
      BY <2>1, <2>3, <2>4 DEF LeadsTo
    <2>5. CASE Above(k, p)
      <3>1. T[p].spec \in after[T[k].spec]
        BY <2>1, <2>3, <2>5 DEF Behind
      <3> QED
        BY <2>1, <2>3, <3>1 DEF LeadsTo
    <2> QED
      BY <2>2, <2>4, <2>5
  <1> QED
    BY <1>2, <1>3

LEMMA LessByNet ==
  ASSUME NEW T, NEW U, DOMAIN U \subseteq DOMAIN T, SameSpecs(T, U)
  PROVE  ByNet(T, U)
  BY DEF ByNet

LEMMA ShrunkByNet == ASSUME NEW T, NEW U, Shrunk(T, U) PROVE ByNet(T, U)
  BY LessByNet DEF Shrunk, SameSpecs

LEMMA SetByNet ==
  ASSUME NEW T, Tree(T, Specs), NEW S, NEW state
  PROVE  ByNet(T, SetState(T, S, state))
  BY SetStateEffect, LessByNet DEF SameSpecs

\* The outputs that are predicted are outputs.
Among(outs, s) == \A i \in DOMAIN outs : outs[i] \in Follows(s)

LEMMA OutputsAmong ==
  ASSUME NEW s \in Specs, NEW n \in Nat
  PROVE  /\ Among(Outputs(s), s)
         /\ \A S : Among(Pick(Outputs(s), S), s)
         /\ Among(PredictedOutputs(s, n), s)
  <1> DEFINE outs == Outputs(s)
             k    == Len(outs)
  <1>1. outs \in Seq(Specs) /\ k \in Nat /\ DOMAIN outs = 1..k
    BY NetTyped
  <1>2. \A i \in 1..k : outs[i] \in Follows(s)
    BY <1>1 DEF Follows
  <1>3. Among(outs, s)
    BY <1>1, <1>2 DEF Among
  <1>4. \A S : Among(Pick(outs, S), s)
    BY <1>2 DEF Among, Pick
  <1>5. Among(Repeat(outs, n), s)
    <2> HIDE DEF outs
    <2>1. ASSUME NEW i \in 1..(n * k) PROVE outs[((i - 1) % k) + 1] \in Follows(s)
      <3> HIDE DEF k
      <3>1. k # 0
        <4> SUFFICES ASSUME k = 0 PROVE FALSE
          OBVIOUS
        <4>1. n * k = 0
          OBVIOUS
        <4> QED
          BY <4>1
      <3>2. n * k \in Nat
        BY <1>1
      <3>3. i - 1 \in Nat
        BY <3>2
      <3>4. (i - 1) % k \in 0..(k - 1)
        BY <1>1, <3>1, <3>3
      <3>5. ((i - 1) % k) + 1 \in 1..k
        BY <1>1, <3>4
      <3> QED
        BY <1>2, <3>5
    <2> QED
      BY <2>1 DEF Repeat, Among, k
  <1> QED
    BY <1>3, <1>4, <1>5 DEF PredictedOutputs, Unconditional

LEMMA AddByNet ==
  ASSUME NEW T, Tree(T, Specs), NEW t \in DOMAIN T, NEW n \in Nat, NEW outs, Gapped(outs, n),
         NEW state \in ANY, Among(outs, T[t].spec)
  PROVE  ByNet(T, AddChildren(T, t, outs, n, state))
  <1> DEFINE U     == AddChildren(T, t, outs, n, state)
             added == {Append(t, T[t].born + i) : i \in DOMAIN outs}
  <1>1. Tree(U, Specs) /\ Grown(T, U, t, {state})
    BY AddChildrenTree DEF Gapped
  <1>2. T[t].born \in Nat /\ t \in Path
    BY StateTyped DEF Tree, IsTree, TaskType
  <1>3. ASSUME NEW d \in DOMAIN U \ DOMAIN T
        PROVE  d # Root /\ Parent(d) = t /\ U[d].spec \in Follows(T[t].spec)
    <2>1. d # Root /\ Parent(d) = t
      BY <1>1 DEF Grown
    <2>2. DOMAIN U = DOMAIN T \union added
      BY DEF AddChildren
    <2>3. PICK i \in DOMAIN outs : d = Append(t, T[t].born + i)
      BY <2>2
    <2>4. i \in Nat /\ T[t].born + i \in Nat /\ (T[t].born + i) - T[t].born = i
      BY <1>2 DEF Gapped
    <2>5. Slot(d) - T[t].born = i
      BY <1>2, <2>3, <2>4, AppendPath
    <2>6. U[d].spec = outs[i]
      BY <2>2, <2>3, <2>5 DEF AddChildren
    <2> QED
      BY <2>1, <2>6 DEF Among
  <1> HIDE DEF U
  <1> QED
    BY <1>1, <1>3 DEF ByNet, SameSpecs, Grown, U

LEMMA SyncByNet ==
  ASSUME NEW T, Tree(T, Specs), NEW t \in DOMAIN T, NEW n \in Nat, NEW outs, Gapped(outs, n),
         NEW state \in ANY, Among(outs, T[t].spec)
  PROVE  ByNet(T, SyncChildren(T, t, outs, n, state))
  <1> DEFINE U == SyncChildren(T, t, outs, n, state)
  <1>1. Tree(U, Specs) /\ Grown(T, U, t, {state})
    BY SyncChildrenTree DEF Gapped
  <1>2. ASSUME NEW d \in DOMAIN U \ DOMAIN T
        PROVE  d # Root /\ Parent(d) = t /\ U[d].spec \in Follows(T[t].spec)
    <2>1. d # Root /\ Parent(d) = t
      BY <1>1 DEF Grown
    <2>2. d \in Children(U, t)
      BY <2>1 DEF Children
    <2>3. \/ d \in Kept(T, t, outs, n)
          \/ \E i \in Missing(T, t, outs) : U[d].spec = outs[i]
      BY <2>2, SyncedChildren
    <2>4. d \notin Kept(T, t, outs, n)
      BY DEF Kept, Children
    <2> QED
      BY <2>1, <2>3, <2>4 DEF Missing, Among
  <1> HIDE DEF U
  <1> QED
    BY <1>1, <1>2 DEF ByNet, SameSpecs, Grown, U

LEMMA PredictHookByNet ==
  ASSUME NEW T, Tree(T, Specs), NEW t \in DOMAIN T, NEW n \in Nat, T[t].state \in EXPECTED
  PROVE  ByNet(T, PredictHook(T, t, n))
  <1> DEFINE s == T[t].spec
             V == SyncChildren(T, t, PredictedOutputs(s, n), OutputCount(s, n), PredictedState(T, t))
             U == PredictHook(T, t, n)
  <1>1. s \in Specs /\ PredictedState(T, t) \in ANY
    BY PredictedStateTyped, StateTyped
  <1>2. Gapped(PredictedOutputs(s, n), OutputCount(s, n)) /\ Gapped(Conditional(s), Len(Outputs(s)))
    BY <1>1, PredictedOutputsGapped, PickGapped DEF Conditional
  <1>3. Among(PredictedOutputs(s, n), s) /\ Among(Conditional(s), s)
    BY <1>1, OutputsAmong DEF Conditional
  <1>4. ByNet(T, V)
    BY <1>1, <1>2, <1>3, SyncByNet DEF Gapped
  <1>5. Tree(V, Specs) /\ t \in DOMAIN V
    BY <1>1, <1>2, SyncTyped
  <1>6. V[t].spec = s
    BY <1>4, <1>5 DEF ByNet, SameSpecs
  <1>7. ByNet(V, AddChildren(V, t, Conditional(s), Len(Outputs(s)), "MAYBE"))
    BY <1>2, <1>3, <1>5, <1>6, AddByNet, StatesDiffer DEF Gapped
  <1>8. U = V \/ U = AddChildren(V, t, Conditional(s), Len(Outputs(s)), "MAYBE")
    BY DEF PredictHook
  <1>9. PICK states : Grown(T, U, t, states)
    BY PredictHookGrown
  <1> HIDE DEF U, V, s
  <1>10. ByNet(V, U)
    BY <1>7, <1>8 DEF ByNet, SameSpecs
  <1>11. ASSUME NEW d \in DOMAIN U \ DOMAIN T
         PROVE  d # Root /\ Parent(d) = t /\ U[d].spec \in Follows(s)
    <2>1. d # Root /\ Parent(d) = t
      BY <1>9 DEF Grown
    <2>2. CASE d \in DOMAIN V
      BY <1>4, <1>10, <2>1, <2>2 DEF ByNet, SameSpecs, s
    <2>3. CASE d \notin DOMAIN V
      BY <1>6, <1>10, <2>1, <2>3 DEF ByNet
    <2> QED
      BY <2>1, <2>2, <2>3
  <1> QED
    BY <1>9, <1>11 DEF ByNet, SameSpecs, Grown, U, s

\* All steps do.
StepByNet == ByNet(tasks, tasks')

LEMMA UnchangedByNet == UNCHANGED tasks => StepByNet
  BY DEF StepByNet, ByNet, SameSpecs

LEMMA ReadyByNet ==
  ASSUME NEW T, NEW V, Tree(V, Specs), ByNet(T, V), NEW t
  PROVE  ByNet(T, Ready(V, t))
  BY SetStateEffect DEF Ready, ByNet, SameSpecs

LEMMA PredictByNet == ASSUME IInv, ReachInv, Predict PROVE StepByNet
  <1>1. calls # <<>> /\ Top.op = "predict"
    BY DEF Predict, Doing, Top
  <1>2. Tree(tasks, Specs) /\ Top \in FrameType /\ FrameOK(tasks, Top)
    BY <1>1, InProgress
  <1>3. CASE UNCHANGED tasks
    BY <1>3, UnchangedByNet
  <1>4. CASE Raise
    BY <1>2, <1>4, SetByNet DEF Raise, StepByNet
  <1>5. ASSUME NEW t \in DOMAIN tasks, In(tasks, t, Top.mask),
               tasks' = PredictHook(tasks, t, PredictedTimes(tasks[t].spec))
        PROVE  StepByNet
    <2>1. tasks[t].state \in EXPECTED
      BY <1>1, <1>2, <1>5 DEF FrameOK, In
    <2>2. PredictedTimes(tasks[t].spec) \in Nat
      BY <1>2, StateTyped, PredictedTimesTyped
    <2> QED
      BY <1>2, <1>5, <2>1, <2>2, PredictHookByNet DEF StepByNet
  <1> QED
    BY <1>3, <1>4, <1>5 DEF Predict

LEMMA JoinFiresByNet == ASSUME IInv, JoinFires PROVE StepByNet
  <1>1. PICK V : Tree(V, Specs) /\ Same(tasks, V) /\ tasks' = Ready(V, Top.task)
    BY JoinFiresParts
  <1> QED
    BY <1>1, LessByNet, ReadyByNet DEF Same, SameSpecs, StepByNet

LEMMA StepsByNet == ASSUME IInv, ReachInv, Step PROVE StepByNet
  <1>1. Tree(tasks, Specs)
    BY IInvSplit
  <1>2. ByNet(tasks, tasks)
    BY DEF ByNet, SameSpecs
  <1>3. CASE SetReady(Top.task)
    BY <1>1, <1>2, <1>3, ReadyByNet DEF SetReady, StepByNet
  <1>4. CASE SetWaiting(Top.task) \/ Raise \/ CompleteTask
    BY <1>1, <1>4, SetByNet DEF SetWaiting, Raise, CompleteTask, StepByNet
  <1>5. CASE CancelNext
    BY <1>1, <1>2, <1>5, CancelBranchShrunk, ShrunkByNet DEF CancelNext, StepByNet
  <1>6. CASE UpdateSimple \/ UpdateFails \/ UpdateExecute \/ UpdateGate \/ UpdateAcquire
    BY <1>3, <1>4, <1>6 DEF UpdateSimple, UpdateFails, UpdateExecute, UpdateGate, UpdateAcquire
  <1>7. CASE UpdateJoin
    BY <1>4, <1>7, UnchangedByNet DEF UpdateJoin
  <1>8. CASE ChildrenNext \/ VisitNext \/ Finish
    BY <1>8, UnchangedByNet DEF ChildrenNext, VisitNext, Finish
  <1> QED
    BY <1>4, <1>5, <1>6, <1>7, <1>8, PredictByNet, JoinFiresByNet DEF Step

LEMMA RunRaisesByNet == ASSUME IInv, NEW t, RunRaises(t) PROVE StepByNet
  BY IInvSplit, SetByNet DEF RunRaises, StepByNet

LEMMA RunSyncByNet ==
  ASSUME IInv, NEW t \in DOMAIN tasks, NEW outs, NEW n, Gapped(outs, n), Among(outs, tasks[t].spec),
         RunRaises(t) \/ tasks' = SyncChildren(tasks, t, outs, n, "FUTURE")
  PROVE  StepByNet
  <1>1. Tree(tasks, Specs) /\ n \in Nat /\ "FUTURE" \in ANY
    BY IInvSplit, MasksTyped DEF Gapped
  <1>2. CASE RunRaises(t)
    BY <1>2, RunRaisesByNet
  <1>3. CASE tasks' = SyncChildren(tasks, t, outs, n, "FUTURE")
    BY <1>1, <1>3, SyncByNet DEF StepByNet
  <1> QED
    BY <1>2, <1>3

\* What an ExclusiveChoice chooses is an output.
LEMMA ChosenIsOutput ==
  ASSUME NEW s \in Specs, Kind(s) = "ExclusiveChoice", NEW o \in Net[s].cond \union {Net[s].default}
  PROVE  o \in Specs /\ o \in Follows(s)
  <1>1. o \in Specs
    BY NetTyped
  <1>2. PICK i \in DOMAIN Net[s].outputs : Net[s].outputs[i] = o
    BY NetAssumption DEF Kind
  <1> QED
    BY <1>1, <1>2 DEF Follows, Outputs

LEMMA RunSplitByNet ==
  ASSUME IInv, NEW t \in DOMAIN tasks,
         RunMultiChoice(t) \/ RunExclusiveChoice(t) \/ RunMultiInstance(t) \/ RunThreadSplit(t)
  PROVE  StepByNet
  <1> DEFINE s == tasks[t].spec
  <1>1. s \in Specs
    BY IInvSplit, StateTyped
  <1>2. ASSUME NEW n \in Net[s].times,
               \/ RunRaises(t)
               \/ tasks' = SyncChildren(tasks, t, PredictedOutputs(s, n), OutputCount(s, n), "FUTURE")
        PROVE  StepByNet
    <2>1. n \in Nat
      BY <1>1, NetTyped
    <2>2. Gapped(PredictedOutputs(s, n), OutputCount(s, n)) /\ Among(PredictedOutputs(s, n), s)
      BY <1>1, <2>1, PredictedOutputsGapped, OutputsAmong
    <2> QED
      BY <1>2, <2>2, RunSyncByNet
  <1>3. CASE RunMultiInstance(t) \/ RunThreadSplit(t)
    BY <1>2, <1>3 DEF RunMultiInstance, RunThreadSplit, RunSplit
  <1>4. CASE RunMultiChoice(t)
    <2>1. PICK S : RunSplit(t, Pick(Outputs(s), S), Len(Outputs(s)), 0)
      BY <1>4 DEF RunMultiChoice
    <2>2. Gapped(Pick(Outputs(s), S), Len(Outputs(s)))
      BY <1>1, PickGapped
    <2>3. Among(Pick(Outputs(s), S), s)
      BY <1>1, OutputsAmong
    <2> QED
      BY <2>1, <2>2, <2>3, RunSyncByNet DEF RunSplit
  <1>5. CASE RunExclusiveChoice(t)
    <2>1. PICK output \in Net[s].cond \union {Net[s].default} : RunSplit(t, <<output>>, 1, 0)
      BY <1>5 DEF RunExclusiveChoice
    <2>2. Kind(s) = "ExclusiveChoice"
      BY <1>5 DEF RunExclusiveChoice, Running
    <2>3. output \in Specs /\ output \in Follows(s)
      BY <1>1, <2>2, ChosenIsOutput
    <2> HIDE DEF s
    <2>4. Gapped(<<output>>, 1) /\ Among(<<output>>, s)
      BY <2>3 DEF Gapped, Among
    <2> QED
      BY <2>1, <2>4, RunSyncByNet DEF RunSplit, s
  <1> QED
    BY <1>3, <1>4, <1>5

LEMMA ThreadStartByNet == ASSUME IInv, NEW t \in DOMAIN tasks, RunThreadStart(t) PROVE StepByNet
  <1> DEFINE T    == AssignThread(tasks, t, threads + 1)
             outs == Outputs(tasks[t].spec)
  <1>1. Tree(tasks, Specs) /\ threads \in Nat /\ threads + 1 \in Nat /\ tasks[t].spec \in Specs
    BY IInvSplit, StateTyped DEF OthersTyped
  <1>2. /\ Tree(T, Specs) /\ DOMAIN T = DOMAIN tasks
        /\ \A d \in DOMAIN tasks : T[d].spec = tasks[d].spec
    BY <1>1, AssignThreadTree
  <1>3. Gapped(outs, Len(outs)) /\ Among(outs, tasks[t].spec)
    BY <1>1, OutputsGapped, OutputsAmong
  <1>4. tasks' = SetState(T, {t}, "ERROR") \/ tasks' = SyncChildren(T, t, outs, Len(outs), "READY")
    BY DEF RunThreadStart
  <1> HIDE DEF T, outs
  <1>5. ByNet(T, tasks')
    <2>1. CASE tasks' = SetState(T, {t}, "ERROR")
      BY <1>2, <2>1, SetByNet
    <2>2. CASE tasks' = SyncChildren(T, t, outs, Len(outs), "READY")
      <3>1. Len(outs) \in Nat /\ "READY" \in ANY /\ t \in DOMAIN T /\ T[t].spec = tasks[t].spec
        BY <1>2, <1>3, MasksTyped DEF Gapped
      <3> QED
        BY <1>2, <1>3, <2>2, <3>1, SyncByNet
    <2> QED
      BY <1>4, <2>1, <2>2
  <1> QED
    BY <1>2, <1>5 DEF StepByNet, ByNet, SameSpecs

LEMMA RunsByNet == ASSUME IInv, Run PROVE StepByNet
  <1>1. PICK t \in DOMAIN tasks : RunTask(t)
    BY DEF Run
  <1>2. CASE RunSimple(t) \/ RunCancelTask(t)
    BY <1>2, UnchangedByNet DEF RunSimple, RunCancelTask
  <1>3. CASE RunFails(t) \/ RunReleaseMutex(t)
    BY <1>3, UnchangedByNet, RunRaisesByNet DEF RunFails, RunReleaseMutex
  <1>4. CASE RunCancel(t)
    BY <1>4, IInvSplit, CancelBranchShrunk, ShrunkByNet DEF RunCancel, StepByNet
  <1> QED
    BY <1>1, <1>2, <1>3, <1>4, RunSplitByNet, ThreadStartByNet DEF RunTask

LEMMA ResetByNet == ASSUME IInv, IInv', OrderlyReset PROVE StepByNet
  <1>1. PICK t \in DOMAIN tasks : GoBack(t)
    BY OrderlyResetGoesBack
  <1> DEFINE pruned == RemoveBranches(tasks, Children(tasks, t))
             bare   == SetState(pruned, {t}, "FUTURE")
  <1>2. /\ Tree(pruned, Specs) /\ Shrunk(tasks, pruned)
        /\ Tree(bare, Specs) /\ t \in DOMAIN bare /\ bare[t].state = "FUTURE"
    BY <1>1, ResetParts
  <1>3. PICK n \in Nat : tasks' = PredictHook(bare, t, n)
    BY <1>1, ResetParts
  <1> HIDE DEF pruned
  <1>4. ByNet(pruned, bare) /\ DOMAIN bare = DOMAIN pruned
    BY <1>2, SetByNet, SetStateEffect
  <1> HIDE DEF bare
  <1>5. ByNet(bare, tasks')
    BY <1>2, <1>3, PredictHookByNet DEF EXPECTED
  <1>6. Gentle(tasks, tasks')
    BY ResetGently DEF Gently
  <1> QED
    BY <1>2, <1>4, <1>5, <1>6 DEF StepByNet, ByNet, SameSpecs, Shrunk, Gentle, Handed

LEMMA NextByNet == ASSUME IInv, IInv', ReachInv, [OrderlyNext]_vars PROVE StepByNet
  <1>1. CASE UpdateWaitingTasks \/ UNCHANGED vars
    BY <1>1, UnchangedByNet DEF UpdateWaitingTasks, vars
  <1>2. CASE Cancel
    BY <1>2, IInvSplit, CancelBranchShrunk, ShrunkByNet DEF Cancel, StepByNet
  <1> QED
    BY <1>1, <1>2, StepsByNet, RunsByNet, ResetByNet DEF OrderlyNext
-----------------------------------------------------------------------------
(* What the frames are for is in the tree.  A task that has been reached,  *)
(* all that comes before it having finished, is only removed by a join     *)
(* that fires behind another instance of itself, which takes a loop; what  *)
(* is predicted lies below no other member of a list.                      *)

Pending(T, f) ==
    /\ f.op \in {"hook", "join", "complete", "children", "finish"} => f.task \in DOMAIN T
    /\ f.op \in {"children", "predict"} => f.todo \subseteq DOMAIN T
    /\ f.op = "join" => Kind(T[f.task].spec) = "Join"
    /\ f.op = "finish" => T[f.task].state \in FINISHED /\ Attached(T, f.task)
    /\ f.op = "predict" => \/ f.todo \subseteq {f.task}
                           \/ \A z \in f.todo : z # Root /\ Parent(z) = f.task

\* What a frame f above g must not touch.
Apart(f, g) ==
    /\ f.op = "predict" /\ g.op = "predict" =>
          \A z \in g.todo : z # f.task /\ ~Above(f.task, z)
    /\ g.op = "children" =>
          /\ f.op \notin {"children", "visit"}
          /\ f.op \in {"hook", "join"} => f.task # Root /\ Parent(f.task) = g.task

AllPending(T, c) == \A i \in DOMAIN c : Pending(T, c[i])
AllApart(c)      == \A i, k \in DOMAIN c : i < k => Apart(c[i], c[k])

PendingInv == AllPending(tasks, calls) /\ AllApart(calls)

LEMMA PendingConcat ==
  ASSUME NEW a \in Seq(FrameType), NEW b \in Seq(FrameType), NEW T,
         AllPending(T, a), AllPending(T, b), AllApart(a), AllApart(b),
         \A i \in DOMAIN a : \A k \in DOMAIN b : Apart(a[i], b[k])
  PROVE  AllPending(T, a \o b) /\ AllApart(a \o b)
  <1> DEFINE d == a \o b
  <1>1. /\ d \in Seq(FrameType) /\ Len(a) \in Nat /\ DOMAIN a = 1..Len(a)
        /\ DOMAIN d \subseteq Nat
    BY ConcatFrames
  <1>2. \A i \in DOMAIN d :
           \/ i \in DOMAIN a /\ d[i] = a[i]
           \/ i - Len(a) \in DOMAIN b /\ d[i] = b[i - Len(a)] /\ i > Len(a)
    BY ConcatFrames
  <1> HIDE DEF d
  <1>3. AllApart(d)
    <2> SUFFICES ASSUME NEW i \in DOMAIN d, NEW k \in DOMAIN d, i < k
                 PROVE  Apart(d[i], d[k])
      BY DEF AllApart
    <2>1. CASE k \in DOMAIN a
      <3>1. k - Len(a) \notin DOMAIN b \/ ~(k > Len(a))
        BY <1>1, <2>1
      <3>2. i \in DOMAIN a /\ ~(i > Len(a))
        BY <1>1, <2>1
      <3> QED
        BY <1>2, <2>1, <3>1, <3>2 DEF AllApart
    <2>2. CASE k - Len(a) \in DOMAIN b /\ d[k] = b[k - Len(a)] /\ i \in DOMAIN a /\ d[i] = a[i]
      BY <2>2
    <2>3. CASE /\ k - Len(a) \in DOMAIN b /\ d[k] = b[k - Len(a)]
               /\ i - Len(a) \in DOMAIN b /\ d[i] = b[i - Len(a)]
      <3>1. i - Len(a) < k - Len(a)
        BY <1>1
      <3> QED
        BY <2>3, <3>1 DEF AllApart
    <2> QED
      BY <1>2, <2>1, <2>2, <2>3
  <1>4. AllPending(T, d)
    BY <1>2 DEF AllPending
  <1> QED
    BY <1>3, <1>4 DEF d

LEMMA NonePending == AllApart(<<>>) /\ \A T : AllPending(T, <<>>)
  BY DEF AllApart, AllPending

LEMMA OnePending ==
  ASSUME NEW f \in FrameType, NEW T, Pending(T, f)
  PROVE  AllApart(<<f>>) /\ AllPending(T, <<f>>) /\ \A i \in DOMAIN <<f>> : <<f>>[i] = f
  BY DEF AllApart, AllPending

\* What is known about the frames below the top one.
LEMMA RestPending ==
  ASSUME IInv, ReachInv, PendingInv, calls # <<>>
  PROVE  /\ Pending(tasks, Top) /\ AllApart(Tail(calls)) /\ Tail(calls) \in Seq(FrameType)
         /\ \A k \in DOMAIN Tail(calls) :
               /\ Tail(calls)[k] \in FrameType /\ FrameOK(tasks, Tail(calls)[k])
               /\ Pending(tasks, Tail(calls)[k]) /\ Apart(Top, Tail(calls)[k])
               /\ Top.op \in Over(Tail(calls)[k].op)
  <1> DEFINE c    == calls
             rest == Tail(c)
  <1>1. c \in Seq(FrameType) /\ c # <<>> /\ Ordered(c) /\ FramesOK(tasks, c)
    BY InProgress
  <1>2. AllPending(tasks, c) /\ AllApart(c) /\ Top = Head(c)
    BY DEF PendingInv, Top
  <1> HIDE DEF c
  <1>3. /\ rest \in Seq(FrameType) /\ Len(rest) = Len(c) - 1 /\ Head(c) = c[1]
        /\ \A i \in 1..Len(rest) : rest[i] = c[i + 1]
        /\ Len(c) \in Nat \ {0} /\ Len(rest) \in Nat
    BY <1>1, HeadTailProperties, LenProperties
  <1>4. DOMAIN c = 1..Len(c) /\ DOMAIN rest = 1..Len(rest)
    BY <1>1, <1>3, LenProperties
  <1> HIDE DEF rest
  <1>5. ASSUME NEW k \in DOMAIN rest
        PROVE  /\ rest[k] \in FrameType /\ FrameOK(tasks, rest[k]) /\ Pending(tasks, rest[k])
               /\ Apart(Top, rest[k]) /\ Top.op \in Over(rest[k].op)
    <2>1. k + 1 \in DOMAIN c /\ 1 \in DOMAIN c /\ rest[k] = c[k + 1] /\ 1 < k + 1
      BY <1>3, <1>4
    <2>2. Top = c[1] /\ rest[k] \in FrameType
      BY <1>2, <1>3
    <2> QED
      BY <1>1, <1>2, <2>1, <2>2 DEF Ordered, FramesOK, AllPending, AllApart
  <1>6. AllApart(rest)
    <2> SUFFICES ASSUME NEW i \in DOMAIN rest, NEW k \in DOMAIN rest, i < k
                 PROVE  Apart(rest[i], rest[k])
      BY DEF AllApart
    <2>1. k + 1 \in DOMAIN c /\ i + 1 \in DOMAIN c /\ rest[k] = c[k + 1] /\ rest[i] = c[i + 1]
          /\ i + 1 < k + 1
      BY <1>3, <1>4
    <2> QED
      BY <1>2, <2>1 DEF AllApart
  <1>7. Pending(tasks, Top)
    <2>1. 1 \in DOMAIN c /\ Top = c[1]
      BY <1>2, <1>3, <1>4
    <2> QED
      BY <1>2, <2>1 DEF AllPending
  <1> QED
    BY <1>3, <1>5, <1>6, <1>7 DEF rest, c

\* The stack when the top frame is replaced by some others.
LEMMA TopPending ==
  ASSUME IInv, ReachInv, PendingInv, calls # <<>>,
         NEW frames \in Seq(FrameType), calls' = frames \o Tail(calls),
         AllPending(tasks', frames), AllApart(frames),
         \A g \in FrameType :
            FrameOK(tasks, g) /\ Pending(tasks, g) /\ Apart(Top, g) /\ Top.op \in Over(g.op) =>
               Pending(tasks', g) /\ \A i \in DOMAIN frames : Apart(frames[i], g)
  PROVE  PendingInv'
  <1>1. AllApart(Tail(calls)) /\ Tail(calls) \in Seq(FrameType)
    BY RestPending
  <1>2. ASSUME NEW k \in DOMAIN Tail(calls)
        PROVE  /\ Pending(tasks', Tail(calls)[k])
               /\ \A i \in DOMAIN frames : Apart(frames[i], Tail(calls)[k])
    BY RestPending
  <1>3. AllPending(tasks', Tail(calls))
    BY <1>2 DEF AllPending
  <1> QED
    BY <1>1, <1>2, <1>3, PendingConcat DEF PendingInv

LEMMA ReturnPending ==
  ASSUME IInv, ReachInv, PendingInv, calls # <<>>, Return,
         \A g \in FrameType :
            FrameOK(tasks, g) /\ Pending(tasks, g) /\ Apart(Top, g) /\ Top.op \in Over(g.op) =>
               Pending(tasks', g)
  PROVE  PendingInv'
  <1>1. calls' = <<>> \o Tail(calls) /\ <<>> \in Seq(FrameType) /\ DOMAIN <<>> = {}
    BY InProgress, NoFrame DEF Return
  <1> DEFINE none == <<>>
  <1>2. none \in Seq(FrameType) /\ calls' = none \o Tail(calls) /\ DOMAIN none = {}
        /\ AllPending(tasks', none) /\ AllApart(none)
    BY <1>1, NonePending
  <1> HIDE DEF none
  <1> QED
    BY <1>2, TopPending

\* The same for a loop that makes a call for one member of its list.
LEMMA CallPending ==
  ASSUME IInv, ReachInv, PendingInv, calls # <<>>,
         NEW frames \in Seq(FrameType), NEW S \in SUBSET Path, CallWith(frames, S),
         AllPending(tasks', frames), AllApart(frames),
         Pending(tasks', [Top EXCEPT !.todo = S]),
         \A i \in DOMAIN frames : Apart(frames[i], [Top EXCEPT !.todo = S]),
         \A g \in FrameType :
            FrameOK(tasks, g) /\ Pending(tasks, g) /\ Apart(Top, g) /\ Top.op \in Over(g.op) =>
               Pending(tasks', g) /\ \A i \in DOMAIN frames : Apart(frames[i], g)
  PROVE  PendingInv'
  <1> DEFINE frame == [Top EXCEPT !.todo = S]
             again == IF S = {} THEN <<>> ELSE <<frame>>
             pushed == frames \o again
  <1>1. frame \in FrameType /\ frame.op = Top.op /\ frame.task = Top.task
    BY InProgress DEF FrameType
  <1> HIDE DEF frame
  <1>2. /\ again \in Seq(FrameType) /\ AllApart(again) /\ AllPending(tasks', again)
        /\ \A i \in DOMAIN again : again[i] = frame
    BY <1>1, OnePending, NonePending, NoFrame DEF frame
  <1>3. calls' = pushed \o Tail(calls)
    BY DEF CallWith, frame
  <1> HIDE DEF again
  <1>4. AllPending(tasks', pushed) /\ AllApart(pushed)
    BY <1>2, PendingConcat DEF frame
  <1>5. /\ pushed \in Seq(FrameType)
        /\ \A i \in DOMAIN pushed : pushed[i] = frame \/ \E k \in DOMAIN frames : pushed[i] = frames[k]
    BY <1>2, ConcatFrames
  <1> HIDE DEF pushed
  <1>6. \A g \in FrameType : Apart(Top, g) => Apart(frame, g)
    BY <1>1 DEF Apart
  <1>7. ASSUME NEW g \in FrameType, FrameOK(tasks, g), Pending(tasks, g), Apart(Top, g),
               Top.op \in Over(g.op)
        PROVE  Pending(tasks', g) /\ \A i \in DOMAIN pushed : Apart(pushed[i], g)
    BY <1>5, <1>6, <1>7
  <1> QED
    BY <1>3, <1>4, <1>5, <1>7, TopPending
-----------------------------------------------------------------------------
(* What is removed                                                         *)

\* _predict_hook removes tasks below its own only.
LEMMA SyncKeeps ==
  ASSUME NEW T, Tree(T, Specs), NEW t \in DOMAIN T, NEW outs, NEW n, NEW state \in ANY,
         NEW d \in DOMAIN T, ~Above(t, d)
  PROVE  d \in DOMAIN SyncChildren(T, t, outs, n, state)
  <1> DEFINE kept == Kept(T, t, outs, n)
             gone == Children(T, t) \ kept
             set  == SetState(T, kept \intersect InState(T, NOT_FINISHED), state)
             old  == RemoveBranches(set, gone)
             new  == [i \in Missing(T, t, outs) |-> outs[i]]
  <1>1. t \in Path /\ d \in Path
    BY StateTyped
  <1>2. \A c \in gone : c \in Path /\ c # Root /\ Above(t, c)
    <2>1. \A c \in gone : c \in DOMAIN T /\ c # Root /\ Parent(c) = t
      BY DEF Children
    <2> HIDE DEF gone
    <2> QED
      BY <1>1, <2>1, StateTyped, AboveParent
  <1> HIDE DEF kept, gone, new
  <1>3. Tree(set, Specs) /\ DOMAIN set = DOMAIN T
    BY SetStateTree
  <1> HIDE DEF set
  <1>4. \A r \in gone : r # d /\ ~Above(r, d)
    BY <1>1, <1>2, AboveTransitive
  <1>5. d \in DOMAIN old
    BY <1>2, <1>3, <1>4, RemoveBranchesTree
  <1> HIDE DEF old
  <1>6. d \in DOMAIN AddChildren(old, t, new, n, state)
    BY <1>5 DEF AddChildren
  <1> QED
    BY <1>6 DEF SyncChildren, kept, gone, set, old, new

LEMMA PredictKeeps ==
  ASSUME NEW T, Tree(T, Specs), NEW t \in DOMAIN T, NEW n, NEW d \in DOMAIN T, ~Above(t, d)
  PROVE  d \in DOMAIN PredictHook(T, t, n)
  <1> DEFINE s == T[t].spec
             V == SyncChildren(T, t, PredictedOutputs(s, n), OutputCount(s, n), PredictedState(T, t))
  <1>1. d \in DOMAIN V
    BY SyncKeeps, PredictedStateTyped
  <1> HIDE DEF V
  <1>2. d \in DOMAIN AddChildren(V, t, Conditional(s), Len(Outputs(s)), "MAYBE")
    BY <1>1 DEF AddChildren
  <1> QED
    BY <1>1, <1>2 DEF PredictHook, V

\* What is removed lies below something unfinished.
Loosens(T, U) ==
    \A d \in DOMAIN T \ DOMAIN U : \E a \in DOMAIN T : Above(a, d) /\ T[a].state \notin FINISHED

LEMMA AttachedSurvives ==
  ASSUME NEW T, NEW U, Loosens(T, U), NEW d \in DOMAIN T, Attached(T, d)
  PROVE  d \in DOMAIN U
  BY DEF Loosens, Attached

LEMMA DropLoosens ==
  ASSUME NEW T, NEW S, NEW d \in DOMAIN T \ DOMAIN DropChildren(T, S)
  PROVE  \E k \in S, r \in DOMAIN T : /\ T[r].state \in NOT_FINISHED
                                      /\ Above(k, r) /\ (r = d \/ Above(r, d))
  BY DEF DropChildren, RemoveBranches, InState

LEMMA CancelLoosens ==
  ASSUME NEW T, Tree(T, Specs), NEW t
  PROVE  Loosens(T, CancelBranch(T, t))
  <1> DEFINE open == Branch(T, t) \intersect InState(T, NOT_FINISHED)
             top  == {d \in open : ~\E e \in open : Above(e, d)}
             V    == SetState(T, top, "CANCELLED")
  <1>1. \A a \in top : a \in DOMAIN T /\ T[a].state \notin FINISHED
    BY StatesDiffer DEF InState
  <1> HIDE DEF open, top
  <1>2. DOMAIN V = DOMAIN T
    BY SetStateEffect
  <1>3. CancelBranch(T, t) = DropChildren(V, top)
    BY DEF CancelBranch, open, top
  <1> HIDE DEF V
  <1>4. ASSUME NEW d \in DOMAIN T \ DOMAIN CancelBranch(T, t)
        PROVE  \E a \in DOMAIN T : Above(a, d) /\ T[a].state \notin FINISHED
    <2>1. PICK k \in top, r \in DOMAIN V : Above(k, r) /\ (r = d \/ Above(r, d))
      BY <1>2, <1>3, <1>4, DropLoosens
    <2>2. k \in Path /\ r \in Path /\ d \in Path
      BY <1>1, <1>2, StateTyped
    <2>3. Above(k, d)
      BY <2>1, <2>2, AboveTransitive
    <2> QED
      BY <1>1, <2>3
  <1> QED
    BY <1>4 DEF Loosens

\* A frame stays pending if its task and its list do.
LEMMA KeepsPending ==
  ASSUME NEW T, NEW U, Tree(T, Specs), Tree(U, Specs), Stays(T, U), SameSpecs(T, U),
         NEW f \in FrameType, Pending(T, f),
         f.op \in {"hook", "join", "complete", "children", "finish"} => f.task \in DOMAIN U,
         f.op \in {"children", "predict"} => f.todo \subseteq DOMAIN U
  PROVE  Pending(U, f)
  <1>1. f.op = "join" => Kind(U[f.task].spec) = "Join"
    BY DEF Pending, SameSpecs
  <1>2. f.op = "finish" => U[f.task].state \in FINISHED /\ Attached(U, f.task)
    BY AttachedStays DEF Pending, Stays
  <1> QED
    BY <1>1, <1>2 DEF Pending

LEMMA SamePending ==
  ASSUME NEW T, NEW U, Tree(T, Specs), Tree(U, Specs), Stays(T, U), SameSpecs(T, U),
         DOMAIN T = DOMAIN U, NEW f \in FrameType, Pending(T, f)
  PROVE  Pending(U, f)
  BY KeepsPending DEF Pending

\* What a frame relies on has been reached.
LEMMA FrameAttached ==
  ASSUME NEW T, Tree(T, Specs), NEW f \in FrameType, FrameOK(T, f), Pending(T, f)
  PROVE  /\ f.op \in {"hook", "join", "complete", "children", "finish"} => Attached(T, f.task)
         /\ f.op = "children" => \A c \in f.todo : Attached(T, c)
  <1>1. f.op \in {"hook", "join", "complete", "children", "finish"} => Attached(T, f.task)
    BY DEF FrameOK, Pending, LiveIn
  <1>2. ASSUME f.op = "children", NEW c \in f.todo PROVE Attached(T, c)
    <2>1. c \in DOMAIN T /\ c # Root /\ Parent(c) = f.task /\ T[f.task].state \in FINISHED
      BY <1>2 DEF FrameOK, Pending, LiveIn
    <2> QED
      BY <1>1, <1>2, <2>1, AttachedParent
  <1> QED
    BY <1>1, <1>2

LEMMA LoosensPending ==
  ASSUME NEW T, NEW U, Tree(T, Specs), Tree(U, Specs), Stays(T, U), SameSpecs(T, U),
         Loosens(T, U), NEW f \in FrameType, FrameOK(T, f), Pending(T, f), f.op # "predict"
  PROVE  Pending(U, f)
  <1>1. f.op \in {"hook", "join", "complete", "children", "finish"} => f.task \in DOMAIN U
    BY FrameAttached, AttachedSurvives DEF Pending
  <1>2. f.op = "children" => f.todo \subseteq DOMAIN U
    BY FrameAttached, AttachedSurvives DEF Pending
  <1> QED
    BY <1>1, <1>2, KeepsPending
-----------------------------------------------------------------------------
(* The steps                                                               *)

\* What is known of every step that resets nothing.
StepKeeps ==
    /\ Tree(tasks, Specs) /\ Tree(tasks', Specs)
    /\ Stays(tasks, tasks') /\ SameSpecs(tasks, tasks')

LEMMA RaisePending == Raise => PendingInv'
  BY NonePending DEF Raise, PendingInv

\* The top frame returns, and no task has been removed.
LEMMA ReturnSamePending ==
  ASSUME IInv, ReachInv, PendingInv, StepKeeps, calls # <<>>, Return, DOMAIN tasks' = DOMAIN tasks
  PROVE  PendingInv'
  <1>1. \A g \in FrameType : Pending(tasks, g) => Pending(tasks', g)
    BY SamePending DEF StepKeeps
  <1> QED
    BY <1>1, ReturnPending

LEMMA SiblingsApart ==
  ASSUME NEW a \in Path, NEW b \in Path, a # Root, b # Root, Parent(a) = Parent(b)
  PROVE  ~Above(a, b)
  <1>1. Len(a) \in Nat /\ Len(b) \in Nat /\ Len(Parent(a)) = Len(a) - 1 /\ Len(Parent(b)) = Len(b) - 1
    BY ParentPath, PathLength
  <1>2. Len(a) = Len(b)
    BY <1>1
  <1> QED
    BY <1>1, <1>2 DEF Above

LEMMA NeverAboveItself == ASSUME NEW a \in Path PROVE ~Above(a, a)
  BY PathLength DEF Above

LEMMA PredictPending ==
  ASSUME IInv, ReachInv, PendingInv, StepKeeps, Predict
  PROVE  PendingInv'
  <1>1. calls # <<>> /\ Top.op = "predict"
    BY DEF Predict, Doing, Top
  <1>2. /\ Tree(tasks, Specs) /\ Top \in FrameType /\ FrameOK(tasks, Top)
        /\ Top.task \in Path /\ Top.todo \in SUBSET Path
        /\ Top.looked \in Nat /\ Top.mask \in SUBSET ANY
        /\ Pending(tasks, Top)
    BY <1>1, InProgress, StackTyped, RestPending
  <1>3. CASE Top.todo = {}
    <2>1. Return /\ UNCHANGED tasks
      BY <1>3 DEF Predict
    <2> QED
      BY <1>1, <2>1, ReturnSamePending
  <1>4. CASE Top.todo # {}
    <2> DEFINE n(t)    == PredictedTimes(tasks[t].spec)
               T(t)    == IF In(tasks, t, Top.mask) THEN PredictHook(tasks, t, n(t)) ELSE tasks
               next(t) == PredictNext(T(t), t, Top.looked, Top.mask)
    <2>1. PICK t \in Top.todo :
            /\ t \in DOMAIN tasks
            /\ \/ Raise
               \/ /\ tasks' = T(t)
                  /\ CallWith(IF next(t) = {} THEN <<>>
                              ELSE <<PredictFrame(t, next(t), Top.looked + 1, Top.mask)>>,
                              Top.todo \ {t})
      BY <1>4 DEF Predict
    <2>2. CASE Raise
      BY <2>2, RaisePending
    <2>3. CASE /\ tasks' = T(t)
               /\ CallWith(IF next(t) = {} THEN <<>>
                           ELSE <<PredictFrame(t, next(t), Top.looked + 1, Top.mask)>>,
                           Top.todo \ {t})
      <3> DEFINE f      == PredictFrame(t, next(t), Top.looked + 1, Top.mask)
                 frames == IF next(t) = {} THEN <<>> ELSE <<f>>
                 S      == Top.todo \ {t}
                 frame  == [Top EXCEPT !.todo = S]
      <3>1. t \in Path
        BY <1>2
      \* Only tasks below t are removed, and only if t itself is expected.
      <3>2. \A d \in DOMAIN tasks \ DOMAIN tasks' :
               Above(t, d) /\ tasks[t].state \notin FINISHED
        <4>1. CASE In(tasks, t, Top.mask)
          <5>1. tasks[t].state \notin FINISHED
            BY <1>1, <1>2, <2>1, <4>1, StatesDiffer DEF FrameOK, In
          <5>2. \A d \in DOMAIN tasks : ~Above(t, d) => d \in DOMAIN tasks'
            BY <1>2, <2>1, <2>3, <4>1, PredictKeeps
          <5> QED
            BY <5>1, <5>2
        <4>2. CASE ~In(tasks, t, Top.mask)
          BY <2>3, <4>2
        <4> QED
          BY <4>1, <4>2
      <3>3. Loosens(tasks, tasks')
        BY <2>1, <3>2 DEF Loosens
      <3>4. next(t) \subseteq Children(tasks', t)
        BY <2>3 DEF PredictNext
      <3>5. next(t) \subseteq DOMAIN tasks' /\ \A z \in next(t) : z # Root /\ Parent(z) = t
        BY <3>4 DEF Children
      <3>6. next(t) \in SUBSET Path
        BY <3>4, ChildrenTyped DEF StepKeeps
      <3> HIDE DEF n, T, next
      <3>7. f \in FrameType /\ f.op = "predict" /\ f.task = t /\ f.todo = next(t)
        BY <1>2, <3>1, <3>6, PredictFrameTyped DEF PredictFrame
      <3>8. Pending(tasks', f)
        <4> HIDE DEF f
        <4> QED
          BY <3>5, <3>7 DEF Pending
      <3> HIDE DEF f
      <3>9. /\ frames \in Seq(FrameType) /\ AllPending(tasks', frames) /\ AllApart(frames)
            /\ \A i \in DOMAIN frames : frames[i] = f
        BY <3>7, <3>8, OnePending, NonePending, NoFrame
      \* The others of the list are siblings of t.
      <3>10. /\ \A z \in S : z # t /\ ~Above(t, z)
             /\ t = Top.task \/ (t # Root /\ Parent(t) = Top.task)
        <4>1. CASE Top.todo \subseteq {Top.task}
          BY <2>1, <4>1
        <4>2. CASE \A z \in Top.todo : z # Root /\ Parent(z) = Top.task
          <5>1. \A z \in S : z \in Path /\ z # Root /\ Parent(z) = Parent(t) /\ t # Root
            BY <1>2, <2>1, <4>2
          <5> QED
            BY <2>1, <3>1, <4>2, <5>1, SiblingsApart
        <4> QED
          BY <1>1, <1>2, <4>1, <4>2 DEF Pending
      <3>11. frame \in FrameType /\ frame.op = "predict" /\ frame.task = Top.task /\ frame.todo = S
        BY <1>1, <1>2 DEF FrameType
      <3>12. S \subseteq DOMAIN tasks'
        BY <1>1, <1>2, <3>2, <3>10 DEF Pending
      <3>13. Pending(tasks', frame)
        <4> HIDE DEF frame
        <4> QED
          BY <1>1, <1>2, <3>11, <3>12 DEF Pending
      <3>14. Apart(f, frame)
        <4> HIDE DEF frame
        <4> QED
          BY <3>7, <3>10, <3>11 DEF Apart
      <3>15. ASSUME NEW g \in FrameType, FrameOK(tasks, g), Pending(tasks, g), Apart(Top, g)
             PROVE  Pending(tasks', g) /\ Apart(f, g)
        <4>1. CASE g.op = "predict"
          <5>1. g.todo \in SUBSET Path /\ \A z \in g.todo : z # Top.task /\ ~Above(Top.task, z)
            BY <1>1, <3>15, <4>1 DEF Apart, FrameType
          <5>2. \A z \in g.todo : z # t /\ ~Above(t, z)
            <6> SUFFICES ASSUME NEW z \in g.todo, z = t \/ Above(t, z)
                         PROVE  FALSE
              OBVIOUS
            <6>1. t # Root /\ Parent(t) = Top.task
              BY <3>10, <5>1
            <6>2. Above(Top.task, t)
              BY <1>2, <3>1, <6>1, AboveParent
            <6>3. Above(Top.task, z)
              BY <1>2, <3>1, <5>1, <6>2, AboveTransitive
            <6> QED
              BY <5>1, <6>3
          <5>3. g.todo \subseteq DOMAIN tasks'
            BY <3>2, <3>15, <4>1, <5>2 DEF Pending
          <5> QED
            BY <3>7, <3>15, <4>1, <5>2, <5>3, KeepsPending DEF StepKeeps, Apart
        <4>2. CASE g.op # "predict"
          BY <3>3, <3>7, <3>15, <4>2, LoosensPending DEF StepKeeps, Apart
        <4> QED
          BY <4>1, <4>2
      <3>16. CallWith(frames, S)
        BY <2>3 DEF f
      <3>17. S \in SUBSET Path
        BY <1>2
      <3> HIDE DEF frames, S
      <3> QED
        BY <1>1, <3>9, <3>13, <3>14, <3>15, <3>16, <3>17, CallPending
    <2> QED
      BY <2>1, <2>2, <2>3
  <1> QED
    BY <1>3, <1>4

LEMMA UpdatePending ==
  ASSUME IInv, ReachInv, PendingInv, StepKeeps,
         UpdateSimple \/ UpdateFails \/ UpdateExecute \/ UpdateGate \/ UpdateAcquire
  PROVE  PendingInv'
  <1>1. CASE Raise
    BY <1>1, RaisePending
  <1>2. ASSUME calls # <<>>, SetReady(Top.task) \/ SetWaiting(Top.task) PROVE PendingInv'
    <2>1. Return /\ DOMAIN tasks' = DOMAIN tasks
      BY <1>2, SetStateEffect DEF SetReady, SetWaiting, Ready, StepKeeps
    <2> QED
      BY <1>2, <2>1, ReturnSamePending
  <1> QED
    BY <1>1, <1>2 DEF UpdateSimple, UpdateFails, UpdateExecute, UpdateGate, UpdateAcquire, Hook, Doing

\* Frames that cancel rely on nothing and touch nothing that is pending.
LEMMA CancelsPending ==
  ASSUME NEW frames \in Seq(FrameType), \A i \in DOMAIN frames : frames[i].op = "cancel", NEW T
  PROVE  /\ AllPending(T, frames) /\ AllApart(frames)
         /\ \A g : \A i \in DOMAIN frames : Apart(frames[i], g)
  BY DEF AllPending, AllApart, Pending, Apart

LEMMA UpdateJoinPending ==
  ASSUME IInv, ReachInv, PendingInv, StepKeeps, UpdateJoin
  PROVE  PendingInv'
  <1> DEFINE j       == Top.task
             s       == tasks[j].spec
             waiting == WaitingTasks(tasks, j)
             first   == IF Net[s].cancel
                        THEN [i \in DOMAIN waiting |-> Frame("cancel", j, waiting[i])]
                        ELSE <<>>
             joining == Frame("join", j, {})
             fire    == <<joining>>
             both    == first \o fire
  <1>1. calls # <<>> /\ Top.op = "hook" /\ j \in DOMAIN tasks /\ Kind(s) = "Join"
    BY DEF UpdateJoin, Hook, Doing, Top
  <1>2. Tree(tasks, Specs) /\ j \in Path /\ Top \in FrameType
    BY <1>1, InProgress, StateTyped
  <1>3. \/ Return /\ UNCHANGED tasks
        \/ Raise
        \/ ReturnTo(fire) /\ UNCHANGED tasks
        \/ SetWaiting(j)
        \/ ReturnTo(both) /\ UNCHANGED tasks
    BY DEF UpdateJoin
  <1>4. joining \in FrameType /\ joining.op = "join" /\ joining.task = j
    BY <1>2, FrameTyped DEF Ops, Frame
  <1>5. Pending(tasks, joining)
    <2> HIDE DEF joining
    <2> QED
      BY <1>1, <1>4 DEF Pending
  <1> HIDE DEF joining
  <1>6. /\ fire \in Seq(FrameType) /\ AllPending(tasks, fire) /\ AllApart(fire)
        /\ \A i \in DOMAIN fire : fire[i] = joining
    <2>1. fire \in Seq(FrameType)
      BY <1>4
    <2> QED
      BY <1>4, <1>5, <2>1, OnePending
  <1>7. first \in Seq(FrameType) /\ \A i \in DOMAIN first : first[i].op = "cancel"
    BY <1>1, <1>2, WaitingFrames, NoFrame
  <1> HIDE DEF first, fire, waiting
  <1>8. /\ AllPending(tasks, first) /\ AllApart(first)
        /\ \A g : \A i \in DOMAIN first : Apart(first[i], g)
    BY <1>7, CancelsPending
  <1>9. /\ both \in Seq(FrameType) /\ AllPending(tasks, both) /\ AllApart(both)
        /\ \A i \in DOMAIN both : both[i] = joining \/ \E k \in DOMAIN first : both[i] = first[k]
    <2>1. AllPending(tasks, both) /\ AllApart(both)
      BY <1>6, <1>7, <1>8, PendingConcat
    <2> QED
      BY <1>6, <1>7, <2>1, ConcatFrames
  <1> HIDE DEF both
  <1>10. \A g \in FrameType : Apart(Top, g) => Apart(joining, g)
    BY <1>1, <1>4 DEF Apart
  <1>11. ASSUME UNCHANGED tasks, NEW frames \in {fire, both}, ReturnTo(frames) PROVE PendingInv'
    <2>1. frames \in Seq(FrameType) /\ AllPending(tasks', frames) /\ AllApart(frames)
      BY <1>6, <1>9, <1>11
    <2>2. \A g \in FrameType : Apart(Top, g) => \A i \in DOMAIN frames : Apart(frames[i], g)
      BY <1>6, <1>8, <1>9, <1>10, <1>11
    <2>3. calls' = frames \o Tail(calls)
      BY <1>11 DEF ReturnTo
    <2>4. \A g \in FrameType : Pending(tasks, g) => Pending(tasks', g)
      BY <1>11
    <2> QED
      BY <1>1, <2>1, <2>2, <2>3, <2>4, TopPending
  <1>12. CASE SetWaiting(j)
    <2>1. Return /\ DOMAIN tasks' = DOMAIN tasks
      BY <1>12, <1>2, SetStateEffect DEF SetWaiting
    <2> QED
      BY <1>1, <2>1, ReturnSamePending
  <1>13. CASE Return /\ UNCHANGED tasks
    BY <1>1, <1>13, ReturnSamePending
  <1> QED
    BY <1>3, <1>11, <1>12, <1>13, RaisePending

LEMMA CancelNextPending ==
  ASSUME IInv, ReachInv, PendingInv, StepKeeps, CancelNext
  PROVE  PendingInv'
  <1>1. calls # <<>> /\ Top.op = "cancel"
    BY DEF CancelNext, Doing, Top
  <1>2. Tree(tasks, Specs) /\ Top \in FrameType /\ Top.todo \in SUBSET Path
    BY <1>1, InProgress, StackTyped
  <1>3. CASE Return /\ UNCHANGED tasks
    BY <1>1, <1>3, ReturnSamePending
  <1>4. ASSUME NEW t \in Top.todo, CallWith(<<>>, Top.todo \ {t}),
               tasks' = IF t \in DOMAIN tasks THEN CancelBranch(tasks, t) ELSE tasks
        PROVE  PendingInv'
    <2> DEFINE S      == Top.todo \ {t}
               frame  == [Top EXCEPT !.todo = S]
               frames == <<>>
    <2>1. Loosens(tasks, tasks')
      BY <1>2, <1>4, CancelLoosens DEF Loosens
    <2>2. ASSUME NEW g \in FrameType, FrameOK(tasks, g), Pending(tasks, g), Top.op \in Over(g.op)
          PROVE  Pending(tasks', g)
      <3>1. g.op # "predict"
        BY <1>1, <2>2, OverOps DEF FrameType
      <3> QED
        BY <2>1, <2>2, <3>1, LoosensPending DEF StepKeeps
    <2>3. frame.op = "cancel"
      BY <1>1, <1>2 DEF FrameType
    <2>4. Pending(tasks', frame)
      <3> HIDE DEF frame
      <3> QED
        BY <2>3 DEF Pending
    <2>5. frames \in Seq(FrameType) /\ DOMAIN frames = {} /\ AllPending(tasks', frames) /\ AllApart(frames)
      BY NoFrame, NonePending
    <2>6. CallWith(frames, S) /\ S \in SUBSET Path
      BY <1>2, <1>4
    <2> HIDE DEF frames, S
    <2> QED
      BY <1>1, <2>2, <2>4, <2>5, <2>6, CallPending
  <1> QED
    BY <1>3, <1>4 DEF CancelNext

\* A join that fires removes only what lies behind other instances of itself.
LEMMA FiringRemoves ==
  ASSUME IInv, JoinFires, NEW d \in DOMAIN tasks \ DOMAIN tasks'
  PROVE  /\ \E k \in OtherInstances(tasks, Top.task) : k \in DOMAIN tasks /\ Above(k, d)
         /\ ~Attached(tasks, d) \/ tasks[d].state \notin FINISHED
  <1> DEFINE found == OtherInstances(tasks, Top.task)
             V     == DropChildren(tasks, found)
             W     == SetState(V, found \intersect DOMAIN V, "CANCELLED")
  <1>1. Tree(tasks, Specs)
    BY IInvSplit
  <1>2. found \subseteq DOMAIN tasks /\ found \in SUBSET Path
    BY <1>1 DEF OtherInstances, Instances, OfSpec, Tree, IsTree
  <1>3. tasks' = Ready(W, Top.task)
    BY DEF JoinFires, DoJoin
  <1> HIDE DEF found
  <1>4. Tree(V, Specs)
    BY <1>1, <1>2, DropChildrenTree
  <1> HIDE DEF V
  <1>5. Tree(W, Specs) /\ DOMAIN W = DOMAIN V
    BY <1>4, SetStateTree, StatesDiffer
  <1> HIDE DEF W
  <1>6. DOMAIN tasks' = DOMAIN V
    BY <1>3, <1>5, SetStateEffect DEF Ready
  <1>7. d \in DOMAIN tasks \ DOMAIN DropChildren(tasks, found)
    BY <1>6 DEF V
  <1>8. PICK k \in found, r \in DOMAIN tasks : /\ tasks[r].state \in NOT_FINISHED
                                                /\ Above(k, r) /\ (r = d \/ Above(r, d))
    BY <1>7, DropLoosens
  <1>9. k \in Path /\ r \in Path /\ d \in Path
    BY <1>1, <1>2, StateTyped
  <1>10. Above(k, d)
    BY <1>8, <1>9, AboveTransitive
  <1>11. ~Attached(tasks, d) \/ tasks[d].state \notin FINISHED
    BY <1>8, StatesDiffer DEF Attached
  <1> QED
    BY <1>2, <1>10, <1>11 DEF found

LEMMA JoinFiresPending ==
  ASSUME IInv, ReachInv, PendingInv, StepKeeps, JoinFires,
         NEW after, NoLoopsIn(after), Behind(tasks, after)
  PROVE  PendingInv'
  <1> DEFINE j == Top.task
  <1>1. calls # <<>> /\ Top.op = "join" /\ j \in DOMAIN tasks /\ Return
    BY DEF JoinFires, Doing, Top
  <1>2. Tree(tasks, Specs) /\ Top \in FrameType /\ j \in Path /\ Pending(tasks, Top)
    BY <1>1, InProgress, StateTyped, RestPending
  <1>3. Kind(tasks[j].spec) = "Join" /\ tasks[j].spec \in Specs
    BY <1>1, <1>2, StateTyped DEF Pending
  \* No other instance is before the one that fires.
  <1>4. ASSUME NEW k \in OtherInstances(tasks, j), k \in DOMAIN tasks PROVE ~Above(k, j)
    <2>1. tasks[k].spec = tasks[j].spec
      BY DEF OtherInstances, Instances, OfSpec
    <2> QED
      BY <1>1, <1>3, <1>4, <2>1 DEF NoLoopsIn, Behind
  <1>5. ASSUME NEW g \in FrameType, FrameOK(tasks, g), Pending(tasks, g), Apart(Top, g),
               Top.op \in Over(g.op)
        PROVE  Pending(tasks', g)
    <2>1. g.op \in {"children", "visit", "finish"}
      BY <1>1, <1>5, OverOps DEF FrameType, Ops
    <2>2. g.op \in {"children", "finish"} =>
             g.task \in DOMAIN tasks /\ Attached(tasks, g.task) /\ tasks[g.task].state \in FINISHED
      BY <1>2, <1>5, FrameAttached DEF Pending, FrameOK, LiveIn
    <2>3. g.op \in {"children", "finish"} => g.task \in DOMAIN tasks'
      BY <2>2, FiringRemoves
    <2>4. ASSUME g.op = "children", NEW c \in g.todo PROVE c \in DOMAIN tasks'
      <3> SUFFICES ASSUME c \notin DOMAIN tasks' PROVE FALSE
        OBVIOUS
      <3>1. c \in DOMAIN tasks /\ c # Root /\ Parent(c) = g.task /\ c \in Path
        BY <1>2, <1>5, <2>4, StateTyped DEF Pending, FrameOK
      <3>2. j # Root /\ Parent(j) = g.task
        BY <1>1, <1>5, <2>4 DEF Apart
      <3>3. PICK k \in OtherInstances(tasks, j) : k \in DOMAIN tasks /\ Above(k, c)
        BY <3>1, FiringRemoves
      <3>4. k \in Path
        BY <1>2, <3>3, StateTyped
      <3>5. k = Parent(c) \/ Above(k, Parent(c))
        BY <3>1, <3>3, <3>4, AncestorOrParent
      <3>6. Above(k, j)
        BY <1>2, <3>1, <3>2, <3>4, <3>5, AboveParent
      <3> QED
        BY <1>4, <3>3, <3>6
    <2> QED
      BY <1>5, <2>1, <2>3, <2>4, KeepsPending DEF StepKeeps
  <1> QED
    BY <1>1, <1>5, ReturnPending

LEMMA CompleteTaskPending ==
  ASSUME IInv, ReachInv, PendingInv, StepKeeps, CompleteTask
  PROVE  PendingInv'
  <1> DEFINE t == Top.task
             a == Frame("children", t, Children(tasks, t))
             b == Frame("visit", t, {Root})
             c == Frame("finish", t, {})
             frames == <<a, b, c>>
  <1>1. calls # <<>> /\ Top.op = "complete"
    BY DEF CompleteTask, Doing, Top
  <1>2. /\ Tree(tasks, Specs) /\ Top \in FrameType /\ t \in Path
        /\ FrameOK(tasks, Top) /\ Pending(tasks, Top)
    BY <1>1, InProgress, StackTyped, RestPending
  <1>3. t \in DOMAIN tasks /\ Attached(tasks, t)
    BY <1>1, <1>2, FrameAttached DEF Pending
  <1>4. DOMAIN tasks' = DOMAIN tasks /\ tasks'[t].state = "COMPLETED" /\ Attached(tasks', t)
    <2>1. DOMAIN tasks' = DOMAIN tasks /\ tasks'[t].state = "COMPLETED"
      BY <1>2, <1>3, SetStateEffect DEF CompleteTask
    <2> QED
      BY <1>3, <2>1, AttachedStays DEF StepKeeps
  <1>5. /\ a \in FrameType /\ a.op = "children" /\ a.task = t /\ a.todo = Children(tasks, t)
        /\ b \in FrameType /\ b.op = "visit"
        /\ c \in FrameType /\ c.op = "finish" /\ c.task = t
    BY <1>2, RootPath, ChildrenTyped, FrameTyped DEF Frame, Ops
  <1> HIDE DEF a, b, c
  <1>6. Pending(tasks', a) /\ Pending(tasks', b) /\ Pending(tasks', c)
    BY <1>2, <1>3, <1>4, <1>5, ChildrenTyped DEF Pending, FINISHED
  <1>7. Apart(a, b) /\ Apart(a, c) /\ Apart(b, c)
    BY <1>5 DEF Apart
  <1>8. /\ frames \in Seq(FrameType) /\ DOMAIN frames = 1..3
        /\ frames[1] = a /\ frames[2] = b /\ frames[3] = c
    BY <1>5
  <1>9. calls' = frames \o Tail(calls)
    BY DEF CompleteTask, ReturnTo, a, b, c
  <1> HIDE DEF frames
  <1>10. AllPending(tasks', frames)
    BY <1>6, <1>8 DEF AllPending
  <1>11. AllApart(frames)
    <2> SUFFICES ASSUME NEW i \in 1..3, NEW k \in 1..3, i < k PROVE Apart(frames[i], frames[k])
      BY <1>8 DEF AllApart
    <2>1. (i = 1 /\ k = 2) \/ (i = 1 /\ k = 3) \/ (i = 2 /\ k = 3)
      OBVIOUS
    <2> QED
      BY <1>7, <1>8, <2>1
  <1>12. \A g \in FrameType : Top.op \notin Over(g.op)
    BY <1>1, OverOps DEF FrameType
  <1> QED
    BY <1>1, <1>8, <1>9, <1>10, <1>11, <1>12, TopPending

\* The calls by which a task is updated.
LEMMA UpdatesPending ==
  ASSUME Tree(tasks, Specs), NEW t \in DOMAIN tasks
  PROVE  /\ UpdateFrames(t) \in Seq(FrameType)
         /\ AllPending(tasks, UpdateFrames(t)) /\ AllApart(UpdateFrames(t))
         /\ \A i \in DOMAIN UpdateFrames(t) :
               /\ UpdateFrames(t)[i].op \in {"predict", "hook"}
               /\ UpdateFrames(t)[i].task = t
  <1> DEFINE p     == PredictFrame(t, {t}, 0, PREDICTED)
             h     == Frame("hook", t, {})
             first == IF In(tasks, t, PREDICTED) THEN <<p>> ELSE <<>>
             then  == <<h>>
  <1>1. t \in Path
    BY StateTyped
  <1>2. /\ p \in FrameType /\ p.op = "predict" /\ p.task = t /\ p.todo = {t}
        /\ h \in FrameType /\ h.op = "hook" /\ h.task = t
    BY <1>1, PredictFrameTyped, FrameTyped, MasksTyped DEF PredictFrame, Frame, Ops
  <1>3. UpdateFrames(t) = first \o then
    BY DEF UpdateFrames
  <1> HIDE DEF p, h
  <1>4. Pending(tasks, p) /\ Pending(tasks, h) /\ Apart(p, h)
    BY <1>2 DEF Pending, Apart
  <1>5. /\ first \in Seq(FrameType) /\ AllPending(tasks, first) /\ AllApart(first)
        /\ \A i \in DOMAIN first : first[i] = p
    BY <1>2, <1>4, OnePending, NonePending, NoFrame
  <1>6. /\ then \in Seq(FrameType) /\ AllPending(tasks, then) /\ AllApart(then)
        /\ \A i \in DOMAIN then : then[i] = h
    <2>1. then \in Seq(FrameType)
      BY <1>2
    <2> QED
      BY <1>2, <1>4, <2>1, OnePending
  <1> HIDE DEF first, then
  <1>7. AllPending(tasks, first \o then) /\ AllApart(first \o then)
    BY <1>4, <1>5, <1>6, PendingConcat
  <1>8. /\ first \o then \in Seq(FrameType)
        /\ \A i \in DOMAIN (first \o then) : (first \o then)[i] \in {p, h}
    BY <1>5, <1>6, ConcatFrames
  <1> QED
    BY <1>2, <1>3, <1>7, <1>8

\* A loop that leaves the tree alone, and calls nothing or updates a task.
LEMMA LoopPending ==
  ASSUME IInv, ReachInv, PendingInv, StepKeeps, Doing("children") \/ Doing("visit"), UNCHANGED tasks,
         NEW t \in DOMAIN tasks, NEW frames \in {<<>>, UpdateFrames(t)}, NEW S \in SUBSET Path,
         CallWith(frames, S),
         Top.op = "children" => S \subseteq Top.todo /\ t # Root /\ Parent(t) = Top.task
  PROVE  PendingInv'
  <1> DEFINE frame == [Top EXCEPT !.todo = S]
  <1>1. /\ calls # <<>> /\ Top.op \in {"children", "visit"}
        /\ Tree(tasks, Specs) /\ Top \in FrameType /\ Pending(tasks, Top)
    BY InProgress, RestPending DEF Doing, Top
  <1>2. frame.op = Top.op /\ frame.task = Top.task /\ frame.todo = S
    BY <1>1 DEF FrameType
  <1> HIDE DEF frame
  <1>3. Pending(tasks, frame)
    BY <1>1, <1>2 DEF Pending
  <1>4. /\ frames \in Seq(FrameType) /\ AllPending(tasks, frames) /\ AllApart(frames)
        /\ \A i \in DOMAIN frames : frames[i].op \in {"predict", "hook"} /\ frames[i].task = t
    BY <1>1, UpdatesPending, NonePending, NoFrame
  <1>5. \A i \in DOMAIN frames : Apart(frames[i], frame)
    BY <1>1, <1>2, <1>4 DEF Apart
  <1>6. ASSUME NEW g \in FrameType, Apart(Top, g), Top.op \in Over(g.op)
        PROVE  \A i \in DOMAIN frames : Apart(frames[i], g)
    <2>1. g.op \in {"visit", "finish"}
      <3>1. g.op \in {"children", "visit", "finish"}
        BY <1>1, <1>6, OverOps DEF FrameType, Ops
      <3> QED
        BY <1>1, <1>6, <3>1 DEF Apart
    <2> QED
      BY <2>1 DEF Apart
  <1>7. AllPending(tasks', frames) /\ Pending(tasks', frame)
    BY <1>3, <1>4
  <1>8. \A g \in FrameType : Pending(tasks, g) => Pending(tasks', g)
    OBVIOUS
  <1> HIDE DEF Doing
  <1> QED
    BY <1>1, <1>4, <1>5, <1>6, <1>7, <1>8, CallPending DEF frame

LEMMA ChildrenNextPending ==
  ASSUME IInv, ReachInv, PendingInv, StepKeeps, ChildrenNext
  PROVE  PendingInv'
  <1>1. Doing("children") /\ UNCHANGED tasks /\ calls # <<>> /\ Top.op = "children"
    BY DEF ChildrenNext, Doing, Top
  <1>2. Top \in FrameType /\ Top.todo \in SUBSET Path /\ FrameOK(tasks, Top)
    BY <1>1, InProgress, StackTyped
  <1>3. CASE Return
    BY <1>1, <1>3, ReturnSamePending
  <1>4. ASSUME NEW c \in Top.todo, c \in DOMAIN tasks,
               CallWith(IF In(tasks, c, FINISHED) THEN <<>> ELSE UpdateFrames(c), Top.todo \ {c})
        PROVE  PendingInv'
    <2>1. PICK frames \in {<<>>, UpdateFrames(c)} : CallWith(frames, Top.todo \ {c})
      BY <1>4
    <2>2. c # Root /\ Parent(c) = Top.task
      BY <1>1, <1>2, <1>4 DEF FrameOK
    <2>3. Top.todo \ {c} \in SUBSET Path /\ Top.todo \ {c} \subseteq Top.todo
      BY <1>2
    <2> QED
      BY <1>1, <1>4, <2>1, <2>2, <2>3, LoopPending
  <1> QED
    BY <1>3, <1>4 DEF ChildrenNext

LEMMA VisitNextPending ==
  ASSUME IInv, ReachInv, PendingInv, StepKeeps, VisitNext
  PROVE  PendingInv'
  <1>1. Doing("visit") /\ UNCHANGED tasks /\ calls # <<>> /\ Top.op = "visit"
    BY DEF VisitNext, Doing, Top
  <1>2. Top \in FrameType /\ Top.todo \in SUBSET Path /\ Tree(tasks, Specs)
    BY <1>1, InProgress, StackTyped
  <1>3. CASE Return
    BY <1>1, <1>3, ReturnSamePending
  <1>4. Root \in DOMAIN tasks
    BY <1>2 DEF Tree, Closed
  <1>5. ASSUME NEW t \in Top.todo,
               IF t \in DOMAIN tasks
               THEN CallWith(IF In(tasks, t, {"WAITING"}) THEN UpdateFrames(t) ELSE <<>>,
                             (Top.todo \ {t})
                                 \union (IF In(tasks, t, PREDICTED) THEN {} ELSE Children(tasks, t)))
               ELSE CallWith(<<>>, Top.todo \ {t})
        PROVE  PendingInv'
    <2>1. PICK u \in DOMAIN tasks : \E frames \in {<<>>, UpdateFrames(u)}, S \in SUBSET Path :
                                       CallWith(frames, S)
      <3>1. Top.todo \ {t} \in SUBSET Path /\ Children(tasks, t) \in SUBSET Path
        BY <1>2, ChildrenTyped
      <3>2. CASE t \in DOMAIN tasks
        <4> DEFINE S == (Top.todo \ {t})
                            \union (IF In(tasks, t, PREDICTED) THEN {} ELSE Children(tasks, t))
        <4>1. S \in SUBSET Path
          BY <3>1
        <4>2. CallWith(<<>>, S) \/ CallWith(UpdateFrames(t), S)
          BY <1>5, <3>2
        <4> QED
          BY <3>2, <4>1, <4>2
      <3>3. CASE t \notin DOMAIN tasks
        BY <1>4, <1>5, <3>1, <3>3
      <3> QED
        BY <3>2, <3>3
    <2> QED
      BY <1>1, <2>1, LoopPending
  <1> QED
    BY <1>3, <1>5 DEF VisitNext

LEMMA StepPending ==
  ASSUME IInv, ReachInv, PendingInv, StepKeeps, Step,
         NEW after, NoLoopsIn(after), Behind(tasks, after)
  PROVE  PendingInv'
  <1>1. CASE Finish
    <2>1. Return /\ calls # <<>> /\ UNCHANGED tasks
      BY <1>1 DEF Finish, Doing
    <2> QED
      BY <2>1, ReturnSamePending
  <1>2. CASE UpdateSimple \/ UpdateFails \/ UpdateExecute \/ UpdateGate \/ UpdateAcquire \/ UpdateJoin
    BY <1>2, UpdatePending, UpdateJoinPending
  <1>3. CASE Predict \/ CancelNext \/ JoinFires
    BY <1>3, PredictPending, CancelNextPending, JoinFiresPending
  <1>4. CASE CompleteTask \/ ChildrenNext \/ VisitNext
    BY <1>4, CompleteTaskPending, ChildrenNextPending, VisitNextPending
  <1> QED
    BY <1>1, <1>2, <1>3, <1>4 DEF Step

\* Running a task leaves what the run hook has still to do, and the completion.
LEMMA RunPending ==
  ASSUME NEW t \in Path, t \in DOMAIN tasks', NEW frames \in Seq(FrameType), RunWith(t, frames),
         AllPending(tasks', frames), AllApart(frames)
  PROVE  PendingInv'
  <1> DEFINE f    == Frame("complete", t, {})
             done == <<f>>
  <1>1. f \in FrameType /\ f.op = "complete" /\ f.task = t
    BY FrameTyped DEF Ops, Frame
  <1>2. calls' = frames \o done
    BY DEF RunWith
  <1> HIDE DEF f
  <1>3. Pending(tasks', f) /\ \A h : Apart(h, f)
    BY <1>1 DEF Pending, Apart
  <1>4. /\ done \in Seq(FrameType) /\ AllPending(tasks', done) /\ AllApart(done)
        /\ \A i \in DOMAIN done : done[i] = f
    <2>1. done \in Seq(FrameType)
      BY <1>1
    <2> QED
      BY <1>1, <1>3, <2>1, OnePending
  <1> HIDE DEF done
  <1> QED
    BY <1>2, <1>3, <1>4, PendingConcat DEF PendingInv

LEMMA RunAlonePending ==
  ASSUME NEW t \in Path, t \in DOMAIN tasks', RunWith(t, <<>>)
  PROVE  PendingInv'
  <1> DEFINE none == <<>>
  <1>1. none \in Seq(FrameType) /\ RunWith(t, none) /\ AllPending(tasks', none) /\ AllApart(none)
    BY NoFrame, NonePending
  <1> HIDE DEF none
  <1> QED
    BY <1>1, RunPending

LEMMA RestIsPending == calls' = <<>> => PendingInv'
  BY NonePending DEF PendingInv

LEMMA RunSplitPending ==
  ASSUME IInv, calls = <<>>, NEW t \in DOMAIN tasks, NEW outs, NEW n, Gapped(outs, n),
         NEW looked \in Nat, RunSplit(t, outs, n, looked)
  PROVE  PendingInv'
  <1>1. CASE RunRaises(t)
    BY <1>1, RestIsPending DEF RunRaises
  <1>2. CASE ~SyncRaises(tasks, t, outs, n)
    <2> DEFINE mask == PREDICTED \union {"FUTURE"}
               todo == InState(tasks', mask) \intersect Children(tasks', t)
               f    == PredictFrame(t, todo, looked, mask)
               frames == <<f>>
    <2>1. tasks' = SyncChildren(tasks, t, outs, n, "FUTURE") /\ RunWith(t, frames)
      BY <1>2 DEF RunSplit
    <2>2. Tree(tasks, Specs) /\ t \in Path
      BY IInvSplit, StateTyped
    <2>3. Tree(tasks', Specs) /\ t \in DOMAIN tasks'
      BY <2>1, <2>2, SyncTyped, MasksTyped
    <2>4. todo \in SUBSET Path /\ todo \subseteq DOMAIN tasks'
      BY <2>3, ChildrenTyped
    <2>5. \A z \in todo : z # Root /\ Parent(z) = t
      BY DEF Children
    <2>6. mask \in SUBSET ANY
      BY MasksTyped
    <2> HIDE DEF todo, mask
    <2>7. f \in FrameType /\ f.op = "predict" /\ f.task = t /\ f.todo = todo
      BY <2>2, <2>4, <2>6, PredictFrameTyped DEF PredictFrame
    <2> HIDE DEF f
    <2>8. Pending(tasks', f)
      BY <2>4, <2>5, <2>7 DEF Pending
    <2>9. frames \in Seq(FrameType)
      BY <2>7
    <2>10. AllPending(tasks', frames) /\ AllApart(frames)
      BY <2>7, <2>8, OnePending
    <2> HIDE DEF frames
    <2> QED
      BY <2>1, <2>2, <2>3, <2>9, <2>10, RunPending
  <1> QED
    BY <1>1, <1>2 DEF RunSplit

LEMMA RunSplitsPending ==
  ASSUME IInv, calls = <<>>, NEW t \in DOMAIN tasks,
         RunMultiChoice(t) \/ RunExclusiveChoice(t) \/ RunMultiInstance(t) \/ RunThreadSplit(t)
  PROVE  PendingInv'
  <1> DEFINE s == tasks[t].spec
  <1>1. Tree(tasks, Specs) /\ s \in Specs /\ t \in Path /\ 0 \in Nat /\ 1 \in Nat
    BY IInvSplit, StateTyped
  <1>2. ASSUME NEW n \in Net[s].times
        PROVE  Gapped(PredictedOutputs(s, n), OutputCount(s, n))
    BY <1>1, NetTyped, PredictedOutputsGapped
  <1>3. CASE RunMultiChoice(t)
    <2>1. PICK S : RunSplit(t, Pick(Outputs(s), S), Len(Outputs(s)), 0)
      BY <1>3 DEF RunMultiChoice
    <2> QED
      BY <1>1, <2>1, PickGapped, RunSplitPending
  <1>4. CASE RunExclusiveChoice(t)
    <2>1. PICK output \in Net[s].cond \union {Net[s].default} : RunSplit(t, <<output>>, 1, 0)
      BY <1>4 DEF RunExclusiveChoice
    <2>2. Kind(s) = "ExclusiveChoice"
      BY <1>4 DEF RunExclusiveChoice, Running
    <2>3. output \in Specs
      BY <1>1, <2>2, NetTyped
    <2>4. Gapped(<<output>>, 1)
      BY <2>3 DEF Gapped
    <2> QED
      BY <1>1, <2>1, <2>4, RunSplitPending
  <1>5. CASE RunMultiInstance(t)
    <2>1. PICK n \in Net[s].times : RunSplit(t, PredictedOutputs(s, n), OutputCount(s, n), 1)
      BY <1>5 DEF RunMultiInstance
    <2> QED
      BY <1>1, <1>2, <2>1, RunSplitPending
  <1>6. CASE RunThreadSplit(t)
    <2>1. PICK n \in Net[s].times :
             \/ RunRaises(t)
             \/ /\ tasks' = SyncChildren(tasks, t, PredictedOutputs(s, n), OutputCount(s, n), "FUTURE")
                /\ RunWith(t, <<>>)
      BY <1>6 DEF RunThreadSplit
    <2>2. CASE RunRaises(t)
      BY <2>2, RestIsPending DEF RunRaises
    <2>3. CASE /\ tasks' = SyncChildren(tasks, t, PredictedOutputs(s, n), OutputCount(s, n), "FUTURE")
               /\ RunWith(t, <<>>)
      <3>1. t \in DOMAIN tasks'
        BY <1>1, <1>2, <2>3, SyncTyped, MasksTyped
      <3> QED
        BY <1>1, <2>3, <3>1, RunAlonePending
    <2> QED
      BY <2>1, <2>2, <2>3
  <1> QED
    BY <1>3, <1>4, <1>5, <1>6

LEMMA ThreadStartPending ==
  ASSUME IInv, calls = <<>>, NEW t \in DOMAIN tasks, RunThreadStart(t)
  PROVE  PendingInv'
  <1> DEFINE T    == AssignThread(tasks, t, threads + 1)
             outs == Outputs(tasks[t].spec)
  <1>1. Tree(tasks, Specs) /\ threads + 1 \in Nat /\ tasks[t].spec \in Specs /\ t \in Path
    BY IInvSplit, StateTyped DEF OthersTyped
  <1>2. Tree(T, Specs) /\ t \in DOMAIN T
    BY <1>1, AssignThreadTree
  <1>3. Gapped(outs, Len(outs)) /\ "READY" \in ANY
    BY <1>1, OutputsGapped, MasksTyped
  <1>4. \/ calls' = calls
        \/ tasks' = SyncChildren(T, t, outs, Len(outs), "READY") /\ RunWith(t, <<>>)
    BY DEF RunThreadStart
  <1> HIDE DEF T, outs
  <1>5. CASE tasks' = SyncChildren(T, t, outs, Len(outs), "READY") /\ RunWith(t, <<>>)
    <2>1. t \in DOMAIN tasks'
      BY <1>2, <1>3, <1>5, SyncTyped
    <2> QED
      BY <1>1, <1>5, <2>1, RunAlonePending
  <1> QED
    BY <1>4, <1>5, RestIsPending

LEMMA RunsPending ==
  ASSUME IInv, ReachInv, Run
  PROVE  PendingInv'
  <1>1. PICK t \in DOMAIN tasks : RunTask(t)
    BY DEF Run
  <1>2. PICK kinds : Running(t, kinds)
    BY <1>1 DEF RunTask, RunSimple, RunFails, RunMultiChoice, RunExclusiveChoice, RunMultiInstance,
                RunThreadSplit, RunThreadStart, RunReleaseMutex, RunCancel, RunCancelTask
  <1>3. calls = <<>> /\ Tree(tasks, Specs) /\ Attached(tasks, t) /\ t \in Path
    BY <1>2, RunnableReach
  <1>4. CASE RunRaises(t)
    BY <1>3, <1>4, RestIsPending DEF RunRaises
  <1>5. CASE RunWith(t, <<>>) /\ t \in DOMAIN tasks'
    BY <1>3, <1>5, RunAlonePending
  <1>6. CASE RunSimple(t) \/ RunFails(t) \/ RunReleaseMutex(t)
    BY <1>4, <1>5, <1>6 DEF RunSimple, RunFails, RunReleaseMutex
  <1>7. CASE RunCancel(t)
    <2>1. t \in DOMAIN CancelBranch(tasks, Root)
      BY <1>3, CancelLoosens, AttachedSurvives
    <2> QED
      BY <1>5, <1>7, <2>1 DEF RunCancel
  <1>8. CASE RunCancelTask(t)
    <2> DEFINE context == Net[tasks[t].spec].context
               frames  == [i \in DOMAIN context |-> Frame("cancel", t, OfSpec(tasks, context[i]))]
    <2>1. frames \in Seq(FrameType) /\ \A i \in DOMAIN frames : frames[i].op = "cancel"
      BY <1>3, ContextFrames
    <2>2. RunWith(t, frames) /\ UNCHANGED tasks
      BY <1>8 DEF RunCancelTask
    <2> HIDE DEF frames
    <2>3. AllPending(tasks', frames) /\ AllApart(frames)
      BY <2>1, CancelsPending
    <2> QED
      BY <1>3, <2>1, <2>2, <2>3, RunPending
  <1> QED
    BY <1>1, <1>3, <1>6, <1>7, <1>8, RunSplitsPending, ThreadStartPending DEF RunTask

LEMMA ResetPending ==
  ASSUME IInv, IInv', OrderlyReset
  PROVE  PendingInv'
  <1>1. PICK t \in DOMAIN tasks : GoBack(t)
    BY OrderlyResetGoesBack
  <1> DEFINE pruned == RemoveBranches(tasks, Children(tasks, t))
             bare   == SetState(pruned, {t}, "FUTURE")
             mask   == PREDICTED \union {"FUTURE"}
             next   == PredictNext(tasks', t, 0, mask)
             f      == PredictFrame(t, next, 1, mask)
             g      == Frame("hook", t, {})
             first  == <<f>>
             then   == <<g>>
  <1>2. Tree(bare, Specs) /\ t \in DOMAIN bare /\ t \in Path
    BY <1>1, ResetParts, StateTyped
  <1>3. PICK n \in Nat : tasks' = PredictHook(bare, t, n)
    BY <1>1, ResetParts
  <1>4. Tree(tasks', Specs)
    BY IInvSplitPrime
  <1>5. calls' = first \o then
    BY <1>1 DEF GoBack, ResetBranch
  <1> HIDE DEF pruned, bare
  <1>6. t \in DOMAIN tasks'
    BY <1>2, <1>3, NeverAboveItself, PredictKeeps
  <1>7. /\ next \in SUBSET Path /\ next \subseteq DOMAIN tasks' /\ mask \in SUBSET ANY
        /\ \A z \in next : z # Root /\ Parent(z) = t
    BY <1>4, PredictNextTyped, MasksTyped DEF PredictNext, Children
  <1> HIDE DEF next, mask
  <1>8. /\ f \in FrameType /\ f.op = "predict" /\ f.task = t /\ f.todo = next
        /\ g \in FrameType /\ g.op = "hook" /\ g.task = t
    BY <1>2, <1>7, PredictFrameTyped, FrameTyped DEF PredictFrame, Frame, Ops
  <1> HIDE DEF f, g
  <1>9. Pending(tasks', f) /\ Pending(tasks', g) /\ Apart(f, g)
    BY <1>6, <1>7, <1>8 DEF Pending, Apart
  <1>10. first \in Seq(FrameType) /\ then \in Seq(FrameType)
    BY <1>8
  <1>11. /\ AllPending(tasks', first) /\ AllApart(first) /\ AllPending(tasks', then) /\ AllApart(then)
         /\ (\A i \in DOMAIN first : first[i] = f) /\ (\A i \in DOMAIN then : then[i] = g)
    BY <1>8, <1>9, OnePending
  <1> HIDE DEF first, then
  <1> QED
    BY <1>5, <1>9, <1>10, <1>11, PendingConcat DEF PendingInv

LEMMA VisitAlonePending == UpdateWaitingTasks => PendingInv'
  <1> SUFFICES ASSUME UpdateWaitingTasks PROVE PendingInv'
    OBVIOUS
  <1> DEFINE f == Frame("visit", Root, {Root})
             c == <<f>>
  <1>1. f \in FrameType /\ f.op = "visit"
    BY RootPath, FrameTyped DEF Ops, Frame
  <1>2. calls' = c
    BY DEF UpdateWaitingTasks
  <1> HIDE DEF f
  <1>3. \A T : Pending(T, f)
    BY <1>1 DEF Pending
  <1>4. AllPending(tasks', c) /\ AllApart(c)
    BY <1>1, <1>3, OnePending
  <1> HIDE DEF c
  <1> QED
    BY <1>2, <1>4 DEF PendingInv

LEMMA NextPending ==
  ASSUME IInv, ReachInv, PendingInv, [OrderlyNext]_vars,
         NEW after, NoLoopsIn(after), Behind(tasks, after)
  PROVE  PendingInv' /\ Behind(tasks', after)
  <1>1. IInv' /\ Tree(tasks, Specs) /\ Tree(tasks', Specs)
    BY OrderlyIInv, IInvSplit, IInvSplitPrime
  <1>2. ByNet(tasks, tasks')
    BY <1>1, NextByNet DEF StepByNet
  <1>3. Behind(tasks', after)
    BY <1>1, <1>2, BehindStays DEF NoLoopsIn
  <1>4. CASE Step
    BY <1>1, <1>2, <1>3, <1>4, StepReach, StepPending DEF StepKeeps, ByNet
  <1>5. CASE Run \/ OrderlyReset \/ UpdateWaitingTasks
    BY <1>1, <1>3, <1>5, RunsPending, ResetPending, VisitAlonePending
  <1>6. CASE Cancel
    BY <1>3, <1>6, RestIsPending DEF Cancel, Quiescent
  <1>7. CASE UNCHANGED vars
    <2>1. UNCHANGED <<tasks, calls>>
      BY <1>7 DEF vars
    <2> QED
      BY <1>3, <2>1 DEF PendingInv
  <1> QED
    BY <1>3, <1>4, <1>5, <1>6, <1>7 DEF OrderlyNext

LEMMA InitPending ==
  ASSUME Init, NEW after
  PROVE  PendingInv /\ Behind(tasks, after)
  <1> DEFINE f == PredictFrame(Root, {Root}, 0, NOT_FINISHED)
             g == Frame("hook", Root, {})
             c == <<f, g>>
  <1>1. calls = c /\ DOMAIN tasks = {Root}
    BY DEF Init
  <1>2. /\ f.op = "predict" /\ f.task = Root /\ f.todo = {Root}
        /\ g.op = "hook" /\ g.task = Root
    BY DEF PredictFrame, Frame
  <1> HIDE DEF f, g
  <1>3. Pending(tasks, f) /\ Pending(tasks, g) /\ Apart(f, g)
    BY <1>1, <1>2 DEF Pending, Apart
  <1>4. DOMAIN c = 1..2 /\ c[1] = f /\ c[2] = g
    OBVIOUS
  <1> HIDE DEF c
  <1>5. AllPending(tasks, c)
    BY <1>3, <1>4 DEF AllPending
  <1>6. AllApart(c)
    <2> SUFFICES ASSUME NEW i \in 1..2, NEW k \in 1..2, i < k PROVE Apart(c[i], c[k])
      BY <1>4 DEF AllApart
    <2>1. i = 1 /\ k = 2
      OBVIOUS
    <2> QED
      BY <1>3, <1>4, <2>1
  <1>7. Behind(tasks, after)
    BY <1>1, RootPath, NothingAboveRoot DEF Behind
  <1> QED
    BY <1>1, <1>5, <1>6, <1>7 DEF PendingInv

\* No call works on a task that has been removed: neither an update that waits for a
\* prediction, nor a join that has cancelled what it waits for, nor the loop over the
\* children of a task that completes.  The net is one for which WorkflowSpec.validate
\* reports no join that leads back to itself.
THEOREM PendingStaysLive ==
  ASSUME NEW CONSTANT after, NoLoopsIn(after)
  PROVE  OrderlySpec => []PendingLive
  <1>1. Init => PendingInv /\ Behind(tasks, after)
    BY InitPending
  <1>2. IInv /\ ReachInv /\ PendingInv /\ Behind(tasks, after) /\ [OrderlyNext]_vars
           => PendingInv' /\ Behind(tasks, after)'
    BY NextPending
  <1>3. PendingInv => PendingLive
    BY DEF PendingInv, AllPending, Pending, PendingLive
  <1> QED
    BY <1>1, <1>2, <1>3, ReachAlways, PTL DEF OrderlySpec

-----------------------------------------------------------------------------
(* A join fires on an instance that has survived *)

\* A list of tasks to cancel that holds neither j nor anything before it.
Spares(f, j) == \A t \in f.todo : t # j /\ ~Above(t, j)

\* No join that is about to fire, and nothing that one cancels before.
NoJoins(c) == \A i \in DOMAIN c : c[i].op \notin {"cancel", "join"}

\* A join that is not structured, nor connected to itself, cancels unfinished tasks of
\* other specs; and so does one that does not cancel.
CancelsOthers(s) ==
    Net[s].cancel => Net[s].split = None /\ \A i \in DOMAIN Inputs(s) : Inputs(s)[i] # s

\* Between the decision to fire and the firing, only what the join does not wait for is
\* cancelled, and that does not lie at or before the join.
FiringInv ==
    \A k \in DOMAIN calls :
        calls[k].op = "join" =>
            /\ calls[k].task \in DOMAIN tasks
            /\ Kind(tasks[calls[k].task].spec) = "Join"
            /\ CancelsOthers(tasks[calls[k].task].spec) =>
                  /\ tasks[calls[k].task].state \in NOT_FINISHED
                  /\ \A i \in DOMAIN calls : i < k => Spares(calls[i], calls[k].task)

LEMMA NoJoinsConcat ==
  ASSUME NEW a \in Seq(FrameType), NEW b \in Seq(FrameType), NoJoins(a), NoJoins(b)
  PROVE  NoJoins(a \o b)
  BY ConcatFrames DEF NoJoins

LEMMA NoJoinsOne ==
  ASSUME NEW f \in FrameType, f.op \notin {"cancel", "join"}
  PROVE  <<f>> \in Seq(FrameType) /\ NoJoins(<<f>>)
  BY DEF NoJoins

LEMMA NoJoinsNone == <<>> \in Seq(FrameType) /\ NoJoins(<<>>)
  BY DEF NoJoins

LEMMA NoneFiring == NoJoins(calls') => FiringInv'
  BY DEF NoJoins, FiringInv

\* Only what it cancels is above a join, and never another join.
LEMMA NoJoinsRest ==
  ASSUME IInv, ReachInv, calls # <<>>, Top.op # "cancel"
  PROVE  Tail(calls) \in Seq(FrameType) /\ NoJoins(Tail(calls))
  <1> DEFINE rest == Tail(calls)
  <1>1. calls \in Seq(FrameType) /\ Ordered(calls) /\ Top.op \in Ops
    BY InProgress DEF FrameType
  <1>2. /\ rest \in Seq(FrameType) /\ Len(rest) = Len(calls) - 1 /\ Top = calls[1]
        /\ \A i \in 1..Len(rest) : rest[i] = calls[i + 1]
        /\ Len(calls) \in Nat \ {0} /\ Len(rest) \in Nat
    BY <1>1, HeadTailProperties, LenProperties DEF Top
  <1>3. DOMAIN calls = 1..Len(calls) /\ DOMAIN rest = 1..Len(rest)
    BY <1>1, <1>2, LenProperties
  <1> HIDE DEF rest
  <1>4. ASSUME NEW i \in DOMAIN rest PROVE rest[i].op \notin {"cancel", "join"}
    <2>1. i + 1 \in DOMAIN calls /\ 1 \in DOMAIN calls /\ rest[i] = calls[i + 1] /\ 1 < i + 1
      BY <1>2, <1>3
    <2>2. Top.op \in Over(rest[i].op)
      BY <1>1, <1>2, <2>1 DEF Ordered
    <2> QED
      BY <2>2 DEF Over
  <1> QED
    BY <1>2, <1>4 DEF NoJoins, rest

\* The top frame is replaced by others.
Pushes == \E frames \in Seq(FrameType) : calls' = frames \o Tail(calls)

PushesNoJoin ==
    \E frames \in Seq(FrameType) : NoJoins(frames) /\ calls' = frames \o Tail(calls)

LEMMA NoJoinsPushed ==
  ASSUME IInv, ReachInv, calls # <<>>, Top.op # "cancel", PushesNoJoin
  PROVE  FiringInv'
  BY NoJoinsRest, NoJoinsConcat, NoneFiring DEF PushesNoJoin

LEMMA ReturnPushes == ASSUME IInv, calls # <<>>, Return PROVE PushesNoJoin
  <1> DEFINE none == <<>>
  <1>1. Tail(calls) \in Seq(FrameType)
    BY IInvSplit, HeadTailProperties
  <1>2. none \in Seq(FrameType) /\ NoJoins(none) /\ Tail(calls) = none \o Tail(calls)
    BY <1>1, NoJoinsNone
  <1> HIDE DEF none
  <1> QED
    BY <1>2 DEF PushesNoJoin, Return

LEMMA CallPushes ==
  ASSUME IInv, calls # <<>>, Top.op \notin {"cancel", "join"},
         NEW frames \in Seq(FrameType), NoJoins(frames), NEW S \in SUBSET Path, CallWith(frames, S)
  PROVE  PushesNoJoin
  <1> DEFINE frame == [Top EXCEPT !.todo = S]
             again == IF S = {} THEN <<>> ELSE <<frame>>
             both  == frames \o again
  <1>1. frame \in FrameType /\ frame.op \notin {"cancel", "join"}
    BY IInvSplit, StackTyped DEF FrameType
  <1>2. calls' = both \o Tail(calls)
    BY DEF CallWith
  <1> HIDE DEF frame
  <1>3. again \in Seq(FrameType) /\ NoJoins(again)
    BY <1>1, NoJoinsOne, NoJoinsNone
  <1> HIDE DEF again
  <1>4. both \in Seq(FrameType) /\ NoJoins(both)
    BY <1>3, ConcatFrames, NoJoinsConcat
  <1> HIDE DEF both
  <1> QED
    BY <1>2, <1>4 DEF PushesNoJoin

LEMMA RaiseFiring == Raise => FiringInv'
  BY NoJoinsNone, NoneFiring DEF Raise

\* A prediction that raises: it would have to remove a definite child.
PredictRaises ==
    /\ Doing("predict")
    /\ \E t \in Top.todo : /\ IsFirst(t, Top.todo)
                           /\ t \in DOMAIN tasks
                           /\ In(tasks, t, Top.mask)
                           /\ HookRaises(tasks, t, PredictedTimes(tasks[t].spec))

LEMMA PredictPushes ==
  ASSUME IInv, ReachInv, Predict
  PROVE  (PredictRaises /\ Raise) \/ PushesNoJoin
  <1>1. calls # <<>> /\ Top.op = "predict"
    BY DEF Predict, Doing, Top
  <1>2. /\ Top \in FrameType /\ Top.task \in Path /\ Top.todo \in SUBSET Path
        /\ Top.looked \in Nat /\ Top.mask \in SUBSET ANY /\ Tree(tasks, Specs)
    BY <1>1, InProgress, StackTyped
  <1>3. CASE Top.todo = {}
    BY <1>1, <1>3, ReturnPushes DEF Predict
  <1>4. CASE Top.todo # {}
    <2>1. PICK t \in Top.todo :
            \E T : \/ PredictRaises /\ Raise
                  \/ /\ tasks' = T
                     /\ CallWith(IF PredictNext(T, t, Top.looked, Top.mask) = {} THEN <<>>
                                 ELSE <<PredictFrame(t, PredictNext(T, t, Top.looked, Top.mask),
                                                     Top.looked + 1, Top.mask)>>,
                                 Top.todo \ {t})
      BY <1>1, <1>4 DEF Predict, PredictRaises
    <2>3. PICK T :
            \/ PredictRaises /\ Raise
            \/ /\ tasks' = T
               /\ CallWith(IF PredictNext(T, t, Top.looked, Top.mask) = {} THEN <<>>
                           ELSE <<PredictFrame(t, PredictNext(T, t, Top.looked, Top.mask),
                                               Top.looked + 1, Top.mask)>>,
                           Top.todo \ {t})
      BY <2>1
    <2>2. CASE ~(PredictRaises /\ Raise)
      <3> DEFINE next   == PredictNext(T, t, Top.looked, Top.mask)
                 f      == PredictFrame(t, next, Top.looked + 1, Top.mask)
                 frames == IF next = {} THEN <<>> ELSE <<f>>
                 S      == Top.todo \ {t}
      <3>1. CallWith(frames, S) /\ S \in SUBSET Path /\ tasks' = T
        BY <1>2, <2>3, <2>2
      <3>2. Tree(T, Specs)
        BY <3>1, OrderlyIInv, IInvSplitPrime DEF OrderlyNext, Step
      <3>3. next \in SUBSET Path
        BY <3>2, <1>2, PredictNextTyped
      <3> HIDE DEF next
      <3>4. f \in FrameType /\ f.op \notin {"cancel", "join"}
        BY <1>2, <3>3, PredictFrameTyped DEF PredictFrame
      <3> HIDE DEF f
      <3>5. frames \in Seq(FrameType) /\ NoJoins(frames)
        BY <3>4, NoJoinsOne, NoJoinsNone
      <3> HIDE DEF frames, S
      <3> QED
        BY <1>1, <3>1, <3>5, CallPushes
    <2> QED
      BY <2>2
  <1> QED
    BY <1>3, <1>4

LEMMA CompleteTaskPushes == ASSUME IInv, ReachInv, CompleteTask PROVE PushesNoJoin
  <1> DEFINE t == Top.task
             f == Frame("children", t, Children(tasks, t))
             g == Frame("visit", t, {Root})
             h == Frame("finish", t, {})
             frames == <<f, g, h>>
  <1>1. calls # <<>> /\ Top.op = "complete" /\ calls' = frames \o Tail(calls)
    BY DEF CompleteTask, Doing, Top, ReturnTo
  <1>2. Tree(tasks, Specs) /\ t \in Path
    BY <1>1, InProgress, StackTyped
  <1>3. /\ f \in FrameType /\ g \in FrameType /\ h \in FrameType
        /\ f.op = "children" /\ g.op = "visit" /\ h.op = "finish"
    BY <1>2, ChildrenTyped, RootPath, FrameTyped DEF Ops, Frame
  <1> HIDE DEF f, g, h
  <1>4. /\ frames \in Seq(FrameType) /\ DOMAIN frames = 1..3
        /\ frames[1] = f /\ frames[2] = g /\ frames[3] = h
    BY <1>3
  <1> HIDE DEF frames
  <1>5. NoJoins(frames)
    BY <1>3, <1>4 DEF NoJoins
  <1> QED
    BY <1>1, <1>4, <1>5 DEF PushesNoJoin

LEMMA UpdateFramesFire ==
  ASSUME NEW t \in Path
  PROVE  UpdateFrames(t) \in Seq(FrameType) /\ NoJoins(UpdateFrames(t))
  <1> DEFINE f == PredictFrame(t, {t}, 0, PREDICTED)
             g == Frame("hook", t, {})
             a == IF In(tasks, t, PREDICTED) THEN <<f>> ELSE <<>>
             b == <<g>>
  <1>1. f \in FrameType /\ g \in FrameType /\ {f.op, g.op} \intersect {"cancel", "join"} = {}
    BY PredictFrameTyped, FrameTyped, MasksTyped DEF PredictFrame, Frame, Ops
  <1>2. UpdateFrames(t) = a \o b
    BY DEF UpdateFrames
  <1> HIDE DEF f, g
  <1>3. a \in Seq(FrameType) /\ NoJoins(a) /\ b \in Seq(FrameType) /\ NoJoins(b)
    BY <1>1, NoJoinsOne, NoJoinsNone
  <1> HIDE DEF a, b
  <1> QED
    BY <1>2, <1>3, ConcatFrames, NoJoinsConcat

LEMMA LoopPushes == ASSUME IInv, ChildrenNext \/ VisitNext PROVE PushesNoJoin
  <1>1. /\ calls # <<>> /\ Top.op \in {"children", "visit"}
        /\ Tree(tasks, Specs) /\ Top.todo \in SUBSET Path
    BY IInvSplit, StackTyped DEF ChildrenNext, VisitNext, Doing, Top
  <1>2. ASSUME NEW t \in Path, NEW S \in SUBSET Path,
               CallWith(UpdateFrames(t), S) \/ CallWith(<<>>, S)
        PROVE  PushesNoJoin
    BY <1>1, <1>2, UpdateFramesFire, NoJoinsNone, CallPushes
  <1>3. CASE ChildrenNext /\ Top.todo # {}
    <2>1. PICK c \in Top.todo :
            CallWith(IF In(tasks, c, FINISHED) THEN <<>> ELSE UpdateFrames(c), Top.todo \ {c})
      BY <1>3 DEF ChildrenNext
    <2> QED
      BY <1>1, <1>2, <2>1
  <1>4. CASE VisitNext /\ Top.todo # {}
    <2>1. PICK t \in Top.todo, S \in SUBSET Path :
            CallWith(UpdateFrames(t), S) \/ CallWith(<<>>, S)
      BY <1>1, <1>4, ChildrenTyped DEF VisitNext
    <2> QED
      BY <1>1, <1>2, <2>1
  <1> QED
    BY <1>1, <1>3, <1>4, ReturnPushes DEF ChildrenNext, VisitNext

\* The steps that only push frames of which no one is a join, and those that raise.
LEMMA StepPushes ==
  ASSUME IInv, ReachInv, Step, ~UpdateJoin, ~CancelNext
  PROVE  calls # <<>> /\ (PushesNoJoin \/ (Raise /\ (PredictRaises \/ UpdateFails)))
  <1>1. CASE UpdateSimple \/ UpdateFails \/ UpdateExecute \/ UpdateGate \/ UpdateAcquire
    BY <1>1, ReturnPushes
    DEF UpdateSimple, UpdateFails, UpdateExecute, UpdateGate, UpdateAcquire, Hook, Doing,
        SetReady, SetWaiting
  <1>2. CASE JoinFires \/ Finish
    BY <1>2, ReturnPushes DEF JoinFires, Finish, Doing
  <1> QED
    BY <1>1, <1>2, PredictPushes, CompleteTaskPushes, LoopPushes
    DEF Step, Predict, CompleteTask, ChildrenNext, VisitNext, Doing


\* What an unstructured join does not wait for are unfinished tasks of its inputs: not
\* the join, and nothing before it, which is finished.
LEMMA WaitingSpare ==
  ASSUME Tree(tasks, Specs), NEW j \in DOMAIN tasks, Attached(tasks, j),
         Net[tasks[j].spec].split = None,
         \A i \in DOMAIN Inputs(tasks[j].spec) : Inputs(tasks[j].spec)[i] # tasks[j].spec,
         NEW i \in DOMAIN WaitingTasks(tasks, j)
  PROVE  Spares(Frame("cancel", j, WaitingTasks(tasks, j)[i]), j)
  <1>1. /\ i \in DOMAIN Inputs(tasks[j].spec)
        /\ \A t \in WaitingTasks(tasks, j)[i] :
              /\ t \in DOMAIN tasks /\ tasks[t].spec = Inputs(tasks[j].spec)[i]
              /\ tasks[t].state \in NOT_FINISHED
    BY DEF WaitingTasks, Unstructured, Instances, OfSpec, In
  <1>2. \A t \in WaitingTasks(tasks, j)[i] : t # j /\ ~Above(t, j)
    BY <1>1, StatesDiffer DEF Attached
  <1> QED
    BY <1>2 DEF Spares, Frame

LEMMA UpdateJoinFiring ==
  ASSUME IInv, ReachInv, UpdateJoin
  PROVE  FiringInv'
  <1> DEFINE j       == Top.task
             s       == tasks[j].spec
             waiting == WaitingTasks(tasks, j)
             first   == IF Net[s].cancel
                        THEN [i \in DOMAIN waiting |-> Frame("cancel", j, waiting[i])]
                        ELSE <<>>
             joining == Frame("join", j, {})
             fire    == <<joining>>
             both    == first \o fire
  <1>1. /\ calls # <<>> /\ Top.op = "hook" /\ Doing("hook")
        /\ j \in DOMAIN tasks /\ s \in Specs /\ Kind(s) = "Join"
        /\ Tree(tasks, Specs) /\ j \in Path /\ FrameOK(tasks, Top)
    BY InProgress, StateTyped DEF UpdateJoin, Hook, Doing, Top
  <1>2. tasks[j].state \in NOT_FINISHED /\ Attached(tasks, j)
    BY <1>1 DEF FrameOK, LiveIn
  <1>3. \/ Return
        \/ Raise
        \/ SetWaiting(j)
        \/ UNCHANGED tasks /\ (ReturnTo(fire) \/ ReturnTo(both))
    BY DEF UpdateJoin
  <1>4. joining \in FrameType /\ joining.op = "join" /\ joining.task = j /\ joining.todo = {}
    BY <1>1, FrameTyped DEF Ops, Frame
  <1>5. /\ first \in Seq(FrameType)
        /\ \A i \in DOMAIN first : first[i].op = "cancel" /\ (CancelsOthers(s) => Spares(first[i], j))
    <2>1. CASE Net[s].cancel
      <3>1. CancelsOthers(s) => Net[s].split = None /\ \A i \in DOMAIN Inputs(s) : Inputs(s)[i] # s
        BY <2>1 DEF CancelsOthers
      <3> QED
        BY <1>1, <1>2, <2>1, <3>1, WaitingFrames, WaitingSpare
    <2>2. CASE ~Net[s].cancel
      BY <2>2, NoFrame
    <2> QED
      BY <2>1, <2>2
  <1> HIDE DEF first, joining
  <1>6. fire \in Seq(FrameType) /\ \A i \in DOMAIN fire : i = 1 /\ fire[i] = joining
    BY <1>4
  <1> HIDE DEF fire, waiting
  <1>7. ASSUME UNCHANGED tasks, NEW a \in Seq(FrameType),
               \A i \in DOMAIN a : a[i].op = "cancel" /\ (CancelsOthers(s) => Spares(a[i], j)),
               calls' = (a \o fire) \o Tail(calls)
        PROVE  FiringInv'
    <2> DEFINE b == a \o fire
               rest == Tail(calls)
    <2>1. rest \in Seq(FrameType) /\ NoJoins(rest)
      BY <1>1, NoJoinsRest
    <2>2. /\ b \in Seq(FrameType) /\ DOMAIN b \subseteq Nat /\ Len(a) \in Nat
          /\ \A i \in DOMAIN b : \/ i \in DOMAIN a /\ b[i] = a[i]
                                 \/ b[i] = joining /\ i = Len(a) + 1
      <3>1. b \in Seq(FrameType) /\ DOMAIN b \subseteq Nat /\ Len(a) \in Nat
        BY <1>6, ConcatFrames
      <3>2. ASSUME NEW i \in DOMAIN b, i \notin DOMAIN a PROVE b[i] = joining /\ i = Len(a) + 1
        <4>1. i - Len(a) \in DOMAIN fire /\ b[i] = fire[i - Len(a)]
          BY <1>6, <3>2, ConcatFrames
        <4>2. i - Len(a) = 1 /\ i \in Nat
          BY <1>6, <3>1, <4>1
        <4> QED
          BY <1>6, <3>1, <4>1, <4>2
      <3> QED
        BY <1>6, <3>1, <3>2, ConcatFrames
    <2> HIDE DEF b, rest
    <2>3. calls' = b \o rest
      BY <1>7 DEF b, rest
    <2>4. /\ DOMAIN calls' \subseteq Nat /\ Len(b) \in Nat /\ DOMAIN b = 1..Len(b)
          /\ \A i \in DOMAIN calls' : \/ i \in DOMAIN b /\ calls'[i] = b[i]
                                      \/ i > Len(b) /\ calls'[i].op # "join"
      <3>1. /\ DOMAIN (b \o rest) \subseteq Nat /\ Len(b) \in Nat /\ DOMAIN b = 1..Len(b)
            /\ \A i \in DOMAIN (b \o rest) :
                  \/ i \in DOMAIN b /\ (b \o rest)[i] = b[i]
                  \/ i - Len(b) \in DOMAIN rest /\ (b \o rest)[i] = rest[i - Len(b)] /\ i > Len(b)
        BY <2>1, <2>2, ConcatFrames
      <3> QED
        BY <2>1, <2>3, <3>1 DEF NoJoins
    <2>5. ASSUME NEW k \in DOMAIN calls', calls'[k].op = "join"
          PROVE  /\ calls'[k].task = j
                 /\ CancelsOthers(s) => \A i \in DOMAIN calls' : i < k => Spares(calls'[i], j)
      <3>1. k \in DOMAIN b /\ calls'[k] = joining /\ k = Len(a) + 1
        BY <1>7, <2>2, <2>4, <2>5
      <3>2. \A i \in DOMAIN calls' : i < k => i \in DOMAIN b /\ i # k /\ calls'[i] = b[i]
        BY <2>4, <3>1
      <3>3. \A i \in DOMAIN calls' : i < k => i \in DOMAIN a /\ calls'[i] = a[i]
        BY <2>2, <3>1, <3>2
      <3> QED
        BY <1>4, <1>7, <3>1, <3>3
    <2> QED
      BY <1>1, <1>2, <1>7, <2>5 DEF FiringInv
  <1>8. CASE UNCHANGED tasks /\ ReturnTo(both)
    BY <1>5, <1>7, <1>8 DEF ReturnTo
  <1>9. CASE UNCHANGED tasks /\ ReturnTo(fire)
    <2> DEFINE none == <<>>
    <2>1. none \in Seq(FrameType) /\ DOMAIN none = {} /\ fire = none \o fire
      BY <1>6, NoFrame
    <2> HIDE DEF none
    <2>2. calls' = (none \o fire) \o Tail(calls)
      BY <1>9, <2>1 DEF ReturnTo
    <2> QED
      BY <1>7, <1>9, <2>1, <2>2
  <1> QED
    BY <1>1, <1>3, <1>8, <1>9, RaiseFiring, ReturnPushes, NoJoinsPushed DEF SetWaiting


\* Cancelling a branch changes nothing outside of it.
LEMMA CancelSpares ==
  ASSUME NEW T, Tree(T, Specs), NEW t \in DOMAIN T, NEW j \in DOMAIN T, t # j, ~Above(t, j)
  PROVE  j \in DOMAIN CancelBranch(T, t) /\ CancelBranch(T, t)[j].state = T[j].state
  <1> DEFINE open == Branch(T, t) \intersect InState(T, NOT_FINISHED)
             top  == {d \in open : ~\E e \in open : Above(e, d)}
             V    == SetState(T, top, "CANCELLED")
             U    == CancelBranch(T, t)
  <1>1. \A a \in top : a \in DOMAIN T /\ (a = t \/ Above(t, a))
    BY DEF InState, Branch, Below
  <1>2. t \in Path /\ j \in Path /\ top \subseteq Path
    BY <1>1, StateTyped
  <1>3. U = DropChildren(V, top)
    BY DEF CancelBranch
  <1> HIDE DEF open, top, U
  <1>4. DOMAIN V = DOMAIN T /\ V[j].state = T[j].state
    BY <1>1, SetStateEffect
  <1>5. \A a \in DOMAIN V : a \in Path
    BY <1>4, StateTyped
  <1> HIDE DEF V
  <1>6. ASSUME j \notin DOMAIN U PROVE FALSE
    <2>1. PICK k \in top, r \in DOMAIN V : Above(k, r) /\ (r = j \/ Above(r, j))
      BY <1>3, <1>4, <1>6, DropLoosens
    <2>2. k \in Path /\ r \in Path
      BY <1>2, <1>5
    <2>3. Above(k, j)
      BY <1>2, <2>1, <2>2, AboveTransitive
    <2>4. Above(t, j)
      BY <1>1, <1>2, <2>2, <2>3, AboveTransitive
    <2> QED
      BY <2>4
  <1>7. j \in DOMAIN U => U[j] = V[j]
    BY <1>3 DEF DropChildren, RemoveBranches
  <1> QED
    BY <1>4, <1>6, <1>7 DEF U

LEMMA CancelNextFiring ==
  ASSUME IInv, ReachInv, FiringInv, CancelNext
  PROVE  FiringInv'
  <1> DEFINE rest == Tail(calls)
  <1>1. calls # <<>> /\ Top.op = "cancel"
    BY DEF CancelNext, Doing, Top
  <1>2. Tree(tasks, Specs) /\ calls \in Seq(FrameType) /\ Top \in FrameType /\ Top.todo \in SUBSET Path
    BY <1>1, InProgress, StackTyped
  <1>3. /\ rest \in Seq(FrameType) /\ Len(rest) = Len(calls) - 1 /\ Top = calls[1]
        /\ \A i \in 1..Len(rest) : rest[i] = calls[i + 1]
        /\ Len(calls) \in Nat \ {0} /\ Len(rest) \in Nat
        /\ DOMAIN calls = 1..Len(calls) /\ DOMAIN rest = 1..Len(rest)
    BY <1>1, <1>2, HeadTailProperties, LenProperties DEF Top
  <1>4. /\ Tree(tasks', Specs) /\ Loosens(tasks, tasks')
        /\ \A d \in DOMAIN tasks' : tasks'[d].spec = tasks[d].spec
    <2>1. Loosens(tasks, tasks') /\ Shrunk(tasks, tasks')
      <3>1. \/ UNCHANGED tasks
            \/ \E t \in Top.todo : tasks' = IF t \in DOMAIN tasks THEN CancelBranch(tasks, t) ELSE tasks
        BY DEF CancelNext
      <3>2. CASE UNCHANGED tasks
        BY <3>2 DEF Loosens, Shrunk
      <3> QED
        BY <1>2, <3>1, <3>2, CancelLoosens, CancelBranchShrunk
    <2>2. Tree(tasks', Specs)
      BY OrderlyIInv, IInvSplitPrime DEF OrderlyNext, Step
    <2> QED
      BY <2>1, <2>2 DEF Shrunk
  <1>5. ASSUME NEW k \in DOMAIN calls, calls[k].op = "join"
        PROVE  /\ k # 1 /\ calls[k].task \in DOMAIN tasks /\ calls[k].task \in DOMAIN tasks'
               /\ tasks'[calls[k].task].spec = tasks[calls[k].task].spec
               /\ Kind(tasks[calls[k].task].spec) = "Join"
    <2>1. calls[k].task \in DOMAIN tasks /\ k # 1 /\ Kind(tasks[calls[k].task].spec) = "Join"
      BY <1>1, <1>3, <1>5 DEF FiringInv
    <2>2. FrameOK(tasks, calls[k])
      BY <1>1, <1>5, InProgress DEF FramesOK
    <2>3. Attached(tasks, calls[k].task)
      BY <1>5, <2>1, <2>2 DEF FrameOK, LiveIn
    <2> QED
      BY <1>4, <2>1, <2>3, AttachedSurvives
  <1>6. ASSUME NEW k \in DOMAIN calls, calls[k].op = "join",
               CancelsOthers(tasks[calls[k].task].spec)
        PROVE  /\ tasks[calls[k].task].state \in NOT_FINISHED
               /\ Spares(Top, calls[k].task)
               /\ \A i \in DOMAIN calls : i < k => Spares(calls[i], calls[k].task)
    <2>1. 1 \in DOMAIN calls /\ 1 < k
      BY <1>3, <1>5, <1>6
    <2> QED
      BY <1>3, <1>6, <2>1 DEF FiringInv
  <1> HIDE DEF rest
  \* What is left to be shown of the state of a firing join.
  <1> DEFINE Intact == \A k \in DOMAIN calls :
                          calls[k].op = "join" /\ CancelsOthers(tasks[calls[k].task].spec) =>
                              tasks'[calls[k].task].state \in NOT_FINISHED
  <1>7. ASSUME calls' = rest, Intact PROVE FiringInv'
    <2> SUFFICES ASSUME NEW k \in DOMAIN calls', calls'[k].op = "join"
                 PROVE  /\ calls'[k].task \in DOMAIN tasks'
                        /\ Kind(tasks'[calls'[k].task].spec) = "Join"
                        /\ CancelsOthers(tasks'[calls'[k].task].spec) =>
                              /\ tasks'[calls'[k].task].state \in NOT_FINISHED
                              /\ \A i \in DOMAIN calls' : i < k => Spares(calls'[i], calls'[k].task)
      BY DEF FiringInv
    <2>1. k + 1 \in DOMAIN calls /\ calls'[k] = calls[k + 1]
      BY <1>3, <1>7
    <2>2. \A i \in DOMAIN calls' : i < k =>
             i + 1 \in DOMAIN calls /\ calls'[i] = calls[i + 1] /\ i + 1 < k + 1
      BY <1>3, <1>7
    <2> QED
      BY <1>5, <1>6, <1>7, <2>1, <2>2
  <1>8. CASE Return /\ UNCHANGED tasks
    BY <1>6, <1>7, <1>8 DEF Return, rest
  <1>9. ASSUME NEW t \in Top.todo, CallWith(<<>>, Top.todo \ {t}),
               tasks' = IF t \in DOMAIN tasks THEN CancelBranch(tasks, t) ELSE tasks
        PROVE  FiringInv'
    <2> DEFINE S     == Top.todo \ {t}
               frame == [Top EXCEPT !.todo = S]
               again == IF S = {} THEN <<>> ELSE <<frame>>
               none  == <<>>
    <2>1. Intact
      <3> SUFFICES ASSUME NEW k \in DOMAIN calls, calls[k].op = "join",
                          CancelsOthers(tasks[calls[k].task].spec)
                   PROVE  tasks'[calls[k].task].state \in NOT_FINISHED
        OBVIOUS
      <3>1. t # calls[k].task /\ ~Above(t, calls[k].task)
        BY <1>6 DEF Spares
      <3> QED
        BY <1>2, <1>5, <1>6, <1>9, <3>1, CancelSpares
    <2> HIDE DEF Intact
    <2>2. frame \in FrameType /\ frame.op = "cancel" /\ frame.todo = S
      BY <1>1, <1>2 DEF FrameType
    <2>3. calls' = (none \o again) \o rest
      BY <1>9 DEF CallWith, rest
    <2> HIDE DEF frame
    <2>4. again \in Seq(FrameType) /\ none \in Seq(FrameType) /\ none \o again = again
      BY <2>2
    <2>5. calls' = again \o rest
      BY <2>3, <2>4
    <2>6. CASE S = {}
      <3>1. again = <<>>
        BY <2>6
      <3>2. calls' = rest
        BY <1>3, <2>5, <3>1
      <3> QED
        BY <1>7, <2>1, <3>2
    <2>7. CASE S # {}
      <3> DEFINE one == <<frame>>
      <3>1. calls' = one \o rest /\ one \in Seq(FrameType) /\ Len(one) = 1 /\ one[1] = frame
        BY <2>2, <2>5, <2>7
      <3> HIDE DEF one, again
      <3>2. /\ Len(one \o rest) = Len(one) + Len(rest)
            /\ \A i \in 1..Len(one) : (one \o rest)[i] = one[i]
            /\ \A i \in (Len(one) + 1)..Len(one \o rest) : (one \o rest)[i] = rest[i - Len(one)]
            /\ one \o rest \in Seq(FrameType)
        <4>1. one \in Seq(FrameType) /\ rest \in Seq(FrameType)
          BY <1>3, <3>1
        <4> QED
          BY <4>1, ConcatProperties
      <3>3. Len(calls') = Len(calls) /\ DOMAIN calls' = 1..Len(calls)
        BY <1>3, <3>1, <3>2, LenProperties
      <3>4. calls'[1] = frame /\ \A i \in DOMAIN calls' : i # 1 => calls'[i] = calls[i]
        <4>1. calls'[1] = frame
          BY <3>1, <3>2
        <4>2. ASSUME NEW i \in DOMAIN calls', i # 1 PROVE calls'[i] = calls[i]
          <5>1. i \in 2..Len(calls') /\ i - 1 \in 1..Len(rest)
            BY <1>3, <3>3, <4>2
          <5>2. calls'[i] = rest[i - 1]
            BY <3>1, <3>2, <5>1
          <5> QED
            BY <1>3, <5>1, <5>2
        <4> QED
          BY <4>1, <4>2
      <3> SUFFICES ASSUME NEW k \in DOMAIN calls', calls'[k].op = "join"
                   PROVE  /\ calls'[k].task \in DOMAIN tasks'
                          /\ Kind(tasks'[calls'[k].task].spec) = "Join"
                          /\ CancelsOthers(tasks'[calls'[k].task].spec) =>
                                /\ tasks'[calls'[k].task].state \in NOT_FINISHED
                                /\ \A i \in DOMAIN calls' : i < k => Spares(calls'[i], calls'[k].task)
        BY DEF FiringInv
      <3>5. k # 1 /\ k \in DOMAIN calls /\ calls'[k] = calls[k]
        BY <1>3, <2>2, <3>3, <3>4
      <3>6. CancelsOthers(tasks[calls[k].task].spec) => Spares(frame, calls[k].task)
        BY <1>6, <2>2, <3>5 DEF Spares
      <3> QED
        BY <1>3, <1>5, <1>6, <2>1, <3>3, <3>4, <3>5, <3>6 DEF Intact
    <2> QED
      BY <2>6, <2>7
  <1> QED
    BY <1>8, <1>9 DEF CancelNext

LEMMA StepFiring ==
  ASSUME IInv, ReachInv, FiringInv, Step
  PROVE  FiringInv'
  <1>1. CASE Step /\ ~UpdateJoin /\ ~CancelNext /\ ~Raise
    <2>1. Top.op # "cancel"
      BY <1>1
      DEF Step, Predict, UpdateSimple, UpdateFails, UpdateExecute, UpdateGate, UpdateAcquire, Hook,
          JoinFires, CompleteTask, ChildrenNext, VisitNext, Finish, Doing, Top
    <2> QED
      BY <1>1, <2>1, StepPushes, NoJoinsPushed
  <1> QED
    BY <1>1, RaiseFiring, UpdateJoinFiring, CancelNextFiring


LEMMA RestFiring == calls' = <<>> => FiringInv'
  BY NoJoinsNone, NoneFiring

\* A run ends with what completes the task, unless it has failed.
RunPushes(t) ==
    \/ UNCHANGED calls /\ t \in InState(tasks', {"ERROR"})
    \/ \E frames \in Seq(FrameType) :
          RunWith(t, frames) /\ \A i \in DOMAIN frames : frames[i].op \in {"predict", "cancel"}

LEMMA RaisedRun ==
  ASSUME NEW T, Tree(T, Specs), NEW t \in DOMAIN T, UNCHANGED calls,
         tasks' = SetState(T, {t}, "ERROR")
  PROVE  RunPushes(t)
  BY SetStateEffect DEF RunPushes, InState

LEMMA RunsPush == ASSUME IInv, IInv', ReachInv, NEW t, RunTask(t) PROVE RunPushes(t)
  <1>1. PICK kinds : Running(t, kinds)
    BY DEF RunTask, RunSimple, RunFails, RunMultiChoice, RunExclusiveChoice, RunMultiInstance,
           RunThreadSplit, RunThreadStart, RunReleaseMutex, RunCancel, RunCancelTask
  <1>2. calls = <<>> /\ Tree(tasks, Specs) /\ Tree(tasks', Specs) /\ t \in DOMAIN tasks /\ t \in Path
    BY <1>1, RunnableReach, IInvSplitPrime
  <1>3. CASE RunRaises(t)
    BY <1>2, <1>3, RaisedRun DEF RunRaises
  <1>4. CASE RunWith(t, <<>>)
    BY <1>4, NoFrame DEF RunPushes
  <1>5. CASE RunCancelTask(t)
    <2> DEFINE context == Net[tasks[t].spec].context
               frames  == [i \in DOMAIN context |-> Frame("cancel", t, OfSpec(tasks, context[i]))]
    <2>1. frames \in Seq(FrameType) /\ \A i \in DOMAIN frames : frames[i].op = "cancel"
      BY <1>2, ContextFrames
    <2>2. RunWith(t, frames)
      BY <1>5 DEF RunCancelTask
    <2> HIDE DEF frames
    <2> QED
      BY <2>1, <2>2 DEF RunPushes
  <1>6. ASSUME NEW outs, NEW n, NEW looked \in {0, 1}, RunSplit(t, outs, n, looked)
        PROVE  RunPushes(t)
    <2> DEFINE mask   == PREDICTED \union {"FUTURE"}
               S      == InState(tasks', mask) \intersect Children(tasks', t)
               f      == PredictFrame(t, S, looked, mask)
               frames == <<f>>
    <2>1. RunRaises(t) \/ RunWith(t, frames)
      BY <1>6 DEF RunSplit
    <2>2. S \in SUBSET Path /\ mask \in SUBSET ANY /\ looked \in Nat
      BY <1>2, ChildrenTyped, MasksTyped
    <2> HIDE DEF S, mask
    <2>3. f \in FrameType /\ f.op = "predict"
      BY <1>2, <2>2, PredictFrameTyped DEF PredictFrame
    <2> HIDE DEF f
    <2>4. frames \in Seq(FrameType) /\ \A i \in DOMAIN frames : frames[i].op = "predict"
      BY <2>3
    <2> HIDE DEF frames
    <2> QED
      BY <1>3, <2>1, <2>4 DEF RunPushes
  <1>7. CASE RunMultiChoice(t) \/ RunExclusiveChoice(t) \/ RunMultiInstance(t)
    BY <1>6, <1>7 DEF RunMultiChoice, RunExclusiveChoice, RunMultiInstance
  <1>8. CASE RunThreadStart(t)
    <2> DEFINE T == AssignThread(tasks, t, threads + 1)
    <2>1. Tree(T, Specs) /\ DOMAIN T = DOMAIN tasks
      <3>1. threads + 1 \in Nat
        BY DEF IInv, TypeOK
      <3> QED
        BY <1>2, <3>1, AssignThreadTree
    <2>2. RunWith(t, <<>>) \/ (UNCHANGED calls /\ tasks' = SetState(T, {t}, "ERROR"))
      BY <1>8 DEF RunThreadStart
    <2> HIDE DEF T
    <2> QED
      BY <1>2, <1>4, <2>1, <2>2, RaisedRun
  <1> QED
    BY <1>3, <1>4, <1>5, <1>7, <1>8
    DEF RunTask, RunSimple, RunFails, RunThreadSplit, RunReleaseMutex, RunCancel

LEMMA RunsFiring == ASSUME IInv, IInv', ReachInv, Run PROVE FiringInv'
  <1>1. PICK t \in DOMAIN tasks : RunTask(t)
    BY DEF Run
  <1>2. calls = <<>> /\ t \in Path
    BY <1>1, IInvSplit, StateTyped
    DEF RunTask, RunSimple, RunFails, RunMultiChoice, RunExclusiveChoice, RunMultiInstance,
        RunThreadSplit, RunThreadStart, RunReleaseMutex, RunCancel, RunCancelTask, Running, Quiescent
  <1>3. CASE UNCHANGED calls
    BY <1>2, <1>3, RestFiring
  <1>4. ASSUME NEW frames \in Seq(FrameType), RunWith(t, frames),
               \A i \in DOMAIN frames : frames[i].op \in {"predict", "cancel"}
        PROVE  FiringInv'
    <2> DEFINE f    == Frame("complete", t, {})
               done == <<f>>
    <2>1. f \in FrameType /\ f.op # "join"
      BY <1>2, FrameTyped DEF Ops, Frame
    <2>2. calls' = frames \o done
      BY <1>4 DEF RunWith
    <2> HIDE DEF f
    <2>3. done \in Seq(FrameType) /\ \A i \in DOMAIN done : done[i].op # "join"
      BY <2>1
    <2> HIDE DEF done
    <2>4. ASSUME NEW i \in DOMAIN (frames \o done) PROVE (frames \o done)[i].op # "join"
      <3>1. \/ i \in DOMAIN frames /\ (frames \o done)[i] = frames[i]
            \/ \E k \in DOMAIN done : (frames \o done)[i] = done[k]
        BY <2>3, ConcatFrames
      <3> QED
        BY <1>4, <2>3, <3>1
    <2> QED
      BY <2>2, <2>4 DEF FiringInv
  <1> QED
    BY <1>1, <1>3, <1>4, RunsPush DEF RunPushes

LEMMA MethodsFiring ==
  ASSUME IInv, IInv', OrderlyReset \/ UpdateWaitingTasks \/ Cancel
  PROVE  FiringInv'
  <1>1. CASE Cancel
    BY <1>1, RestFiring DEF Cancel, Quiescent
  <1>2. CASE UpdateWaitingTasks
    <2>1. calls' = <<Frame("visit", Root, {Root})>>
      BY <1>2 DEF UpdateWaitingTasks
    <2>2. NoJoins(<<Frame("visit", Root, {Root})>>)
      BY DEF NoJoins, Frame
    <2> QED
      BY <2>1, <2>2, NoneFiring
  <1>3. CASE OrderlyReset
    <2>1. PICK t \in DOMAIN tasks : GoBack(t)
      BY <1>3, OrderlyResetGoesBack
    <2> DEFINE mask  == PREDICTED \union {"FUTURE"}
               next  == PredictNext(tasks', t, 0, mask)
               f     == PredictFrame(t, next, 1, mask)
               g     == Frame("hook", t, {})
               first == <<f>>
               then  == <<g>>
    <2>2. calls' = first \o then /\ t \in Path /\ Tree(tasks', Specs)
      BY <2>1, IInvSplit, IInvSplitPrime, StateTyped DEF GoBack, ResetBranch
    <2>3. next \in SUBSET Path /\ mask \in SUBSET ANY
      BY <2>2, PredictNextTyped, MasksTyped
    <2> HIDE DEF next, mask
    <2>4. f \in FrameType /\ g \in FrameType /\ {f.op, g.op} \intersect {"cancel", "join"} = {}
      BY <2>2, <2>3, PredictFrameTyped, FrameTyped DEF PredictFrame, Frame, Ops
    <2> HIDE DEF f, g
    <2>5. /\ first \in Seq(FrameType) /\ NoJoins(first)
          /\ then \in Seq(FrameType) /\ NoJoins(then)
      BY <2>4, NoJoinsOne
    <2> HIDE DEF first, then
    <2> QED
      BY <2>2, <2>5, NoJoinsConcat, NoneFiring
  <1> QED
    BY <1>1, <1>2, <1>3

LEMMA InitFiring == ASSUME Init PROVE FiringInv
  <1>1. calls = <<PredictFrame(Root, {Root}, 0, NOT_FINISHED), Frame("hook", Root, {})>>
    BY DEF Init
  <1> QED
    BY <1>1 DEF FiringInv, PredictFrame, Frame

LEMMA NextFiring ==
  ASSUME IInv, ReachInv, FiringInv, [OrderlyNext]_vars
  PROVE  FiringInv'
  <1>1. IInv'
    BY OrderlyIInv
  <1>2. CASE UNCHANGED vars
    <2>1. UNCHANGED <<tasks, calls>>
      BY <1>2 DEF vars
    <2> QED
      BY <2>1 DEF FiringInv
  <1> QED
    BY <1>1, <1>2, StepFiring, RunsFiring, MethodsFiring DEF OrderlyNext

\* The instance on which a join fires is in the tree, and it has survived what the join
\* has cancelled before, unless the join is structured (it may then be in a branch that
\* is not complete, and is cancelled with it) or connected to itself.
THEOREM FiringJoinsSurvive ==
  /\ OrderlySpec => [](Doing("join") => Top.task \in DOMAIN tasks)
  /\ OrderlySpec => []((Doing("join") => CancelsOthers(tasks[Top.task].spec)) => FiringJoinSurvives)
  <1>1. Init => FiringInv
    BY InitFiring
  <1>2. IInv /\ ReachInv /\ FiringInv /\ [OrderlyNext]_vars => FiringInv'
    BY NextFiring
  <1>3. IInv /\ FiringInv =>
           /\ Doing("join") => Top.task \in DOMAIN tasks
           /\ (Doing("join") => CancelsOthers(tasks[Top.task].spec)) => FiringJoinSurvives
    <2> SUFFICES ASSUME IInv, FiringInv, Doing("join")
                 PROVE  /\ Top.task \in DOMAIN tasks
                        /\ CancelsOthers(tasks[Top.task].spec) => In(tasks, Top.task, NOT_FINISHED)
      BY DEF FiringJoinSurvives
    <2>1. calls \in Seq(FrameType) /\ calls # <<>> /\ Top = calls[1] /\ 1 \in DOMAIN calls
      BY IInvSplit DEF Doing, Top
    <2> QED
      BY <2>1 DEF FiringInv, Doing, Top, In
  <1> QED
    BY <1>1, <1>2, <1>3, ReachAlways, PTL DEF OrderlySpec

-----------------------------------------------------------------------------
(* What is FUTURE is reached, as long as no update raises: a FUTURE task   *)
(* whose parent has completed is still on the list of its parent's         *)
(* _on_complete, or is about to be updated.                                *)

JoinRaises ==
    /\ Hook({"Join"})
    /\ \/ In(tasks, Top.task, {"READY"}) /\ Net[tasks[Top.task].spec].cancel
       \/ In(tasks, Top.task, NOT_FINISHED \ {"READY"}) /\ SplitNotReached(tasks, Top.task)

\* The next step of the call raises: a prediction would have to remove a definite child,
\* or a join may not be updated yet.
Raising == PredictRaises \/ JoinRaises

\* The FUTURE tasks that it is time to update.
Stranded(T) ==
    {c \in DOMAIN T \ {Root} : T[c].state = "FUTURE" /\ T[Parent(c)].state = "COMPLETED"}

Holds(f, c)      == \/ f.op = "children" /\ c \in f.todo
                    \/ f.op \in {"hook", "join"} /\ f.task = c
Held(frames, c)  == \E i \in DOMAIN frames : Holds(frames[i], c)

FutureInv == \A c \in Stranded(tasks) : Held(calls, c)

LEMMA ConcatHolds ==
  ASSUME NEW a \in Seq(FrameType), NEW b \in Seq(FrameType), NEW c, Held(a, c) \/ Held(b, c)
  PROVE  Held(a \o b, c)
  <1> DEFINE d == a \o b
  <1>1. /\ Len(a) \in Nat /\ Len(b) \in Nat /\ DOMAIN a = 1..Len(a) /\ DOMAIN b = 1..Len(b)
        /\ d \in Seq(FrameType) /\ Len(d) = Len(a) + Len(b)
        /\ \A i \in 1..Len(d) : d[i] = IF i <= Len(a) THEN a[i] ELSE b[i - Len(a)]
    BY ConcatProperties, LenProperties
  <1>2. DOMAIN d = 1..Len(d)
    BY <1>1, LenProperties
  <1> HIDE DEF d
  <1>3. CASE Held(a, c)
    <2>1. PICK i \in DOMAIN a : Holds(a[i], c)
      BY <1>3 DEF Held
    <2>2. i \in DOMAIN d /\ d[i] = a[i]
      BY <1>1, <1>2, <2>1
    <2> QED
      BY <2>1, <2>2 DEF Held, d
  <1>4. CASE Held(b, c)
    <2>1. PICK i \in DOMAIN b : Holds(b[i], c)
      BY <1>4 DEF Held
    <2>2. i + Len(a) \in DOMAIN d /\ d[i + Len(a)] = b[i]
      BY <1>1, <1>2, <2>1
    <2> QED
      BY <2>1, <2>2 DEF Held, d
  <1> QED
    BY <1>3, <1>4

\* What the frames below the top hold they hold still.
LEMMA RestHeld ==
  ASSUME IInv, calls # <<>>, NEW frames \in Seq(FrameType), calls' = frames \o Tail(calls),
         NEW c, Held(calls, c), ~Holds(Top, c)
  PROVE  Held(calls', c)
  <1> DEFINE rest == Tail(calls)
  <1>1. /\ calls \in Seq(FrameType) /\ rest \in Seq(FrameType) /\ Len(rest) = Len(calls) - 1
        /\ Top = calls[1] /\ \A i \in 1..Len(rest) : rest[i] = calls[i + 1]
        /\ Len(calls) \in Nat \ {0} /\ Len(rest) \in Nat
    BY IInvSplit, HeadTailProperties, LenProperties DEF Top
  <1>2. DOMAIN calls = 1..Len(calls) /\ DOMAIN rest = 1..Len(rest)
    BY <1>1, LenProperties
  <1> HIDE DEF rest
  <1>3. PICK i \in DOMAIN calls : Holds(calls[i], c)
    BY DEF Held
  <1>4. i # 1 /\ i - 1 \in DOMAIN rest /\ rest[i - 1] = calls[i]
    BY <1>1, <1>2, <1>3
  <1>5. Held(rest, c)
    BY <1>3, <1>4 DEF Held
  <1>6. calls' = frames \o rest
    BY DEF rest
  <1> QED
    BY <1>1, <1>5, <1>6, ConcatHolds

LEMMA FrontHeld ==
  ASSUME IInv, calls # <<>>, NEW frames \in Seq(FrameType), calls' = frames \o Tail(calls),
         NEW c, Held(frames, c)
  PROVE  Held(calls', c)
  BY IInvSplit, HeadTailProperties, ConcatHolds

\* A step that neither strands a task nor ends the hold of a frame on one.
LEMMA StillHeld ==
  ASSUME IInv, FutureInv, calls # <<>>, Pushes, Stranded(tasks') \subseteq Stranded(tasks),
         \A c \in Stranded(tasks') : ~Holds(Top, c)
  PROVE  FutureInv'
  <1>1. PICK frames \in Seq(FrameType) : calls' = frames \o Tail(calls)
    BY DEF Pushes
  <1>2. ASSUME NEW c \in Stranded(tasks') PROVE Held(calls', c)
    BY <1>1, <1>2, RestHeld DEF FutureInv
  <1>3. Stranded(tasks)' = Stranded(tasks')
    BY DEF Stranded
  <1> QED
    BY <1>2, <1>3 DEF FutureInv, Held

LEMMA ShrunkStrands ==
  ASSUME NEW T, NEW U, Tree(U, Specs), Shrunk(T, U)
  PROVE  Stranded(U) \subseteq Stranded(T)
  BY ParentLive DEF Stranded, Shrunk

LEMMA SetStrands ==
  ASSUME NEW T, Tree(T, Specs), NEW S, NEW state, state \notin {"FUTURE", "COMPLETED"}
  PROVE  Stranded(SetState(T, S, state)) \subseteq Stranded(T) \ S
  BY ParentLive, SetStateEffect DEF Stranded

LEMMA GrownStrands ==
  ASSUME NEW T, NEW U, Tree(T, Specs), Tree(U, Specs), NEW t, NEW states,
         Grown(T, U, t, states), T[t].state # "COMPLETED", "COMPLETED" \notin states
  PROVE  Stranded(U) \subseteq Stranded(T)
  <1> SUFFICES ASSUME NEW d \in Stranded(U) PROVE d \in Stranded(T)
    OBVIOUS
  <1>1. /\ d \in DOMAIN U /\ d # Root /\ U[d].state = "FUTURE"
        /\ Parent(d) \in DOMAIN U /\ U[Parent(d)].state = "COMPLETED"
    BY ParentLive DEF Stranded
  <1>2. U[t].state # "COMPLETED"
    BY DEF Grown
  <1>3. Parent(d) # t
    BY <1>1, <1>2
  <1>4. d \in DOMAIN T /\ T[d].state = "FUTURE"
    BY <1>1, <1>3 DEF Grown
  <1>5. Parent(d) \in DOMAIN T
    BY <1>1, <1>4, ParentLive
  <1>6. T[Parent(d)].state = "COMPLETED"
    BY <1>1, <1>5 DEF Grown
  <1> QED
    BY <1>1, <1>4, <1>6 DEF Stranded

LEMMA ReadyStrands ==
  ASSUME NEW T, Tree(T, Specs), NEW t
  PROVE  Stranded(Ready(T, t)) \subseteq Stranded(T) \ {t}
  <1>1. CASE t \in DOMAIN T /\ T[t].state \notin {"COMPLETED", "CANCELLED"}
    <2>1. Ready(T, t) = SetState(T, {t}, "READY")
      BY <1>1 DEF Ready, In
    <2> QED
      BY <2>1, SetStrands
  <1>2. CASE ~(t \in DOMAIN T /\ T[t].state \notin {"COMPLETED", "CANCELLED"})
    <2>1. Ready(T, t) = T /\ t \notin Stranded(T)
      BY <1>2 DEF Ready, In, Stranded
    <2> QED
      BY <2>1
  <1> QED
    BY <1>1, <1>2

LEMMA PredictStrands ==
  ASSUME IInv, IInv', ReachInv, Predict, ~PredictRaises
  PROVE  Stranded(tasks') \subseteq Stranded(tasks)
  <1>1. calls # <<>> /\ Top.op = "predict"
    BY DEF Predict, Doing, Top
  <1>2. /\ Tree(tasks, Specs) /\ Tree(tasks', Specs) /\ FrameOK(tasks, Top)
        /\ Top.mask \in SUBSET ANY
    BY <1>1, InProgress, StackTyped, IInvSplitPrime
  <1>3. CASE UNCHANGED tasks
    BY <1>3
  <1>4. ASSUME NEW t \in DOMAIN tasks, In(tasks, t, Top.mask),
               tasks' = PredictHook(tasks, t, PredictedTimes(tasks[t].spec))
        PROVE  Stranded(tasks') \subseteq Stranded(tasks)
    <2>1. tasks[t].state \in EXPECTED
      BY <1>1, <1>2, <1>4 DEF FrameOK, In
    <2>2. PredictedTimes(tasks[t].spec) \in Nat
      BY <1>2, StateTyped, PredictedTimesTyped
    <2>3. PICK states : Grown(tasks, tasks', t, states) /\ Foresees(tasks, t, states)
      BY <1>2, <1>4, <2>1, <2>2, PredictHookGrown
    <2>4. tasks[t].state # "COMPLETED" /\ "COMPLETED" \notin states
      BY <2>3, StatesDiffer DEF Foresees
    <2> QED
      BY <1>2, <2>3, <2>4, GrownStrands
  <1> QED
    BY <1>1, <1>3, <1>4 DEF Predict, PredictRaises

LEMMA UpdateFrameHolds ==
  ASSUME NEW c \in Path
  PROVE  UpdateFrames(c) \in Seq(FrameType) /\ Held(UpdateFrames(c), c)
  <1> DEFINE f == PredictFrame(c, {c}, 0, PREDICTED)
             g == Frame("hook", c, {})
             a == IF In(tasks, c, PREDICTED) THEN <<f>> ELSE <<>>
             b == <<g>>
  <1>1. f \in FrameType /\ g \in FrameType /\ Holds(g, c)
    BY PredictFrameTyped, FrameTyped, MasksTyped DEF PredictFrame, Frame, Ops, Holds
  <1>2. UpdateFrames(c) = a \o b
    BY DEF UpdateFrames
  <1> HIDE DEF f, g
  <1>3. a \in Seq(FrameType) /\ b \in Seq(FrameType) /\ DOMAIN b = {1} /\ b[1] = g
    BY <1>1
  <1> HIDE DEF a, b
  <1>4. Held(b, c)
    BY <1>1, <1>3 DEF Held
  <1> QED
    BY <1>2, <1>3, <1>4, ConcatHolds, ConcatFrames

\* The next child is updated, the others stay on the list.
LEMMA ChildrenNextFuture ==
  ASSUME IInv, ReachInv, FutureInv, ChildrenNext
  PROVE  FutureInv'
  <1>1. /\ calls # <<>> /\ Top.op = "children" /\ UNCHANGED tasks
        /\ Top \in FrameType /\ Top.todo \in SUBSET Path
    BY InProgress, StackTyped DEF ChildrenNext, Doing, Top
  <1>2. Stranded(tasks') = Stranded(tasks) /\ Stranded(tasks)' = Stranded(tasks)
    BY <1>1 DEF Stranded
  <1>3. CASE Top.todo = {}
    <2>1. Pushes
      BY <1>1, <1>3, ReturnPushes DEF ChildrenNext, PushesNoJoin, Pushes
    <2> QED
      BY <1>1, <1>2, <1>3, <2>1, StillHeld DEF Holds
  <1>4. CASE Top.todo # {}
    <2>1. PICK x \in Top.todo :
            CallWith(IF In(tasks, x, FINISHED) THEN <<>> ELSE UpdateFrames(x), Top.todo \ {x})
      BY <1>4 DEF ChildrenNext
    <2> DEFINE S     == Top.todo \ {x}
               frame == [Top EXCEPT !.todo = S]
               first == IF In(tasks, x, FINISHED) THEN <<>> ELSE UpdateFrames(x)
               again == IF S = {} THEN <<>> ELSE <<frame>>
               both  == first \o again
    <2>2. x \in Path /\ S \in SUBSET Path
      BY <1>1
    <2>3. frame \in FrameType /\ frame.op = "children" /\ frame.todo = S
      BY <1>1, <2>2 DEF FrameType
    <2>4. calls' = both \o Tail(calls)
      BY <2>1 DEF CallWith
    <2>5. first \in Seq(FrameType)
      BY <2>2, UpdateFrameHolds
    <2>6. ~In(tasks, x, FINISHED) => Held(first, x)
      BY <2>2, UpdateFrameHolds
    <2> HIDE DEF first, frame
    <2>7. again \in Seq(FrameType)
      BY <2>3
    <2>8. ASSUME NEW c \in S PROVE Held(again, c)
      <3>1. again = <<frame>> /\ Holds(frame, c)
        BY <2>3, <2>8 DEF Holds
      <3>2. DOMAIN again = {1} /\ again[1] = frame
        BY <3>1
      <3> HIDE DEF again
      <3> QED
        BY <3>1, <3>2 DEF Held
    <2> HIDE DEF again
    <2>9. both \in Seq(FrameType)
      BY <2>5, <2>7, ConcatFrames
    <2>10. ASSUME NEW c \in Stranded(tasks) PROVE Held(calls', c)
      <3>1. Held(calls, c) /\ ~In(tasks, c, FINISHED)
        BY <2>10, StatesDiffer DEF FutureInv, Stranded, In
      <3>2. CASE ~Holds(Top, c)
        BY <1>1, <2>4, <2>9, <3>1, <3>2, RestHeld
      <3>3. CASE Holds(Top, c)
        <4>1. c = x \/ c \in S
          BY <1>1, <3>3 DEF Holds
        <4>2. Held(both, c)
          BY <2>5, <2>6, <2>7, <2>8, <3>1, <4>1, ConcatHolds
        <4> HIDE DEF both
        <4> QED
          BY <1>1, <2>4, <2>9, <4>2, FrontHeld
      <3> QED
        BY <3>2, <3>3
    <2> QED
      BY <1>2, <2>10 DEF FutureInv, Held
  <1> QED
    BY <1>3, <1>4

\* A task that completes has its children updated.
LEMMA CompleteTaskFuture ==
  ASSUME IInv, ReachInv, FutureInv, CompleteTask
  PROVE  FutureInv'
  <1> DEFINE t == Top.task
             f == Frame("children", t, Children(tasks, t))
             g == Frame("visit", t, {Root})
             h == Frame("finish", t, {})
             frames == <<f, g, h>>
  <1>1. /\ calls # <<>> /\ Top.op = "complete" /\ calls' = frames \o Tail(calls)
        /\ tasks' = SetState(tasks, {t}, "COMPLETED")
    BY DEF CompleteTask, Doing, Top, ReturnTo
  <1>2. Tree(tasks, Specs) /\ t \in Path
    BY <1>1, InProgress, StackTyped
  <1>3. /\ f \in FrameType /\ g \in FrameType /\ h \in FrameType
        /\ \A c \in Children(tasks, t) : Holds(f, c)
    BY <1>2, ChildrenTyped, RootPath, FrameTyped DEF Ops, Frame, Holds
  <1> HIDE DEF f, g, h
  <1>4. frames \in Seq(FrameType) /\ 1 \in DOMAIN frames /\ frames[1] = f
    BY <1>3
  <1> HIDE DEF frames
  <1>5. ASSUME NEW c \in Stranded(tasks') PROVE c \in Stranded(tasks) \/ c \in Children(tasks, t)
    BY <1>1, <1>2, SetStateEffect, ParentLive DEF Stranded, Children
  <1>6. ASSUME NEW c \in Stranded(tasks') PROVE Held(calls', c)
    <2>1. CASE c \in Children(tasks, t)
      <3>1. Held(frames, c)
        BY <1>3, <1>4, <2>1 DEF Held
      <3> QED
        BY <1>1, <1>4, <3>1, FrontHeld
    <2>2. CASE c \in Stranded(tasks)
      <3>1. Held(calls, c) /\ ~Holds(Top, c)
        BY <1>1, <2>2 DEF FutureInv, Holds
      <3> QED
        BY <1>1, <1>4, <3>1, RestHeld
    <2> QED
      BY <1>5, <1>6, <2>1, <2>2
  <1>7. Stranded(tasks)' = Stranded(tasks')
    BY DEF Stranded
  <1> QED
    BY <1>6, <1>7 DEF FutureInv, Held

LEMMA CancelPushes == ASSUME IInv, CancelNext PROVE calls # <<>> /\ Pushes
  <1>1. calls # <<>> /\ Top.op = "cancel" /\ Top \in FrameType /\ Top.todo \in SUBSET Path
    BY IInvSplit, StackTyped DEF CancelNext, Doing, Top
  <1>2. CASE Return
    BY <1>1, <1>2, ReturnPushes DEF PushesNoJoin, Pushes
  <1>3. ASSUME NEW S \in SUBSET Path, CallWith(<<>>, S) PROVE Pushes
    <2> DEFINE frame == [Top EXCEPT !.todo = S]
               again == IF S = {} THEN <<>> ELSE <<frame>>
    <2>1. frame \in FrameType
      BY <1>1, <1>3 DEF FrameType
    <2>2. calls' = (<<>> \o again) \o Tail(calls)
      BY <1>3 DEF CallWith
    <2> HIDE DEF frame
    <2>3. again \in Seq(FrameType) /\ <<>> \o again = again
      BY <2>1
    <2> HIDE DEF again
    <2> QED
      BY <2>2, <2>3 DEF Pushes
  <1>4. Return \/ \E S \in SUBSET Path : CallWith(<<>>, S)
    BY <1>1 DEF CancelNext
  <1> QED
    BY <1>1, <1>2, <1>3, <1>4

\* A hook that sets the state of its task, and one that lets it as it is.
LEMMA HookFuture ==
  ASSUME IInv, ReachInv, FutureInv, calls # <<>>, Top.op \in {"hook", "join"}, Return,
         Stranded(tasks') \subseteq Stranded(tasks) \ {Top.task}
  PROVE  FutureInv'
  BY ReturnPushes, StillHeld DEF Holds, PushesNoJoin, Pushes

LEMMA UpdateFuture ==
  ASSUME IInv, ReachInv, FutureInv,
         UpdateSimple \/ UpdateExecute \/ UpdateGate \/ UpdateAcquire
  PROVE  FutureInv'
  <1>1. calls # <<>> /\ Top.op = "hook" /\ Tree(tasks, Specs)
    BY InProgress DEF UpdateSimple, UpdateExecute, UpdateGate, UpdateAcquire, Hook, Doing, Top
  <1>2. SetReady(Top.task) \/ SetWaiting(Top.task)
    BY DEF UpdateSimple, UpdateExecute, UpdateGate, UpdateAcquire
  <1>3. Return /\ Stranded(tasks') \subseteq Stranded(tasks) \ {Top.task}
    BY <1>1, <1>2, ReadyStrands, SetStrands DEF SetReady, SetWaiting
  <1> QED
    BY <1>1, <1>3, HookFuture

\* A join that may not fire yet waits; one that may is held until it does.
LEMMA UpdateJoinFuture ==
  ASSUME IInv, ReachInv, FutureInv, UpdateJoin, ~JoinRaises
  PROVE  FutureInv'
  <1> DEFINE j       == Top.task
             s       == tasks[j].spec
             waiting == WaitingTasks(tasks, j)
             first   == IF Net[s].cancel
                        THEN [i \in DOMAIN waiting |-> Frame("cancel", j, waiting[i])]
                        ELSE <<>>
             joining == Frame("join", j, {})
             fire    == <<joining>>
             both    == first \o fire
  <1>1. /\ calls # <<>> /\ Top.op = "hook" /\ Hook({"Join"}) /\ j \in DOMAIN tasks
        /\ Tree(tasks, Specs) /\ j \in Path /\ FrameOK(tasks, Top)
    BY InProgress, StateTyped DEF UpdateJoin, Hook, Doing, Top
  <1>2. tasks[j].state \in NOT_FINISHED
    BY <1>1 DEF FrameOK, LiveIn
  <1>3. \/ SetWaiting(j)
        \/ UNCHANGED tasks /\ (ReturnTo(fire) \/ ReturnTo(both))
    <2>1. ~In(tasks, j, FINISHED)
      BY <1>2, StatesDiffer DEF In
    <2>2. CASE In(tasks, j, {"READY"})
      BY <1>1, <2>1, <2>2 DEF UpdateJoin, JoinRaises
    <2>3. CASE ~In(tasks, j, {"READY"})
      <3>1. In(tasks, j, NOT_FINISHED \ {"READY"})
        BY <1>2, <2>3 DEF In
      <3>2. ~SplitNotReached(tasks, j)
        BY <1>1, <3>1 DEF JoinRaises
      <3> QED
        BY <2>1, <2>3, <3>2 DEF UpdateJoin
    <2> QED
      BY <2>2, <2>3
  <1>4. joining \in FrameType /\ Holds(joining, j)
    BY <1>1, FrameTyped DEF Ops, Frame, Holds
  <1>5. first \in Seq(FrameType)
    BY <1>1, WaitingFrames, NoFrame
  <1> HIDE DEF first, joining
  <1>6. fire \in Seq(FrameType) /\ DOMAIN fire = {1} /\ fire[1] = joining
    BY <1>4
  <1> HIDE DEF fire
  <1>7. Held(fire, j)
    BY <1>4, <1>6 DEF Held
  <1>8. both \in Seq(FrameType) /\ Held(both, j)
    BY <1>5, <1>6, <1>7, ConcatFrames, ConcatHolds
  <1> HIDE DEF both
  <1>9. CASE SetWaiting(j)
    <2>1. Return /\ Stranded(tasks') \subseteq Stranded(tasks) \ {j}
      BY <1>1, <1>9, SetStrands DEF SetWaiting
    <2> QED
      BY <1>1, <2>1, HookFuture
  <1>10. ASSUME UNCHANGED tasks, NEW frames \in Seq(FrameType), Held(frames, j), ReturnTo(frames)
         PROVE  FutureInv'
    <2>1. Stranded(tasks)' = Stranded(tasks) /\ calls' = frames \o Tail(calls)
      BY <1>10 DEF Stranded, ReturnTo
    <2>2. ASSUME NEW c \in Stranded(tasks) PROVE Held(calls', c)
      <3>1. CASE c = j
        BY <1>1, <1>10, <2>1, <3>1, FrontHeld
      <3>2. CASE c # j
        <4>1. Held(calls, c) /\ ~Holds(Top, c)
          BY <1>1, <2>2, <3>2 DEF FutureInv, Holds
        <4> QED
          BY <1>1, <1>10, <2>1, <4>1, RestHeld
      <3> QED
        BY <3>1, <3>2
    <2> QED
      BY <2>1, <2>2 DEF FutureInv, Held
  <1> QED
    BY <1>3, <1>6, <1>7, <1>8, <1>9, <1>10

LEMMA JoinFiresFuture ==
  ASSUME IInv, ReachInv, FutureInv, JoinFires
  PROVE  FutureInv'
  <1>1. calls # <<>> /\ Top.op = "join" /\ Return /\ Tree(tasks, Specs)
    BY InProgress DEF JoinFires, Doing, Top
  <1>2. PICK V : /\ Tree(V, Specs) /\ Same(tasks, V)
                 /\ tasks' = Ready(V, Top.task)
                 /\ \A d \in DOMAIN V : V[d].state = tasks[d].state \/ V[d].state = "CANCELLED"
    BY JoinFiresParts
  <1>3. Stranded(V) \subseteq Stranded(tasks)
    BY <1>2, ParentLive DEF Same, Stranded
  <1>4. Stranded(tasks') \subseteq Stranded(tasks) \ {Top.task}
    BY <1>2, <1>3, ReadyStrands
  <1> QED
    BY <1>1, <1>4, HookFuture

LEMMA StepFuture ==
  ASSUME IInv, IInv', ReachInv, FutureInv, Step, ~Raising, ~UpdateFails
  PROVE  FutureInv'
  <1>1. CASE Predict \/ CancelNext \/ VisitNext \/ Finish
    <2>1. calls # <<>> /\ Pushes
      <3>1. ~UpdateJoin
        BY <1>1 DEF Predict, CancelNext, VisitNext, Finish, UpdateJoin, Hook, Doing
      <3> QED
        BY <3>1, StepPushes, CancelPushes DEF Raising, PushesNoJoin, Pushes
    <2>2. \A c : ~Holds(Top, c)
      BY <1>1 DEF Predict, CancelNext, VisitNext, Finish, Doing, Top, Holds
    <2>3. Tree(tasks, Specs) /\ Tree(tasks', Specs)
      BY IInvSplit, IInvSplitPrime
    <2>4. Stranded(tasks') \subseteq Stranded(tasks)
      <3>1. CASE Predict
        BY <3>1, PredictStrands DEF Raising
      <3>2. CASE VisitNext \/ Finish
        BY <3>2 DEF VisitNext, Finish
      <3>3. CASE CancelNext
        <4>1. UNCHANGED tasks \/ \E t : tasks' = CancelBranch(tasks, t)
          BY <3>3 DEF CancelNext
        <4> QED
          BY <2>3, <4>1, CancelBranchShrunk, ShrunkStrands
      <3> QED
        BY <1>1, <3>1, <3>2, <3>3
    <2> QED
      BY <2>1, <2>2, <2>4, StillHeld
  <1> QED
    BY <1>1, UpdateFuture, UpdateJoinFuture, JoinFiresFuture, CompleteTaskFuture, ChildrenNextFuture
    DEF Step, Raising

-----------------------------------------------------------------------------

\* Between two calls nothing is stranded, and no run strands a task.
LEMMA NoneStranded == Stranded(tasks') = {} => FutureInv'
  <1>1. Stranded(tasks)' = Stranded(tasks')
    BY DEF Stranded
  <1> QED
    BY <1>1 DEF FutureInv

LEMMA AtRestFuture == ASSUME FutureInv, calls = <<>> PROVE Stranded(tasks) = {}
  BY DEF FutureInv, Held

LEMMA SyncStrands ==
  ASSUME NEW T, Tree(T, Specs), NEW t \in DOMAIN T, T[t].state # "COMPLETED",
         NEW outs, NEW n, Gapped(outs, n), NEW state \in {"FUTURE", "READY"}
  PROVE  Stranded(SyncChildren(T, t, outs, n, state)) \subseteq Stranded(T)
  <1> DEFINE U == SyncChildren(T, t, outs, n, state)
  <1>1. state \in ANY
    BY StatesDiffer
  <1>2. Tree(U, Specs) /\ Grown(T, U, t, {state})
    BY <1>1, SyncChildrenTree DEF Gapped
  <1> HIDE DEF U
  <1>3. Stranded(U) \subseteq Stranded(T)
    BY <1>2, GrownStrands
  <1> QED
    BY <1>3 DEF U

LEMMA RunSyncsFuture ==
  ASSUME IInv, ReachInv, FutureInv, NEW t, NEW kinds, Running(t, kinds),
         NEW outs, NEW n, Gapped(outs, n),
         RunRaises(t) \/ tasks' = SyncChildren(tasks, t, outs, n, "FUTURE")
  PROVE  FutureInv'
  <1>1. /\ Tree(tasks, Specs) /\ calls = <<>> /\ t \in DOMAIN tasks /\ tasks[t].state = "READY"
        /\ Stranded(tasks) = {}
    BY RunnableReach, AtRestFuture
  <1>2. CASE RunRaises(t)
    BY <1>1, <1>2, SetStrands, NoneStranded DEF RunRaises
  <1>3. CASE tasks' = SyncChildren(tasks, t, outs, n, "FUTURE")
    BY <1>1, <1>3, SyncStrands, NoneStranded
  <1> QED
    BY <1>2, <1>3

LEMMA RunThreadStartFuture ==
  ASSUME IInv, ReachInv, FutureInv, NEW t, RunThreadStart(t)
  PROVE  FutureInv'
  <1> DEFINE T    == AssignThread(tasks, t, threads + 1)
             outs == Outputs(tasks[t].spec)
  <1>1. /\ Tree(tasks, Specs) /\ calls = <<>> /\ t \in DOMAIN tasks /\ tasks[t].state = "READY"
        /\ Stranded(tasks) = {} /\ tasks[t].spec \in Specs
    BY RunnableReach, AtRestFuture DEF RunThreadStart
  <1>2. threads + 1 \in Nat
    BY DEF IInv, TypeOK
  <1>3. /\ Tree(T, Specs) /\ DOMAIN T = DOMAIN tasks
        /\ \A d \in DOMAIN tasks : T[d].state = tasks[d].state
    BY <1>1, <1>2, AssignThreadTree
  <1>4. \/ tasks' = SetState(T, {t}, "ERROR")
        \/ tasks' = SyncChildren(T, t, outs, Len(outs), "READY")
    BY DEF RunThreadStart
  <1>5. Gapped(outs, Len(outs))
    BY <1>1, OutputsGapped
  <1> HIDE DEF T, outs
  <1>6. Stranded(T) = {}
    BY <1>1, <1>3, ParentLive DEF Stranded
  <1> QED
    BY <1>1, <1>3, <1>4, <1>5, <1>6, SetStrands, SyncStrands, NoneStranded

LEMMA RunFuture == ASSUME IInv, ReachInv, FutureInv, Run PROVE FutureInv'
  <1>1. PICK t \in DOMAIN tasks : RunTask(t)
    BY DEF Run
  <1>2. PICK kinds : Running(t, kinds)
    BY <1>1 DEF RunTask, RunSimple, RunFails, RunMultiChoice, RunExclusiveChoice, RunMultiInstance,
                RunThreadSplit, RunThreadStart, RunReleaseMutex, RunCancel, RunCancelTask
  <1> DEFINE s == tasks[t].spec
  <1>3. Tree(tasks, Specs) /\ calls = <<>> /\ Stranded(tasks) = {} /\ s \in Specs
    BY <1>2, RunnableReach, AtRestFuture
  <1>4. CASE RunMultiChoice(t)
    <2>1. PICK matching \in SUBSET Net[s].cond :
             RunSplit(t, Pick(Outputs(s), (Specs \ Net[s].cond) \union matching),
                      Len(Outputs(s)), 0)
      BY <1>4 DEF RunMultiChoice
    <2>2. Gapped(Pick(Outputs(s), (Specs \ Net[s].cond) \union matching), Len(Outputs(s)))
      BY <1>3, PickGapped
    <2> HIDE DEF s
    <2> QED
      BY <1>2, <2>1, <2>2, RunSyncsFuture DEF RunSplit
  <1>5. CASE RunExclusiveChoice(t)
    <2>1. Kind(s) = "ExclusiveChoice"
      BY <1>5 DEF RunExclusiveChoice, Running
    <2>2. PICK output \in Net[s].cond \union {Net[s].default} : RunSplit(t, <<output>>, 1, 0)
      BY <1>5 DEF RunExclusiveChoice
    <2>3. Gapped(<<output>>, 1)
      BY <1>3, <2>1, NetTyped DEF Gapped
    <2> HIDE DEF s
    <2> QED
      BY <1>2, <2>2, <2>3, RunSyncsFuture DEF RunSplit
  <1>6. CASE RunMultiInstance(t) \/ RunThreadSplit(t)
    <2>1. PICK n \in Net[s].times :
             \/ RunRaises(t)
             \/ tasks' = SyncChildren(tasks, t, PredictedOutputs(s, n), OutputCount(s, n), "FUTURE")
      BY <1>6 DEF RunMultiInstance, RunThreadSplit, RunSplit
    <2>2. Gapped(PredictedOutputs(s, n), OutputCount(s, n))
      BY <1>3, NetTyped, PredictedOutputsGapped
    <2> HIDE DEF s
    <2> QED
      BY <1>2, <2>1, <2>2, RunSyncsFuture
  <1>7. CASE RunCancel(t)
    BY <1>3, <1>7, CancelBranchTree, CancelBranchShrunk, ShrunkStrands, NoneStranded DEF RunCancel
  <1>8. ASSUME UNCHANGED tasks \/ RunRaises(t) PROVE FutureInv'
    BY <1>3, <1>8, SetStrands, NoneStranded DEF RunRaises
  <1> QED
    BY <1>1, <1>4, <1>5, <1>6, <1>7, <1>8, RunThreadStartFuture
    DEF RunTask, RunSimple, RunFails, RunReleaseMutex, RunCancelTask

LEMMA ResetFuture ==
  ASSUME IInv, IInv', FutureInv, OrderlyReset
  PROVE  FutureInv'
  <1>1. PICK t \in DOMAIN tasks : GoBack(t)
    BY OrderlyResetGoesBack
  <1> DEFINE pruned == RemoveBranches(tasks, Children(tasks, t))
             bare   == SetState(pruned, {t}, "FUTURE")
             mask   == PREDICTED \union {"FUTURE"}
             next   == PredictNext(tasks', t, 0, mask)
             f      == PredictFrame(t, next, 1, mask)
             g      == Frame("hook", t, {})
             first  == <<f>>
             then   == <<g>>
  <1>2. /\ Tree(tasks, Specs) /\ Tree(tasks', Specs) /\ t \in Path /\ Stranded(tasks) = {}
        /\ calls' = first \o then
    BY <1>1, IInvSplit, IInvSplitPrime, StateTyped, AtRestFuture
    DEF GoBack, ResetBranch, MayReset, Quiescent
  <1>3. /\ Tree(pruned, Specs) /\ t \in DOMAIN pruned /\ Shrunk(tasks, pruned)
        /\ \A d \in DOMAIN pruned \ {Root} : Parent(d) # t
        /\ Tree(bare, Specs) /\ t \in DOMAIN bare /\ bare[t].state = "FUTURE"
        /\ \E n \in Nat : tasks' = PredictHook(bare, t, n)
    BY <1>1, ResetParts
  <1>4. next \in SUBSET Path /\ mask \in SUBSET ANY
    BY <1>2, PredictNextTyped, MasksTyped
  <1> HIDE DEF next, mask, pruned
  <1>5. Stranded(bare) \subseteq {t}
    <2>1. Stranded(pruned) = {}
      BY <1>2, <1>3, ShrunkStrands
    <2> QED
      BY <1>3, <2>1, SetStateEffect, ParentLive DEF Stranded
  <1> HIDE DEF bare
  <1>6. Stranded(tasks') \subseteq {t}
    <2>1. PICK n \in Nat : tasks' = PredictHook(bare, t, n)
      BY <1>3
    <2>2. PICK states : Grown(bare, tasks', t, states) /\ Foresees(bare, t, states)
      BY <1>3, <2>1, PredictHookGrown, StatesDiffer
    <2>3. "COMPLETED" \notin states
      BY <2>2, StatesDiffer DEF Foresees
    <2> QED
      BY <1>2, <1>3, <1>5, <2>2, <2>3, GrownStrands
  <1>7. f \in FrameType /\ g \in FrameType /\ Holds(g, t)
    BY <1>2, <1>4, PredictFrameTyped, FrameTyped DEF Frame, Ops, Holds
  <1> HIDE DEF f, g
  <1>8. first \in Seq(FrameType) /\ then \in Seq(FrameType) /\ DOMAIN then = {1} /\ then[1] = g
    BY <1>7
  <1> HIDE DEF first, then
  <1>9. Held(then, t)
    BY <1>7, <1>8 DEF Held
  <1>10. Held(calls', t)
    BY <1>2, <1>8, <1>9, ConcatHolds
  <1>11. Stranded(tasks)' = Stranded(tasks')
    BY DEF Stranded
  <1> QED
    BY <1>6, <1>10, <1>11 DEF FutureInv, Held

LEMMA InitFuture == ASSUME Init PROVE FutureInv
  BY DEF Init, FutureInv, Stranded

LEMMA NextFuture ==
  ASSUME IInv, ReachInv, FutureInv, [OrderlyNext]_vars, ~Raising, [~UpdateFails]_vars
  PROVE  FutureInv'
  <1>1. IInv'
    BY OrderlyIInv
  <1>2. CASE UNCHANGED vars
    <2>1. UNCHANGED <<tasks, calls>>
      BY <1>2 DEF vars
    <2> QED
      BY <2>1 DEF FutureInv, Stranded, Held
  <1>3. CASE Step
    <2>1. ~UpdateFails \/ UNCHANGED vars
      OBVIOUS
    <2> QED
      BY <1>1, <1>2, <1>3, <2>1, StepFuture
  <1>4. CASE Cancel
    <2>1. Tree(tasks, Specs) /\ Stranded(tasks) = {} /\ tasks' = CancelBranch(tasks, Root)
      BY <1>4, IInvSplit, AtRestFuture DEF Cancel, Quiescent
    <2> QED
      BY <2>1, CancelBranchTree, CancelBranchShrunk, ShrunkStrands, NoneStranded
  <1>5. CASE UpdateWaitingTasks
    <2>1. Stranded(tasks) = {} /\ UNCHANGED tasks
      BY <1>5, AtRestFuture DEF UpdateWaitingTasks, Quiescent
    <2> QED
      BY <2>1, NoneStranded
  <1> QED
    BY <1>1, <1>2, <1>3, <1>4, <1>5, RunFuture, ResetFuture DEF OrderlyNext

\* What the engine calls FUTURE is reached: when a call returns there is no FUTURE task
\* left below a completed one, unless an exception has unwound the call that would have
\* updated it.
THEOREM FuturesReached == OrderlySpec /\ []~Raising /\ [][~UpdateFails]_vars => []FutureIsReached
  <1>1. Init => FutureInv
    BY InitFuture
  <1>2. IInv /\ ReachInv /\ FutureInv /\ [OrderlyNext]_vars /\ ~Raising /\ [~UpdateFails]_vars => FutureInv'
    BY NextFuture
  <1>3. FutureInv => FutureIsReached
    <2> SUFFICES ASSUME FutureInv, Quiescent, NEW t \in InState(tasks, {"FUTURE"}) \ {Root},
                        In(tasks, Parent(t), {"COMPLETED"})
                 PROVE  FALSE
      BY DEF FutureIsReached
    <2>1. t \in Stranded(tasks)
      BY DEF Stranded, InState, In
    <2> QED
      BY <2>1, AtRestFuture DEF Quiescent
  <1> QED
    BY <1>1, <1>2, <1>3, ReachAlways, PTL DEF OrderlySpec

-----------------------------------------------------------------------------
(* Completion is signalled.  As long as it has not been, there is something *)
(* unfinished, or the call in progress will still complete a task, signal   *)
(* or make a join READY.                                                    *)

HasOp(c, ops)  == \E i \in DOMAIN c : c[i].op \in ops
Signalling     == {"complete", "finish", "join"}

SignalsYet    == completions = 0 /\ resets = 0 /\ cancels = 0 =>
                    ~IsCompleted(tasks) \/ HasOp(calls, Signalling)
CompletionInv == SignalsYet /\ (Doing("cancel") => HasOp(calls, {"complete", "join"}))

LEMMA OpConcat ==
  ASSUME NEW a \in Seq(FrameType), NEW b \in Seq(FrameType), NEW ops,
         HasOp(a, ops) \/ HasOp(b, ops)
  PROVE  HasOp(a \o b, ops)
  <1> DEFINE d == a \o b
  <1>1. /\ Len(a) \in Nat /\ Len(b) \in Nat /\ DOMAIN a = 1..Len(a) /\ DOMAIN b = 1..Len(b)
        /\ d \in Seq(FrameType) /\ Len(d) = Len(a) + Len(b)
        /\ \A i \in 1..Len(d) : d[i] = IF i <= Len(a) THEN a[i] ELSE b[i - Len(a)]
    BY ConcatProperties, LenProperties
  <1>2. DOMAIN d = 1..Len(d)
    BY <1>1, LenProperties
  <1> HIDE DEF d
  <1>3. CASE HasOp(a, ops)
    <2>1. PICK i \in DOMAIN a : a[i].op \in ops
      BY <1>3 DEF HasOp
    <2>2. i \in DOMAIN d /\ d[i] = a[i]
      BY <1>1, <1>2, <2>1
    <2> QED
      BY <2>1, <2>2 DEF HasOp, d
  <1>4. CASE HasOp(b, ops)
    <2>1. PICK i \in DOMAIN b : b[i].op \in ops
      BY <1>4 DEF HasOp
    <2>2. i + Len(a) \in DOMAIN d /\ d[i + Len(a)] = b[i]
      BY <1>1, <1>2, <2>1
    <2> QED
      BY <2>1, <2>2 DEF HasOp, d
  <1> QED
    BY <1>3, <1>4

\* What is below the top frame remains to be done.
LEMMA OpRemains ==
  ASSUME IInv, calls # <<>>, Pushes, NEW ops, HasOp(calls, ops), Top.op \notin ops
  PROVE  HasOp(calls', ops)
  <1> DEFINE rest == Tail(calls)
  <1>1. /\ calls \in Seq(FrameType) /\ rest \in Seq(FrameType) /\ Len(rest) = Len(calls) - 1
        /\ Top = calls[1] /\ \A i \in 1..Len(rest) : rest[i] = calls[i + 1]
        /\ Len(calls) \in Nat \ {0} /\ Len(rest) \in Nat
    BY IInvSplit, HeadTailProperties, LenProperties DEF Top
  <1>2. DOMAIN calls = 1..Len(calls) /\ DOMAIN rest = 1..Len(rest)
    BY <1>1, LenProperties
  <1>3. PICK frames \in Seq(FrameType) : calls' = frames \o rest
    BY DEF Pushes
  <1> HIDE DEF rest
  <1>4. PICK i \in DOMAIN calls : calls[i].op \in ops
    BY DEF HasOp
  <1>5. i # 1 /\ i - 1 \in DOMAIN rest /\ rest[i - 1] = calls[i]
    BY <1>1, <1>2, <1>4
  <1>6. HasOp(rest, ops)
    BY <1>4, <1>5 DEF HasOp
  <1> QED
    BY <1>1, <1>3, <1>6, OpConcat

LEMMA Unfinished ==
  ASSUME NEW T, NEW d \in DOMAIN T, T[d].state \in NOT_FINISHED
  PROVE  ~IsCompleted(T)
  BY DEF IsCompleted, InState

LEMMA SetUnfinished ==
  ASSUME NEW T, Tree(T, Specs), NEW S, NEW d \in DOMAIN T, T[d].state \in NOT_FINISHED,
         NEW state, state \in NOT_FINISHED \/ d \notin S
  PROVE  ~IsCompleted(SetState(T, S, state))
  BY SetStateEffect, Unfinished

\* An exception that sets no task in ERROR leaves unfinished what made the call raise.
LEMMA RaiseUnfinished ==
  ASSUME Tree(tasks, Specs), Raise, InState(tasks', {"ERROR"}) = {},
         NEW d \in DOMAIN tasks, tasks[d].state \in NOT_FINISHED
  PROVE  ~IsCompleted(tasks')
  <1> DEFINE S == {calls[i].task : i \in {k \in DOMAIN calls : calls[k].op = "complete"}}
  <1>1. tasks' = SetState(tasks, S, "ERROR")
    BY DEF Raise
  <1> HIDE DEF S
  <1>2. d \notin S
    BY <1>1, SetStateEffect DEF InState
  <1> QED
    BY <1>1, <1>2, SetUnfinished

\* A hook is about a task that is not finished, and leaves it so.
LEMMA HookUnfinished ==
  ASSUME IInv, ReachInv, InState(tasks', {"ERROR"}) = {},
         \/ UpdateSimple \/ UpdateFails \/ UpdateExecute \/ UpdateGate \/ UpdateAcquire
         \/ UpdateJoin
  PROVE  ~IsCompleted(tasks')
  <1> DEFINE j == Top.task
  <1>1. calls # <<>> /\ Top.op = "hook" /\ j \in DOMAIN tasks
    BY DEF UpdateSimple, UpdateFails, UpdateExecute, UpdateGate, UpdateAcquire, UpdateJoin,
           Hook, Doing, Top
  <1>2. Tree(tasks, Specs) /\ tasks[j].state \in NOT_FINISHED
    BY <1>1, InProgress DEF FrameOK, LiveIn
  <1>3. \/ SetReady(j) \/ SetWaiting(j) \/ Raise \/ UNCHANGED tasks
    BY DEF UpdateSimple, UpdateFails, UpdateExecute, UpdateGate, UpdateAcquire, UpdateJoin
  <1>4. CASE SetReady(j)
    <2>1. tasks' = SetState(tasks, {j}, "READY")
      BY <1>1, <1>2, <1>4, StatesDiffer DEF SetReady, Ready, In
    <2> QED
      BY <1>1, <1>2, <2>1, SetUnfinished, StatesDiffer
  <1>5. CASE SetWaiting(j)
    BY <1>1, <1>2, <1>5, SetUnfinished, StatesDiffer DEF SetWaiting
  <1>6. CASE Raise
    BY <1>1, <1>2, <1>6, RaiseUnfinished
  <1>7. CASE UNCHANGED tasks
    BY <1>1, <1>2, <1>7, Unfinished
  <1> QED
    BY <1>3, <1>4, <1>5, <1>6, <1>7

\* A prediction keeps the task that it is about.
LEMMA PredictUnfinished ==
  ASSUME IInv, IInv', ReachInv, Predict, InState(tasks', {"ERROR"}) = {}
  PROVE  (PushesNoJoin /\ UNCHANGED tasks) \/ ~IsCompleted(tasks')
  <1>1. calls # <<>> /\ Top.op = "predict"
    BY DEF Predict, Doing, Top
  <1>2. /\ Tree(tasks, Specs) /\ Tree(tasks', Specs) /\ FrameOK(tasks, Top)
        /\ Top.mask \in SUBSET ANY
    BY <1>1, InProgress, StackTyped, IInvSplitPrime
  <1>3. ASSUME NEW t \in DOMAIN tasks, In(tasks, t, Top.mask),
               tasks' = PredictHook(tasks, t, PredictedTimes(tasks[t].spec))
        PROVE  ~IsCompleted(tasks')
    <2>1. tasks[t].state \in EXPECTED
      BY <1>1, <1>2, <1>3 DEF FrameOK, In
    <2>2. PredictedTimes(tasks[t].spec) \in Nat
      BY <1>2, StateTyped, PredictedTimesTyped
    <2>3. PICK states : Grown(tasks, tasks', t, states) /\ Foresees(tasks, t, states)
      BY <1>2, <1>3, <2>1, <2>2, PredictHookGrown
    <2> QED
      BY <2>1, <2>3, Unfinished, StatesDiffer DEF Grown
  <1>4. ASSUME NEW t \in DOMAIN tasks, NEW n, HookRaises(tasks, t, n), Raise
        PROVE  ~IsCompleted(tasks')
    <2>1. PICK c \in Children(tasks, t) : In(tasks, c, DEFINITE)
      BY <1>4 DEF HookRaises, SyncRaises
    <2>2. c \in DOMAIN tasks /\ tasks[c].state \in NOT_FINISHED
      BY <2>1, StatesDiffer DEF Children, In
    <2> QED
      BY <1>2, <1>4, <2>2, RaiseUnfinished
  <1>5. CASE PredictRaises /\ Raise
    BY <1>4, <1>5 DEF PredictRaises
  <1>6. CASE PushesNoJoin
    <2>1. \/ UNCHANGED tasks
          \/ \E t \in DOMAIN tasks : HookRaises(tasks, t, PredictedTimes(tasks[t].spec)) /\ Raise
          \/ \E t \in DOMAIN tasks : /\ In(tasks, t, Top.mask)
                                     /\ tasks' = PredictHook(tasks, t, PredictedTimes(tasks[t].spec))
      BY DEF Predict
    <2> QED
      BY <1>3, <1>4, <1>6, <2>1
  <1> QED
    BY <1>5, <1>6, PredictPushes

\* The join that fires is READY afterwards: it is not cancelled, nor removed with another
\* instance of the join.
LEMMA JoinFiresUnfinished ==
  ASSUME IInv, ReachInv, PendingInv, JoinFires, FiringJoinSurvives,
         NEW after, NoLoopsIn(after), Behind(tasks, after)
  PROVE  ~IsCompleted(tasks')
  <1> DEFINE j == Top.task
  <1>1. /\ calls # <<>> /\ Top.op = "join" /\ j \in DOMAIN tasks
        /\ tasks[j].state \in NOT_FINISHED
    BY DEF JoinFires, FiringJoinSurvives, Doing, Top, In
  <1>2. Tree(tasks, Specs) /\ Pending(tasks, Top)
    BY <1>1, InProgress, RestPending
  <1>3. Kind(tasks[j].spec) = "Join" /\ tasks[j].spec \in Specs
    BY <1>1, <1>2, StateTyped DEF Pending
  <1>4. ASSUME NEW k \in OtherInstances(tasks, j), k \in DOMAIN tasks PROVE ~Above(k, j)
    <2>1. tasks[k].spec = tasks[j].spec
      BY DEF OtherInstances, Instances, OfSpec
    <2> QED
      BY <1>1, <1>3, <1>4, <2>1 DEF NoLoopsIn, Behind
  <1>5. j \in DOMAIN tasks'
    BY <1>1, <1>4, FiringRemoves
  <1>6. PICK V : /\ Tree(V, Specs) /\ tasks' = Ready(V, j)
                 /\ \A d \in DOMAIN V : \/ V[d].state = tasks[d].state
                                        \/ d \in OtherInstances(tasks, j) /\ V[d].state = "CANCELLED"
    BY JoinFiresParts
  <1>7. j \notin OtherInstances(tasks, j)
    BY DEF OtherInstances
  <1>8. j \in DOMAIN V
    BY <1>5, <1>6, SetStateEffect DEF Ready
  <1>9. V[j].state \in NOT_FINISHED
    BY <1>1, <1>6, <1>7, <1>8
  <1>10. tasks' = SetState(V, {j}, "READY")
    BY <1>6, <1>8, <1>9, StatesDiffer DEF Ready, In
  <1> QED
    BY <1>6, <1>8, <1>9, <1>10, SetUnfinished, StatesDiffer

LEMMA CompleteTaskSignals ==
  ASSUME IInv, ReachInv, CompleteTask
  PROVE  HasOp(calls', {"finish"})
  <1> DEFINE t == Top.task
             f == Frame("children", t, Children(tasks, t))
             g == Frame("visit", t, {Root})
             h == Frame("finish", t, {})
             frames == <<f, g, h>>
  <1>1. calls # <<>> /\ calls' = frames \o Tail(calls)
    BY DEF CompleteTask, Doing, ReturnTo
  <1>2. Tree(tasks, Specs) /\ t \in Path /\ Tail(calls) \in Seq(FrameType)
    BY <1>1, InProgress, StackTyped
  <1>3. /\ f \in FrameType /\ g \in FrameType /\ h \in FrameType /\ h.op = "finish"
    BY <1>2, ChildrenTyped, RootPath, FrameTyped DEF Ops, Frame
  <1> HIDE DEF f, g, h
  <1>4. frames \in Seq(FrameType) /\ 3 \in DOMAIN frames /\ frames[3] = h
    BY <1>3
  <1> HIDE DEF frames
  <1>5. HasOp(frames, {"finish"})
    BY <1>3, <1>4 DEF HasOp
  <1> QED
    BY <1>1, <1>2, <1>4, <1>5, OpConcat

\* What is cancelled is cancelled by a join that fires afterwards, or by a task that
\* completes afterwards.
LEMMA StepCancels ==
  ASSUME IInv, ReachInv, CompletionInv, Step
  PROVE  (Doing("cancel") => HasOp(calls, {"complete", "join"}))'
  <1>1. CASE Step /\ ~UpdateJoin /\ ~CancelNext
    <2>1. /\ (calls # <<>> /\ PushesNoJoin) \/ Raise
          /\ Top.op # "cancel"
      BY <1>1, StepPushes
      DEF Step, Predict, UpdateSimple, UpdateFails, UpdateExecute, UpdateGate, UpdateAcquire, Hook,
          JoinFires, CompleteTask, ChildrenNext, VisitNext, Finish, Doing, Top
    <2>2. CASE Raise
      BY <2>2 DEF Raise, Doing
    <2>3. CASE calls # <<>> /\ PushesNoJoin
      <3>1. PICK frames \in Seq(FrameType) : NoJoins(frames) /\ calls' = frames \o Tail(calls)
        BY <2>3 DEF PushesNoJoin
      <3>2. Tail(calls) \in Seq(FrameType) /\ NoJoins(Tail(calls))
        BY <2>1, <2>3, NoJoinsRest
      <3>3. calls' \in Seq(FrameType) /\ NoJoins(calls')
        BY <3>1, <3>2, NoJoinsConcat, ConcatFrames
      <3>4. calls' # <<>> => Head(calls').op # "cancel"
        BY <3>3 DEF NoJoins
      <3> QED
        BY <3>4 DEF Doing
    <2> QED
      BY <2>1, <2>2, <2>3
  <1>2. CASE CancelNext
    <2>1. calls # <<>> /\ Pushes /\ Top.op = "cancel" /\ HasOp(calls, {"complete", "join"})
      BY <1>2, CancelPushes DEF CancelNext, Doing, Top, CompletionInv
    <2>2. HasOp(calls', {"complete", "join"})
      BY <2>1, OpRemains
    <2> QED
      BY <2>2 DEF HasOp
  <1>3. CASE UpdateJoin
    <2> DEFINE j       == Top.task
               waiting == WaitingTasks(tasks, j)
               first   == IF Net[tasks[j].spec].cancel
                          THEN [i \in DOMAIN waiting |-> Frame("cancel", j, waiting[i])]
                          ELSE <<>>
               joining == Frame("join", j, {})
               fire    == <<joining>>
               both    == first \o fire
    <2>1. /\ calls # <<>> /\ Top.op = "hook" /\ j \in DOMAIN tasks
          /\ Tree(tasks, Specs) /\ j \in Path /\ Tail(calls) \in Seq(FrameType)
      BY <1>3, InProgress, StateTyped DEF UpdateJoin, Hook, Doing, Top
    <2>2. Return \/ Raise \/ ReturnTo(fire) \/ ReturnTo(both)
      BY <1>3 DEF UpdateJoin, SetWaiting
    <2>3. joining \in FrameType /\ joining.op = "join"
      BY <2>1, FrameTyped DEF Ops, Frame
    <2>4. first \in Seq(FrameType)
      BY <2>1, WaitingFrames, NoFrame
    <2> HIDE DEF first, joining
    <2>5. fire \in Seq(FrameType) /\ DOMAIN fire = {1} /\ fire[1] = joining
      BY <2>3
    <2> HIDE DEF fire
    <2>6. HasOp(fire, {"complete", "join"})
      BY <2>3, <2>5 DEF HasOp
    <2>7. both \in Seq(FrameType) /\ HasOp(both, {"complete", "join"})
      BY <2>4, <2>5, <2>6, ConcatFrames, OpConcat
    <2> HIDE DEF both
    <2>8. CASE ReturnTo(fire) \/ ReturnTo(both)
      <3>1. HasOp(calls', {"complete", "join"})
        BY <2>1, <2>5, <2>6, <2>7, <2>8, OpConcat DEF ReturnTo
      <3> QED
        BY <3>1 DEF HasOp
    <2>9. CASE Raise
      BY <2>9 DEF Raise, Doing
    <2>10. CASE Return
      <3>1. calls' \in Seq(FrameType) /\ NoJoins(calls')
        BY <2>1, <2>10, NoJoinsRest DEF Return
      <3>2. calls' # <<>> => Head(calls').op # "cancel"
        BY <3>1 DEF NoJoins
      <3> QED
        BY <3>2 DEF Doing
    <2> QED
      BY <2>2, <2>8, <2>9, <2>10
  <1> QED
    BY <1>1, <1>2, <1>3

LEMMA StepSignals ==
  ASSUME IInv, IInv', ReachInv, PendingInv, CompletionInv, Step,
         FiringJoinSurvives, InState(tasks', {"ERROR"}) = {},
         NEW after, NoLoopsIn(after), Behind(tasks, after)
  PROVE  SignalsYet'
  <1> SUFFICES ASSUME completions' = 0, resets' = 0, cancels' = 0
               PROVE  ~IsCompleted(tasks') \/ HasOp(calls', Signalling)
    BY DEF SignalsYet, IsCompleted, InState, HasOp
  <1>1. /\ resets = 0 /\ cancels = 0
        /\ completions' = completions \/ Finish
    BY DEF Step, Predict, UpdateSimple, UpdateFails, UpdateExecute, UpdateGate, UpdateAcquire,
           UpdateJoin, CancelNext, JoinFires, CompleteTask, ChildrenNext, VisitNext, Finish, counters
  <1>2. CASE Finish
    <2>1. UNCHANGED tasks /\ (IsCompleted(tasks) => completions' = completions + 1)
      BY <1>2 DEF Finish
    <2>2. completions \in Nat
      BY DEF IInv, TypeOK
    <2>3. ~IsCompleted(tasks)
      BY <2>1, <2>2
    <2> QED
      BY <2>1, <2>3
  <1>3. CASE CompleteTask
    <2>1. HasOp(calls', {"finish"})
      BY <1>3, CompleteTaskSignals
    <2> QED
      BY <2>1 DEF HasOp, Signalling
  <1>4. CASE CancelNext
    <2>1. calls # <<>> /\ Pushes /\ Top.op = "cancel" /\ HasOp(calls, {"complete", "join"})
      BY <1>4, CancelPushes DEF CancelNext, Doing, Top, CompletionInv
    <2>2. HasOp(calls', {"complete", "join"})
      BY <2>1, OpRemains
    <2> QED
      BY <2>2 DEF HasOp, Signalling
  <1>5. ASSUME calls # <<>>, Pushes, UNCHANGED tasks, Top.op \notin Signalling, completions = 0
        PROVE  ~IsCompleted(tasks') \/ HasOp(calls', Signalling)
    BY <1>1, <1>5, OpRemains DEF CompletionInv, SignalsYet
  <1>6. CASE ~Finish /\ (ChildrenNext \/ VisitNext)
    <2>1. /\ calls # <<>> /\ Top.op \in {"children", "visit"} /\ UNCHANGED tasks
      BY <1>6 DEF ChildrenNext, VisitNext, Doing, Top
    <2>2. Pushes
      BY <1>6, LoopPushes DEF PushesNoJoin, Pushes
    <2> QED
      BY <1>1, <1>5, <1>6, <2>1, <2>2 DEF Signalling
  <1>7. CASE ~Finish /\ Predict
    <2>1. calls # <<>> /\ Top.op = "predict"
      BY <1>7 DEF Predict, Doing, Top
    <2>2. (Pushes /\ UNCHANGED tasks) \/ ~IsCompleted(tasks')
      BY <1>7, PredictUnfinished DEF PushesNoJoin, Pushes
    <2> QED
      BY <1>1, <1>5, <1>7, <2>1, <2>2 DEF Signalling
  <1> QED
    BY <1>2, <1>3, <1>4, <1>6, <1>7, HookUnfinished, JoinFiresUnfinished DEF Step

LEMMA RunSignals ==
  ASSUME IInv, IInv', ReachInv, Run, InState(tasks', {"ERROR"}) = {}
  PROVE  CompletionInv'
  <1>1. PICK t \in DOMAIN tasks : RunTask(t)
    BY DEF Run
  <1>2. t \in Path
    BY IInvSplit, StateTyped
  <1>3. PICK frames \in Seq(FrameType) : RunWith(t, frames)
    BY <1>1, RunsPush DEF RunPushes
  <1> DEFINE f    == Frame("complete", t, {})
             done == <<f>>
  <1>4. f \in FrameType /\ f.op = "complete"
    BY <1>2, FrameTyped DEF Ops, Frame
  <1>5. calls' = frames \o done
    BY <1>3 DEF RunWith
  <1> HIDE DEF f
  <1>6. done \in Seq(FrameType) /\ DOMAIN done = {1} /\ done[1] = f
    BY <1>4
  <1> HIDE DEF done
  <1>7. HasOp(done, {"complete"})
    BY <1>4, <1>6 DEF HasOp
  <1>8. HasOp(calls', {"complete"})
    BY <1>5, <1>6, <1>7, OpConcat
  <1> QED
    BY <1>8 DEF CompletionInv, SignalsYet, HasOp, Signalling

LEMMA NextSignals ==
  ASSUME IInv, ReachInv, PendingInv, CompletionInv, [OrderlyNext]_vars,
         FiringJoinSurvives, InState(tasks', {"ERROR"}) = {},
         NEW after, NoLoopsIn(after), Behind(tasks, after)
  PROVE  CompletionInv'
  <1>1. IInv'
    BY OrderlyIInv
  <1>2. CASE UNCHANGED vars
    <2>1. UNCHANGED <<tasks, calls, completions, resets, cancels>>
      BY <1>2 DEF vars
    <2> QED
      BY <2>1 DEF CompletionInv, SignalsYet, Doing, HasOp, IsCompleted, InState
  <1>3. CASE Step
    BY <1>1, <1>3, StepSignals, StepCancels DEF CompletionInv
  <1>4. CASE Run
    BY <1>1, <1>4, RunSignals
  <1>5. CASE Cancel
    <2>1. cancels' # 0 /\ calls' = <<>>
      BY <1>5 DEF Cancel, Quiescent, IInv, TypeOK
    <2> QED
      BY <2>1 DEF CompletionInv, SignalsYet, Doing
  <1>6. CASE OrderlyReset
    <2>1. PICK t \in DOMAIN tasks : GoBack(t)
      BY <1>6, OrderlyResetGoesBack
    <2>2. resets' # 0
      BY <2>1 DEF GoBack, IInv, TypeOK
    <2>3. PICK f, g : f.op = "predict" /\ calls' = <<f>> \o <<g>>
      BY <2>1 DEF GoBack, ResetBranch, PredictFrame
    <2>4. ~Doing("cancel")'
      <3> DEFINE a == <<f>>
                 b == <<g>>
      <3>1. a \in Seq({f, g}) /\ b \in Seq({f, g}) /\ Len(a) = 1 /\ a[1] = f /\ Len(b) = 1
        OBVIOUS
      <3> DEFINE c == a \o b
      <3>2. calls' = c
        BY <2>3
      <3> DEFINE S == {f, g}
      <3>a. a \in Seq(S) /\ b \in Seq(S)
        BY <3>1
      <3> HIDE DEF a, b, S
      <3>b. /\ a \o b \in Seq(S) /\ Len(a \o b) = Len(a) + Len(b)
            /\ \A i \in 1 .. Len(a) + Len(b) :
                  (a \o b)[i] = IF i <= Len(a) THEN a[i] ELSE b[i - Len(a)]
        BY <3>a, ConcatProperties, Zenon
      <3>3. c[1] = f /\ c \in Seq(S)
        BY <3>1, <3>b
      <3> HIDE DEF c
      <3>4. Head(c) = f
        BY <3>3
      <3> QED
        BY <2>3, <3>2, <3>4 DEF Doing
    <2> QED
      BY <2>2, <2>4 DEF CompletionInv, SignalsYet
  <1>7. CASE UpdateWaitingTasks
    <2>1. /\ calls = <<>> /\ UNCHANGED <<tasks, completions, resets, cancels>>
          /\ calls' = <<Frame("visit", Root, {Root})>>
      BY <1>7 DEF UpdateWaitingTasks, Quiescent, counters
    <2>2. ~Doing("cancel")'
      BY <2>1 DEF Doing, Frame
    <2>3. ~HasOp(calls, Signalling)
      BY <2>1 DEF HasOp
    <2> QED
      BY <2>1, <2>2, <2>3 DEF CompletionInv, SignalsYet, IsCompleted, InState
  <1> QED
    BY <1>2, <1>3, <1>4, <1>5, <1>6, <1>7 DEF OrderlyNext

LEMMA InitSignals == ASSUME Init PROVE CompletionInv
  <1>1. Root \in DOMAIN tasks /\ tasks[Root].state \in NOT_FINISHED
    BY StatesDiffer DEF Init
  <1>2. ~Doing("cancel")
    BY DEF Init, Doing, PredictFrame
  <1> QED
    BY <1>1, <1>2, Unfinished DEF CompletionInv, SignalsYet

\* completed_event is called exactly once when everything is finished: by the call that
\* finishes the last task, whichever this is, and however the branches come to an end,
\* by completion, by a cancelling join or by a CancelTask.  The net has no join that leads back to
\* itself, no task fails, and no join is cancelled before it fires (FiringJoinsSurvive).
THEOREM CompletionAlwaysSignalled ==
  ASSUME NEW CONSTANT after, NoLoopsIn(after)
  PROVE  OrderlySpec /\ [](InState(tasks, {"ERROR"}) = {}) /\ []FiringJoinSurvives => []CompletionSignalled
  <1>1. Init => PendingInv /\ Behind(tasks, after) /\ CompletionInv
    BY InitPending, InitSignals
  <1>2. IInv /\ ReachInv /\ PendingInv /\ Behind(tasks, after) /\ CompletionInv /\ [OrderlyNext]_vars
          /\ FiringJoinSurvives /\ (InState(tasks, {"ERROR"}) = {})'
           => PendingInv' /\ Behind(tasks, after)' /\ CompletionInv'
    <2> SUFFICES ASSUME IInv, ReachInv, PendingInv, Behind(tasks, after), CompletionInv, [OrderlyNext]_vars,
                        FiringJoinSurvives, (InState(tasks, {"ERROR"}) = {})'
                 PROVE  PendingInv' /\ Behind(tasks, after)' /\ CompletionInv'
      OBVIOUS
    <2>1. InState(tasks', {"ERROR"}) = {}
      BY DEF InState
    <2> QED
      BY <2>1, NextPending, NextSignals
  <1>3. IInv /\ CompletionInv /\ SignalledInTime => CompletionSignalled
    <2> SUFFICES ASSUME IInv, CompletionInv, SignalledInTime, Quiescent, cancels = 0, resets = 0,
                        IsCompleted(tasks)
                 PROVE  completions = 1
      BY DEF CompletionSignalled
    <2>1. ~HasOp(calls, Signalling)
      BY DEF Quiescent, HasOp
    <2>2. completions # 0 /\ completions \in Nat /\ completions <= 1
      BY <2>1 DEF CompletionInv, SignalsYet, SignalledInTime, IInv, TypeOK
    <2> QED
      BY <2>2
  <1> QED
    BY <1>1, <1>2, <1>3, ReachAlways, NeverSignalledEarly, PTL DEF OrderlySpec

-----------------------------------------------------------------------------
(* What is completed stays, and what the mutexes protect.                  *)

\* Whatever is completed stays in the tree, and completed; a join that fires may cancel
\* an instance of itself that has been completed before.
Keeps(T, U) ==
    \A d \in DOMAIN T : T[d].state = "COMPLETED" /\ Kind(T[d].spec) # "Join" =>
        d \in DOMAIN U /\ U[d].state = "COMPLETED"

\* No task is completed, no section is entered.
NothingEnters(T, U) ==
    \A d \in DOMAIN U :
        /\ U[d].state = "COMPLETED" => d \in DOMAIN T /\ T[d].state = "COMPLETED"
        /\ U[d].state = "READY" /\ Kind(U[d].spec) = "AcquireMutex" =>
              d \in DOMAIN T /\ T[d].state = "READY"

Calm(T, U) == SameSpecs(T, U) /\ Keeps(T, U) /\ NothingEnters(T, U)

LEMMA CalmTwice ==
  ASSUME NEW T, NEW V, NEW U, Calm(T, V), Calm(V, U), DOMAIN U \subseteq DOMAIN V
  PROVE  Calm(T, U)
  <1>1. SameSpecs(T, U)
    BY DEF Calm, SameSpecs
  <1>2. Keeps(T, U)
    BY DEF Calm, SameSpecs, Keeps
  <1>3. NothingEnters(T, U)
    BY DEF Calm, NothingEnters, SameSpecs
  <1> QED
    BY <1>1, <1>2, <1>3 DEF Calm

LEMMA UnchangedCalm == ASSUME NEW T PROVE Calm(T, T)
  BY DEF Calm, SameSpecs, Keeps, NothingEnters

LEMMA SetCalm ==
  ASSUME NEW T, Tree(T, Specs), NEW S, NEW state, state # "COMPLETED",
         \A d \in S \intersect DOMAIN T :
            T[d].state = "COMPLETED" => Kind(T[d].spec) = "Join",
         state = "READY" =>
            \A d \in S \intersect DOMAIN T : Kind(T[d].spec) # "AcquireMutex"
  PROVE  Calm(T, SetState(T, S, state))
  <1> DEFINE U == SetState(T, S, state)
  <1>1. /\ DOMAIN U = DOMAIN T
        /\ \A d \in DOMAIN T : /\ U[d].spec = T[d].spec
                               /\ U[d].state = IF d \in S THEN state ELSE T[d].state
    BY SetStateEffect
  <1> HIDE DEF U
  <1>2. SameSpecs(T, U) /\ Keeps(T, U) /\ NothingEnters(T, U)
    BY <1>1 DEF SameSpecs, Keeps, NothingEnters
  <1> QED
    BY <1>2 DEF Calm, U

\* What is synchronized lies below a task that is not finished, where nothing is
\* completed.
LEMMA GrownKeeps ==
  ASSUME NEW T, NEW U, Tree(T, Specs), Reach(T), NEW t, NEW states,
         Grown(T, U, t, states), T[t].state \notin FINISHED,
         \A d \in DOMAIN T : ~Above(t, d) => d \in DOMAIN U
  PROVE  SameSpecs(T, U) /\ Keeps(T, U)
  <1>1. SameSpecs(T, U)
    BY DEF Grown, SameSpecs
  <1>2. ASSUME NEW d \in DOMAIN T, T[d].state = "COMPLETED"
        PROVE  d \in DOMAIN U /\ U[d].state = "COMPLETED"
    <2>1. Attached(T, d) /\ t \in DOMAIN T
      BY <1>2 DEF Reach, REACHED, Grown
    <2>2. d \in DOMAIN U
      BY <2>1 DEF Attached
    <2>3. T[d].state \notin NOT_FINISHED
      BY <1>2, StatesDiffer
    <2> QED
      BY <1>2, <2>2, <2>3 DEF Grown
  <1> QED
    BY <1>1, <1>2 DEF Keeps

LEMMA GrownCalm ==
  ASSUME NEW T, NEW U, Tree(T, Specs), Reach(T), NEW t, NEW states,
         Grown(T, U, t, states), T[t].state \notin FINISHED, "COMPLETED" \notin states,
         \A d \in DOMAIN T : ~Above(t, d) => d \in DOMAIN U,
         "READY" \in states => \A c \in Children(U, t) : Kind(U[c].spec) # "AcquireMutex"
  PROVE  Calm(T, U)
  <1>1. ASSUME NEW d \in DOMAIN U
        PROVE  \/ d \in DOMAIN T /\ U[d].state = T[d].state
               \/ d \in Children(U, t) /\ U[d].state \in states
    BY <1>1 DEF Grown, Children
  <1>2. NothingEnters(T, U)
    BY <1>1 DEF NothingEnters
  <1> QED
    BY <1>2, GrownKeeps DEF Calm

LEMMA SyncCalm ==
  ASSUME NEW T, Tree(T, Specs), Reach(T), NEW t \in DOMAIN T, T[t].state \notin FINISHED,
         NEW outs, NEW n, Gapped(outs, n), NEW state \in ANY \ {"READY", "COMPLETED"}
  PROVE  Calm(T, SyncChildren(T, t, outs, n, state))
  <1> DEFINE U == SyncChildren(T, t, outs, n, state)
  <1>1. Grown(T, U, t, {state})
    BY SyncChildrenTree DEF Gapped
  <1>2. \A d \in DOMAIN T : ~Above(t, d) => d \in DOMAIN U
    BY SyncKeeps
  <1> HIDE DEF U
  <1>3. Calm(T, U)
    BY <1>1, <1>2, GrownCalm
  <1> QED
    BY <1>3 DEF U

LEMMA PredictHookCalm ==
  ASSUME NEW T, Tree(T, Specs), Reach(T), NEW t \in DOMAIN T, NEW n \in Nat,
         T[t].state \in EXPECTED
  PROVE  Calm(T, PredictHook(T, t, n))
  <1> DEFINE U == PredictHook(T, t, n)
  <1>1. PICK states : Grown(T, U, t, states) /\ Foresees(T, t, states)
    BY PredictHookGrown
  <1>2. \A d \in DOMAIN T : ~Above(t, d) => d \in DOMAIN U
    BY PredictKeeps
  <1> HIDE DEF U
  <1>3. T[t].state \notin FINISHED /\ "COMPLETED" \notin states /\ "READY" \notin states
    BY <1>1, StatesDiffer DEF Foresees
  <1>4. Calm(T, U)
    BY <1>1, <1>2, <1>3, GrownCalm
  <1> QED
    BY <1>4 DEF U

\* What is completed lies below nothing unfinished.
LEMMA DropCalm ==
  ASSUME NEW T, Tree(T, Specs), Reach(T), NEW S
  PROVE  Calm(T, DropChildren(T, S))
  <1> DEFINE U == DropChildren(T, S)
  <1>1. Shrunk(T, U) /\ \A d \in DOMAIN U : U[d] = T[d]
    BY DropChildrenShrunk
  <1>2. ASSUME NEW d \in DOMAIN T, T[d].state = "COMPLETED", d \notin DOMAIN U PROVE FALSE
    <2>1. PICK r \in DOMAIN T : T[r].state \in NOT_FINISHED /\ (r = d \/ Above(r, d))
      BY <1>2, DropLoosens
    <2>2. Attached(T, d)
      BY <1>2 DEF Reach, REACHED
    <2>3. "COMPLETED" \notin NOT_FINISHED /\ NOT_FINISHED \intersect FINISHED = {}
      BY StatesDiffer
    <2> QED
      BY <1>2, <2>1, <2>2, <2>3 DEF Attached
  <1> HIDE DEF U
  <1>3. SameSpecs(T, U) /\ Keeps(T, U) /\ NothingEnters(T, U)
    BY <1>1, <1>2 DEF Shrunk, SameSpecs, Keeps, NothingEnters
  <1> QED
    BY <1>3 DEF Calm, U

LEMMA CancelBranchCalm ==
  ASSUME NEW T, Tree(T, Specs), Reach(T), NEW t
  PROVE  Calm(T, CancelBranch(T, t))
  <1> DEFINE open == Branch(T, t) \intersect InState(T, NOT_FINISHED)
             top  == {d \in open : ~\E e \in open : Above(e, d)}
             V    == SetState(T, top, "CANCELLED")
  <1>1. \A d \in top \intersect DOMAIN T : T[d].state \in NOT_FINISHED
    BY DEF InState
  <1> HIDE DEF open, top
  <1>2. Calm(T, V)
    BY <1>1, SetCalm, StatesDiffer
  <1>3. Tree(V, Specs) /\ Shrunk(T, V)
    BY SetStateTree, SetStateEffect, StatesDiffer DEF Shrunk
  <1> HIDE DEF V
  <1>4. Reach(V)
    BY <1>3, ShrunkReach
  <1>5. Calm(V, DropChildren(V, top))
    BY <1>3, <1>4, DropCalm
  <1>6. DOMAIN DropChildren(V, top) \subseteq DOMAIN V
    BY DropChildrenShrunk DEF Shrunk
  <1>7. Calm(T, DropChildren(V, top))
    BY <1>2, <1>5, <1>6, CalmTwice
  <1> QED
    BY <1>7 DEF CancelBranch, open, top, V

StepIsCalm == Calm(tasks, tasks')

LEMMA NothingCalm == UNCHANGED tasks => StepIsCalm
  <1> SUFFICES ASSUME tasks' = tasks PROVE Calm(tasks, tasks)
    BY DEF StepIsCalm
  <1> QED
    BY UnchangedCalm

\* A task that is completing when a call raises has not been completed before.
LEMMA RaiseCalm == ASSUME IInv, ReachInv, Raise PROVE StepIsCalm
  <1> DEFINE S == {calls[i].task : i \in {k \in DOMAIN calls : calls[k].op = "complete"}}
  <1>1. Tree(tasks, Specs) /\ tasks' = SetState(tasks, S, "ERROR")
    BY IInvSplit DEF Raise
  <1>2. ASSUME NEW d \in S \intersect DOMAIN tasks PROVE tasks[d].state # "COMPLETED"
    <2>1. PICK k \in DOMAIN calls : calls[k].op = "complete" /\ calls[k].task = d
      BY <1>2
    <2>2. FrameOK(tasks, calls[k])
      BY <2>1 DEF ReachInv, FramesOK
    <2> QED
      BY <1>2, <2>1, <2>2 DEF FrameOK, LiveIn
  <1> HIDE DEF S
  <1>3. Calm(tasks, SetState(tasks, S, "ERROR"))
    BY <1>1, <1>2, SetCalm
  <1> QED
    BY <1>1, <1>3 DEF StepIsCalm

LEMMA HookCalm ==
  ASSUME IInv, ReachInv, NEW kinds, Hook(kinds),
         \/ SetReady(Top.task) /\ "AcquireMutex" \notin kinds
         \/ SetWaiting(Top.task)
  PROVE  StepIsCalm
  <1> DEFINE t == Top.task
  <1>1. /\ Tree(tasks, Specs) /\ t \in DOMAIN tasks /\ Kind(tasks[t].spec) \in kinds
        /\ tasks[t].state \in NOT_FINISHED
    <2>1. calls # <<>> /\ Top.op = "hook" /\ t \in DOMAIN tasks /\ Kind(tasks[t].spec) \in kinds
      BY DEF Hook, Doing, Top
    <2> QED
      BY <2>1, InProgress DEF FrameOK, LiveIn
  <1>2. tasks[t].state # "COMPLETED"
    BY <1>1, StatesDiffer
  <1>3. \/ UNCHANGED tasks
        \/ tasks' = SetState(tasks, {t}, "READY") /\ "AcquireMutex" \notin kinds
        \/ tasks' = SetState(tasks, {t}, "WAITING")
    BY DEF SetReady, SetWaiting, Ready
  <1> HIDE DEF t
  <1>4. Calm(tasks, SetState(tasks, {t}, "WAITING"))
    BY <1>1, <1>2, SetCalm
  <1>5. ASSUME "AcquireMutex" \notin kinds PROVE Calm(tasks, SetState(tasks, {t}, "READY"))
    BY <1>1, <1>2, <1>5, SetCalm
  <1> QED
    BY <1>3, <1>4, <1>5, NothingCalm DEF StepIsCalm

LEMMA UpdateCalm ==
  ASSUME IInv, ReachInv,
         UpdateSimple \/ UpdateFails \/ UpdateExecute \/ UpdateGate \/ UpdateJoin
  PROVE  StepIsCalm
  <1>1. "AcquireMutex" \notin Unguarded
    BY DEF Unguarded
  <1>2. CASE UpdateSimple
    BY <1>1, <1>2, HookCalm DEF UpdateSimple
  <1>3. CASE UpdateFails
    BY <1>3, RaiseCalm DEF UpdateFails
  <1>4. CASE UpdateExecute
    BY <1>4, HookCalm DEF UpdateExecute
  <1>5. CASE UpdateGate
    BY <1>5, HookCalm DEF UpdateGate
  <1>6. CASE UpdateJoin
    <2>1. Hook({"Join"}) /\ (UNCHANGED tasks \/ Raise \/ SetWaiting(Top.task))
      BY <1>6 DEF UpdateJoin
    <2> QED
      BY <2>1, HookCalm, RaiseCalm, NothingCalm
  <1> QED
    BY <1>2, <1>3, <1>4, <1>5, <1>6

LEMMA PredictCalm == ASSUME IInv, ReachInv, Predict PROVE StepIsCalm
  <1>1. calls # <<>> /\ Top.op = "predict"
    BY DEF Predict, Doing, Top
  <1>2. Tree(tasks, Specs) /\ Reach(tasks) /\ FrameOK(tasks, Top)
    BY <1>1, InProgress
  <1>3. \/ UNCHANGED tasks
        \/ Raise
        \/ \E t \in DOMAIN tasks : /\ In(tasks, t, Top.mask)
                                   /\ tasks' = PredictHook(tasks, t, PredictedTimes(tasks[t].spec))
    BY DEF Predict
  <1>4. ASSUME NEW t \in DOMAIN tasks, In(tasks, t, Top.mask)
        PROVE  Calm(tasks, PredictHook(tasks, t, PredictedTimes(tasks[t].spec)))
    <2>1. tasks[t].state \in EXPECTED
      BY <1>1, <1>2, <1>4 DEF FrameOK, In
    <2>2. PredictedTimes(tasks[t].spec) \in Nat
      BY <1>2, StateTyped, PredictedTimesTyped
    <2> QED
      BY <1>2, <2>1, <2>2, PredictHookCalm
  <1> QED
    BY <1>3, <1>4, RaiseCalm, NothingCalm DEF StepIsCalm

LEMMA CancelNextCalm == ASSUME IInv, ReachInv, CancelNext PROVE StepIsCalm
  <1>1. calls # <<>> /\ Top.op = "cancel"
    BY DEF CancelNext, Doing, Top
  <1>2. Tree(tasks, Specs) /\ Reach(tasks)
    BY <1>1, InProgress
  <1>3. UNCHANGED tasks \/ \E t \in DOMAIN tasks : tasks' = CancelBranch(tasks, t)
    BY DEF CancelNext
  <1> QED
    BY <1>2, <1>3, CancelBranchCalm, NothingCalm DEF StepIsCalm

\* What a join cancels when it fires is of its own spec.
LEMMA JoinFiresCalm == ASSUME IInv, ReachInv, FiringInv, JoinFires PROVE StepIsCalm
  <1> DEFINE j      == Top.task
             found  == OtherInstances(tasks, j)
             V      == DropChildren(tasks, found)
             W      == SetState(V, found \intersect DOMAIN V, "CANCELLED")
  <1>1. /\ calls # <<>> /\ Top.op = "join" /\ Top = calls[1] /\ j \in DOMAIN tasks
        /\ tasks' = Ready(W, j) /\ calls \in Seq(FrameType)
    BY IInvSplit DEF JoinFires, DoJoin, Doing, Top
  <1>2. Tree(tasks, Specs) /\ Reach(tasks)
    BY <1>1, InProgress
  <1>3. Kind(tasks[j].spec) = "Join"
    <2>1. 1 \in DOMAIN calls
      BY <1>1
    <2> QED
      BY <1>1, <2>1 DEF FiringInv
  <1>4. found \in SUBSET Path /\ \A d \in found : d \in DOMAIN tasks /\ tasks[d].spec = tasks[j].spec
    BY <1>2, StateTyped DEF OtherInstances, Instances, OfSpec
  <1> HIDE DEF found, j
  <1>5. Calm(tasks, V) /\ Tree(V, Specs) /\ Shrunk(tasks, V)
    BY <1>2, <1>4, DropCalm, DropChildrenTree, DropChildrenShrunk
  <1> HIDE DEF V
  <1>6. Calm(V, W) /\ Tree(W, Specs) /\ DOMAIN W = DOMAIN V /\ \A d \in DOMAIN W : W[d].spec = V[d].spec
    <2>1. \A d \in (found \intersect DOMAIN V) \intersect DOMAIN V : Kind(V[d].spec) = "Join"
      BY <1>3, <1>4, <1>5 DEF Shrunk
    <2>2. Calm(V, W)
      BY <1>5, <2>1, SetCalm
    <2> QED
      BY <1>5, <2>2, SetStateTree, SetStateEffect, StatesDiffer
  <1> HIDE DEF W
  <1>7. Calm(tasks, W)
    BY <1>5, <1>6, CalmTwice
  <1>8. CASE tasks' = W
    BY <1>7, <1>8 DEF StepIsCalm
  <1>9. CASE tasks' # W
    <2>1. j \in DOMAIN W /\ W[j].state # "COMPLETED" /\ tasks' = SetState(W, {j}, "READY")
      BY <1>1, <1>9 DEF Ready, In
    <2>2. Kind(W[j].spec) = "Join"
      BY <1>3, <1>5, <1>6, <2>1 DEF Shrunk
    <2>3. Calm(W, SetState(W, {j}, "READY")) /\ DOMAIN SetState(W, {j}, "READY") = DOMAIN W
      BY <1>6, <2>1, <2>2, SetCalm, SetStateEffect
    <2> QED
      BY <1>7, <2>1, <2>3, CalmTwice DEF StepIsCalm
  <1> QED
    BY <1>8, <1>9

LEMMA StepCalm ==
  ASSUME IInv, ReachInv, FiringInv, Step
  PROVE  StepIsCalm \/ CompleteTask \/ UpdateAcquire
  <1>1. ChildrenNext \/ VisitNext \/ Finish => UNCHANGED tasks
    BY DEF ChildrenNext, VisitNext, Finish
  <1> QED
    BY <1>1, NothingCalm, PredictCalm, UpdateCalm, CancelNextCalm, JoinFiresCalm DEF Step

LEMMA SyncsCalm ==
  ASSUME IInv, ReachInv, NEW t, NEW kinds, Running(t, kinds),
         NEW outs, NEW n, Gapped(outs, n),
         RunRaises(t) \/ tasks' = SyncChildren(tasks, t, outs, n, "FUTURE")
  PROVE  StepIsCalm
  <1>1. /\ Tree(tasks, Specs) /\ Reach(tasks) /\ t \in DOMAIN tasks
        /\ tasks[t].state = "READY" /\ tasks[t].state \notin FINISHED
    BY RunnableReach, StatesDiffer
  <1>2. "FUTURE" \in ANY \ {"READY", "COMPLETED"}
    BY StatesDiffer
  <1>3. Calm(tasks, SyncChildren(tasks, t, outs, n, "FUTURE"))
    BY <1>1, <1>2, SyncCalm
  <1>4. Calm(tasks, SetState(tasks, {t}, "ERROR"))
    BY <1>1, SetCalm
  <1> QED
    BY <1>3, <1>4 DEF RunRaises, StepIsCalm

\* What _sync_children leaves is of the specs it is to match.
LEMMA SyncedFollow ==
  ASSUME NEW T, Tree(T, Specs), NEW t \in DOMAIN T, NEW n \in Nat, NEW outs, Gapped(outs, n),
         NEW state \in ANY, NEW c \in Children(SyncChildren(T, t, outs, n, state), t)
  PROVE  \E i \in DOMAIN outs : SyncChildren(T, t, outs, n, state)[c].spec = outs[i]
  <1> DEFINE U == SyncChildren(T, t, outs, n, state)
  <1>1. \/ c \in Kept(T, t, outs, n) /\ U[c].spec = T[c].spec
        \/ \E i \in Missing(T, t, outs) : c = Append(t, T[t].born + i) /\ U[c].spec = outs[i]
    BY SyncedChildren
  <1> HIDE DEF U
  <1>2. CASE c \in Kept(T, t, outs, n) /\ U[c].spec = T[c].spec
    <2>1. /\ c \in Children(T, t)
          /\ Cardinality(Older(T, t, c)) <= Cardinality(Places(outs, T[c].spec, n))
      BY <1>2 DEF Kept, Occurrences, Older, Places
    <2>2. c \in Older(T, t, c) /\ Older(T, t, c) \in SUBSET Children(T, t)
      BY <2>1, ChildrenFinite DEF Older
    <2>3. IsFiniteSet(Older(T, t, c)) /\ Cardinality(Older(T, t, c)) \in Nat
      BY <2>2, ChildrenFinite
    <2>4. CASE Places(outs, T[c].spec, n) = {}
      <3>1. Cardinality(Older(T, t, c)) = 0
        BY <2>1, <2>3, <2>4, FS_EmptySet
      <3> QED
        BY <2>2, <2>3, <3>1, AtMostOne
    <2>5. CASE Places(outs, T[c].spec, n) # {}
      BY <1>2, <2>5 DEF Places, U
    <2> QED
      BY <2>4, <2>5
  <1>3. CASE \E i \in Missing(T, t, outs) : c = Append(t, T[t].born + i) /\ U[c].spec = outs[i]
    BY <1>3 DEF Missing, U
  <1> QED
    BY <1>1, <1>2, <1>3

LEMMA ThreadStartCalm ==
  ASSUME IInv, ReachInv, NEW t \in DOMAIN tasks, RunThreadStart(t)
  PROVE  Keeps(tasks, tasks') /\ (NoneAtThreadStart({"AcquireMutex"}) => StepIsCalm)
  <1> DEFINE T    == AssignThread(tasks, t, threads + 1)
             outs == Outputs(tasks[t].spec)
             U    == SyncChildren(T, t, outs, Len(outs), "READY")
  <1>1. /\ Tree(tasks, Specs) /\ Reach(tasks) /\ tasks[t].spec \in Specs /\ t \in Path
        /\ tasks[t].state = "READY" /\ Kind(tasks[t].spec) = "ThreadStart" /\ threads + 1 \in Nat
    BY RunnableReach, IInvSplit DEF RunThreadStart, OthersTyped
  <1>2. /\ Tree(T, Specs) /\ DOMAIN T = DOMAIN tasks
        /\ \A d \in DOMAIN tasks : T[d].state = tasks[d].state /\ T[d].spec = tasks[d].spec
    BY <1>1, AssignThreadTree
  <1>3. tasks' = SetState(T, {t}, "ERROR") \/ tasks' = U
    BY DEF RunThreadStart
  <1>4. Gapped(outs, Len(outs))
    BY <1>1, OutputsGapped
  <1>5. \A i \in DOMAIN outs : outs[i] \in Follows(tasks[t].spec)
    BY DEF Follows
  <1> HIDE DEF T, outs
  <1>6. Reach(T)
    <2>1. \A d \in DOMAIN tasks \ {Root} : Parent(d) \in DOMAIN tasks
      BY <1>1, ParentLive
    <2> QED
      BY <1>1, <1>2, <2>1, Zenon DEF Reach, Attached
  <1>7. /\ Grown(T, U, t, {"READY"})
        /\ \A d \in DOMAIN T : ~Above(t, d) => d \in DOMAIN U
    <2>1. Len(outs) \in Nat /\ "READY" \in ANY /\ t \in DOMAIN T
      BY <1>2, <1>4, MasksTyped DEF Gapped
    <2> QED
      BY <1>2, <1>4, <2>1, SyncChildrenTree, SyncKeeps DEF Gapped
  <1>8. \A c \in Children(U, t) : U[c].spec \in Follows(tasks[t].spec)
    <2>1. Len(outs) \in Nat /\ "READY" \in ANY /\ t \in DOMAIN T
      BY <1>2, <1>4, MasksTyped DEF Gapped
    <2> QED
      BY <1>2, <1>4, <1>5, <2>1, SyncedFollow
  <1> HIDE DEF U
  <1>9. T[t].state \notin FINISHED
    BY <1>1, <1>2, StatesDiffer
  <1>10. Calm(T, SetState(T, {t}, "ERROR"))
    BY <1>1, <1>2, SetCalm
  <1>11. Keeps(T, U)
    BY <1>2, <1>6, <1>7, <1>9, GrownKeeps
  <1>12. ASSUME NoneAtThreadStart({"AcquireMutex"}) PROVE Calm(T, U)
    <2>1. \A c \in Children(U, t) : Kind(U[c].spec) # "AcquireMutex"
      BY <1>1, <1>8, <1>12 DEF NoneAtThreadStart
    <2> QED
      BY <1>2, <1>6, <1>7, <1>9, <2>1, GrownCalm
  <1>13. Keeps(T, tasks') /\ (NoneAtThreadStart({"AcquireMutex"}) => Calm(T, tasks'))
    BY <1>3, <1>10, <1>11, <1>12 DEF Calm
  <1> QED
    BY <1>2, <1>13 DEF Calm, StepIsCalm, SameSpecs, Keeps, NothingEnters

LEMMA RunsCalm ==
  ASSUME IInv, ReachInv, NEW t \in DOMAIN tasks, RunTask(t)
  PROVE  StepIsCalm \/ RunThreadStart(t)
  <1>1. ASSUME ~RunThreadStart(t)
        PROVE  \E kinds : Running(t, kinds)
    BY <1>1 DEF RunTask, RunSimple, RunFails, RunMultiChoice, RunExclusiveChoice, RunMultiInstance,
                RunThreadSplit, RunReleaseMutex, RunCancel, RunCancelTask
  <1> SUFFICES ASSUME ~RunThreadStart(t) PROVE StepIsCalm
    OBVIOUS
  <1>2. PICK kinds : Running(t, kinds)
    BY <1>1
  <1> DEFINE s == tasks[t].spec
  <1>3. Tree(tasks, Specs) /\ Reach(tasks) /\ s \in Specs
    BY <1>2, RunnableReach
  <1>4. CASE RunMultiChoice(t)
    <2>1. PICK matching \in SUBSET Net[s].cond :
             RunSplit(t, Pick(Outputs(s), (Specs \ Net[s].cond) \union matching),
                      Len(Outputs(s)), 0)
      BY <1>4 DEF RunMultiChoice
    <2>2. Gapped(Pick(Outputs(s), (Specs \ Net[s].cond) \union matching), Len(Outputs(s)))
      BY <1>3, PickGapped
    <2> HIDE DEF s
    <2> QED
      BY <1>2, <2>1, <2>2, SyncsCalm DEF RunSplit
  <1>5. CASE RunExclusiveChoice(t)
    <2>1. Kind(s) = "ExclusiveChoice"
      BY <1>5 DEF RunExclusiveChoice, Running
    <2>2. PICK output \in Net[s].cond \union {Net[s].default} : RunSplit(t, <<output>>, 1, 0)
      BY <1>5 DEF RunExclusiveChoice
    <2>3. Gapped(<<output>>, 1)
      BY <1>3, <2>1, NetTyped DEF Gapped
    <2> HIDE DEF s
    <2> QED
      BY <1>2, <2>2, <2>3, SyncsCalm DEF RunSplit
  <1>6. CASE RunMultiInstance(t) \/ RunThreadSplit(t)
    <2>1. PICK n \in Net[s].times :
             \/ RunRaises(t)
             \/ tasks' = SyncChildren(tasks, t, PredictedOutputs(s, n), OutputCount(s, n), "FUTURE")
      BY <1>6 DEF RunMultiInstance, RunThreadSplit, RunSplit
    <2>2. Gapped(PredictedOutputs(s, n), OutputCount(s, n))
      BY <1>3, NetTyped, PredictedOutputsGapped
    <2> HIDE DEF s
    <2> QED
      BY <1>2, <2>1, <2>2, SyncsCalm
  <1>7. CASE RunCancel(t)
    BY <1>3, <1>7, CancelBranchCalm DEF RunCancel, StepIsCalm
  <1>8. CASE RunRaises(t)
    BY <1>2, <1>3, <1>8, RunnableReach, SetCalm DEF RunRaises, StepIsCalm
  <1> QED
    BY <1>4, <1>5, <1>6, <1>7, <1>8, NothingCalm
    DEF RunTask, RunSimple, RunFails, RunReleaseMutex, RunCancelTask

LEMMA MethodsCalm ==
  ASSUME IInv, ReachInv, UpdateWaitingTasks \/ Cancel
  PROVE  StepIsCalm
  <1>1. Tree(tasks, Specs) /\ Reach(tasks)
    BY AtRest DEF UpdateWaitingTasks, Cancel
  <1> QED
    BY <1>1, CancelBranchCalm, NothingCalm DEF UpdateWaitingTasks, Cancel, StepIsCalm

LEMMA NextKeeps ==
  ASSUME IInv, ReachInv, FiringInv, [OrderlyNext]_vars
  PROVE  resets' # resets \/ Keeps(tasks, tasks')
  <1>1. Tree(tasks, Specs)
    BY IInvSplit
  <1>2. CASE CompleteTask
    <2>1. tasks' = SetState(tasks, {Top.task}, "COMPLETED")
      BY <1>2 DEF CompleteTask
    <2>2. /\ DOMAIN tasks' = DOMAIN tasks
          /\ \A d \in DOMAIN tasks : \/ tasks'[d].state = tasks[d].state
                                     \/ tasks'[d].state = "COMPLETED"
      BY <1>1, <2>1, SetStateEffect
    <2> QED
      BY <2>2 DEF Keeps
  <1>3. CASE UpdateAcquire
    <2>1. calls # <<>> /\ Top.op = "hook" /\ Top.task \in DOMAIN tasks
      BY <1>3 DEF UpdateAcquire, Hook, Doing, Top
    <2>2. tasks[Top.task].state # "COMPLETED"
      BY <2>1, InProgress, StatesDiffer DEF FrameOK, LiveIn
    <2>3. UNCHANGED tasks \/ \E state : tasks' = SetState(tasks, {Top.task}, state)
      BY <1>3 DEF UpdateAcquire, SetReady, SetWaiting, Ready
    <2>4. /\ DOMAIN tasks' = DOMAIN tasks
          /\ \A d \in DOMAIN tasks \ {Top.task} : tasks'[d].state = tasks[d].state
      BY <1>1, <2>3, SetStateEffect
    <2> QED
      BY <2>2, <2>4 DEF Keeps
  <1>4. CASE Step
    BY <1>2, <1>3, <1>4, StepCalm DEF StepIsCalm, Calm
  <1>5. CASE Run
    BY <1>5, RunsCalm, ThreadStartCalm DEF Run, StepIsCalm, Calm
  <1>6. CASE UpdateWaitingTasks \/ Cancel
    BY <1>6, MethodsCalm DEF StepIsCalm, Calm
  <1>7. CASE OrderlyReset
    BY <1>7, OrderlyIInv, ResetReach
  <1>8. CASE UNCHANGED vars
    BY <1>8 DEF vars, Keeps
  <1> QED
    BY <1>4, <1>5, <1>6, <1>7, <1>8 DEF OrderlyNext

\* A task that has been completed stays in the tree and stays completed, whatever is
\* cancelled, predicted anew, raised or fired; only a reset undoes it.  A join is the
\* exception: _do_join cancels all other instances, completed ones as well.
CompletedForGood ==
    [][resets' # resets \/
       \A t \in DOMAIN tasks :
           tasks[t].state = "COMPLETED" /\ Kind(tasks[t].spec) # "Join" =>
               t \in DOMAIN tasks' /\ tasks'[t].state = "COMPLETED"]_vars

\* What has been done is never lost: TaskTree's RemoveBranches and Workflow.cancel take
\* nothing out of the tree that is completed.
THEOREM CompletedKept == OrderlySpec => CompletedForGood
  <1>1. IInv /\ ReachInv /\ FiringInv /\ [OrderlyNext]_vars =>
           [resets' # resets \/
            \A t \in DOMAIN tasks :
                tasks[t].state = "COMPLETED" /\ Kind(tasks[t].spec) # "Join" =>
                    t \in DOMAIN tasks' /\ tasks'[t].state = "COMPLETED"]_vars
    BY NextKeeps DEF Keeps
  <1>2. OrderlySpec => [](IInv /\ ReachInv /\ FiringInv)
    BY InitFiring, NextFiring, ReachAlways, PTL DEF OrderlySpec
  <1> QED
    BY <1>1, <1>2, ReachAlways, PTL DEF OrderlySpec, CompletedForGood

-----------------------------------------------------------------------------
(* Mutexes.  A section is opened by an AcquireMutex that becomes READY and *)
(* closed by a ReleaseMutex that is completed below it.                    *)

\* OpenSections, of any tree.
OpenIn(T, m) ==
    {a \in InState(T, {"READY", "COMPLETED"}) :
        /\ Kind(T[a].spec) = "AcquireMutex"
        /\ Net[T[a].spec].mutex = m
        /\ ~\E r \in Below(T, a) : /\ Kind(T[r].spec) = "ReleaseMutex"
                                   /\ Net[T[r].spec].mutex = m
                                   /\ In(T, r, {"COMPLETED"})}

\* A mutex is released as soon as its ReleaseMutex has run, and the section is closed
\* when the task is completed, as the next step: the sections are those of the tree that
\* this step will leave.
Sections(T, c, m) == OpenIn(Ended(T, c), m)

\* A mutex that has been taken is not given up: the task that took it does not fail, and
\* is not cancelled or removed before it has run.
KeepsLocks(T, U) ==
    \A a \in DOMAIN T : T[a].state = "READY" /\ Kind(T[a].spec) = "AcquireMutex" =>
        a \in DOMAIN U /\ U[a].state \in {"READY", "COMPLETED"}

LEMMA CalmSections ==
  ASSUME NEW T, NEW U, Tree(T, Specs), Tree(U, Specs), Calm(T, U), NEW m
  PROVE  /\ OpenIn(U, m) \subseteq OpenIn(T, m)
         /\ KeepsLocks(T, U) => OpenIn(U, m) = OpenIn(T, m)
  <1>1. /\ \A d \in DOMAIN T \intersect DOMAIN U : U[d].spec = T[d].spec
        /\ \A d \in DOMAIN U : U[d].state = "COMPLETED" => d \in DOMAIN T /\ T[d].state = "COMPLETED"
        /\ \A d \in DOMAIN T : T[d].state = "COMPLETED" /\ Kind(T[d].spec) = "ReleaseMutex" =>
              d \in DOMAIN U /\ U[d].state = "COMPLETED"
        /\ \A d \in DOMAIN T : T[d].state = "COMPLETED" /\ Kind(T[d].spec) = "AcquireMutex" =>
              d \in DOMAIN U /\ U[d].state = "COMPLETED"
        /\ \A d \in DOMAIN U : U[d].state = "READY" /\ Kind(U[d].spec) = "AcquireMutex" =>
              d \in DOMAIN T /\ T[d].state = "READY"
    BY DEF Calm, SameSpecs, Keeps, NothingEnters
  \* The releases that have been completed are the same.
  <1>2. ASSUME NEW r PROVE r \in DOMAIN U /\ Kind(U[r].spec) = "ReleaseMutex" /\ U[r].state = "COMPLETED"
                       <=> r \in DOMAIN T /\ Kind(T[r].spec) = "ReleaseMutex" /\ T[r].state = "COMPLETED"
    BY <1>1
  <1>3. ASSUME NEW a
        PROVE  (\E r \in Below(U, a) : /\ Kind(U[r].spec) = "ReleaseMutex"
                                       /\ Net[U[r].spec].mutex = m /\ In(U, r, {"COMPLETED"}))
           <=> (\E r \in Below(T, a) : /\ Kind(T[r].spec) = "ReleaseMutex"
                                       /\ Net[T[r].spec].mutex = m /\ In(T, r, {"COMPLETED"}))
    BY <1>1, <1>2 DEF Below, In
  <1>4. ASSUME NEW a \in OpenIn(U, m) PROVE a \in OpenIn(T, m)
    <2>1. /\ a \in DOMAIN U /\ Kind(U[a].spec) = "AcquireMutex" /\ Net[U[a].spec].mutex = m
          /\ U[a].state \in {"READY", "COMPLETED"}
      BY DEF OpenIn, InState, In
    <2>2. a \in DOMAIN T /\ T[a].state \in {"READY", "COMPLETED"} /\ T[a].spec = U[a].spec
      BY <1>1, <2>1
    <2> QED
      BY <1>3, <2>1, <2>2 DEF OpenIn, InState, In
  <1>5. ASSUME KeepsLocks(T, U), NEW a \in OpenIn(T, m) PROVE a \in OpenIn(U, m)
    <2>1. /\ a \in DOMAIN T /\ Kind(T[a].spec) = "AcquireMutex" /\ Net[T[a].spec].mutex = m
          /\ T[a].state \in {"READY", "COMPLETED"}
      BY DEF OpenIn, InState, In
    <2>2. a \in DOMAIN U /\ U[a].state \in {"READY", "COMPLETED"} /\ U[a].spec = T[a].spec
      BY <1>1, <1>5, <2>1 DEF KeepsLocks
    <2> QED
      BY <1>3, <2>1, <2>2 DEF OpenIn, InState, In
  <1> QED
    BY <1>4, <1>5

MutexKinds == {"AcquireMutex", "ReleaseMutex"}

\* What it means for the sections that a task completes.
LEMMA EndSections ==
  ASSUME NEW T, Tree(T, Specs), NEW h, NEW m
  PROVE  LET U == SetState(T, {h}, "COMPLETED")
         IN  /\ (h \in DOMAIN T => Kind(T[h].spec) \notin MutexKinds) => OpenIn(U, m) = OpenIn(T, m)
             /\ h \in DOMAIN T /\ Kind(T[h].spec) = "AcquireMutex" /\ T[h].state = "READY" =>
                   OpenIn(U, m) = OpenIn(T, m)
             /\ h \in DOMAIN T /\ Kind(T[h].spec) = "ReleaseMutex" =>
                   OpenIn(U, m) = IF Net[T[h].spec].mutex = m
                                  THEN {a \in OpenIn(T, m) : ~Above(a, h)}
                                  ELSE OpenIn(T, m)
  <1> DEFINE U == SetState(T, {h}, "COMPLETED")
  <1>1. /\ DOMAIN U = DOMAIN T
        /\ \A d \in DOMAIN T : /\ U[d].spec = T[d].spec
                               /\ U[d].state = IF d = h THEN "COMPLETED" ELSE T[d].state
    BY SetStateEffect
  <1> HIDE DEF U
  <1> DEFINE closed(V, a) == \E r \in Below(V, a) : /\ Kind(V[r].spec) = "ReleaseMutex"
                                                    /\ Net[V[r].spec].mutex = m
                                                    /\ In(V, r, {"COMPLETED"})
             frees == /\ h \in DOMAIN T /\ Kind(T[h].spec) = "ReleaseMutex"
                      /\ Net[T[h].spec].mutex = m
  <1>2. ASSUME NEW a PROVE closed(U, a) <=> closed(T, a) \/ (frees /\ Above(a, h))
    BY <1>1 DEF Below, In
  <1>3. ASSUME h \in DOMAIN T /\ Kind(T[h].spec) = "AcquireMutex" => T[h].state = "READY",
               NEW a
        PROVE  a \in OpenIn(U, m) <=> a \in OpenIn(T, m) /\ ~(frees /\ Above(a, h))
    <2>1. \A V : a \in OpenIn(V, m) <=> /\ a \in DOMAIN V /\ V[a].state \in {"READY", "COMPLETED"}
                                        /\ Kind(V[a].spec) = "AcquireMutex"
                                        /\ Net[V[a].spec].mutex = m /\ ~closed(V, a)
      BY DEF OpenIn, InState, In
    <2> HIDE DEF closed
    <2>2. /\ a \in DOMAIN U <=> a \in DOMAIN T
          /\ a \in DOMAIN T => U[a].spec = T[a].spec
          /\ a \in DOMAIN T /\ Kind(T[a].spec) = "AcquireMutex" =>
                (U[a].state \in {"READY", "COMPLETED"} <=> T[a].state \in {"READY", "COMPLETED"})
      BY <1>1, <1>3
    <2> QED
      BY <1>2, <2>1, <2>2
  <1> QED
    BY <1>3 DEF MutexKinds, U

MutexesComplete ==
    \A a \in Completing(calls) \intersect DOMAIN tasks :
        Kind(tasks[a].spec) \in MutexKinds => Sole(calls) /\ tasks[a].state = "READY"

MutexInv ==
    /\ \A m \in Mutexes : \A a, b \in Sections(tasks, calls, m) : a = b
    /\ \A m \in Mutexes : Sections(tasks, calls, m) # {} => m \in locks
    /\ MutexesComplete

\* What a step does to the sections of m: some are given up, if at all; one is opened,
\* and there is no other; or none is left, and the mutex is released.
SectionStep(m) ==
    \/ /\ Sections(tasks', calls', m) \subseteq Sections(tasks, calls, m)
       /\ KeepsLocks(tasks, tasks') => Sections(tasks', calls', m) = Sections(tasks, calls, m)
       /\ m \in locks' <=> m \in locks
    \/ m \in locks' /\ \E t : Sections(tasks', calls', m) = {t}
    \/ m \notin locks' /\ Sections(tasks', calls', m) = {}

NoMutexCompletes ==
    \A a \in Completing(calls) \intersect DOMAIN tasks : Kind(tasks[a].spec) \notin MutexKinds

\* As long as no task of a mutex completes, the sections are those of the tree as it is.
LEMMA SectionsAsTheyAre ==
  ASSUME NEW T, Tree(T, Specs), NEW c \in Seq(FrameType),
         \A a \in Completing(c) \intersect DOMAIN T : Kind(T[a].spec) \notin MutexKinds, NEW m
  PROVE  Sections(T, c, m) = OpenIn(T, m)
  <1>1. CASE Sole(c)
    <2> DEFINE h == Head(c).task
    <2>1. h \in Completing(c)
      <3>1. 1 \in DOMAIN c /\ Head(c) = c[1] /\ c[1].op = "complete"
        BY <1>1 DEF Sole
      <3> QED
        BY <3>1 DEF Completing
    <2>2. h \in DOMAIN T => Kind(T[h].spec) \notin MutexKinds
      BY <2>1
    <2> HIDE DEF h
    <2>3. OpenIn(SetState(T, {h}, "COMPLETED"), m) = OpenIn(T, m)
      BY <2>2, EndSections
    <2> QED
      BY <1>1, <2>3 DEF Sections, Ended, h
  <1>2. CASE ~Sole(c)
    BY <1>2 DEF Sections, Ended
  <1> QED
    BY <1>1, <1>2

LEMMA CalmSectionStep ==
  ASSUME IInv, IInv', StepIsCalm, NoMutexCompletes, NoMutexCompletes', UNCHANGED locks
  PROVE  MutexesComplete' /\ \A m : SectionStep(m)
  <1>1. /\ Tree(tasks, Specs) /\ calls \in Seq(FrameType)
        /\ Tree(tasks', Specs) /\ calls' \in Seq(FrameType)
    BY IInvSplit, IInvSplitPrime
  <1>2. MutexesComplete'
    BY DEF NoMutexCompletes, MutexesComplete
  <1>3. ASSUME NEW m PROVE SectionStep(m)
    <2>1. Sections(tasks, calls, m) = OpenIn(tasks, m)
      BY <1>1, SectionsAsTheyAre DEF NoMutexCompletes
    <2>2. Sections(tasks', calls', m) = OpenIn(tasks', m)
      BY <1>1, SectionsAsTheyAre DEF NoMutexCompletes
    <2> QED
      BY <1>1, <2>1, <2>2, CalmSections DEF StepIsCalm, SectionStep
  <1> QED
    BY <1>2, <1>3

LEMMA StepCompletesNone ==
  ASSUME IInv, IInv', ReachInv, MutexInv, Step, ~Doing("complete")
  PROVE  NoMutexCompletes /\ NoMutexCompletes'
  <1>1. NoMutexCompletes
    <2>1. ~Sole(calls)
      BY DEF Sole, Doing
    <2> QED
      BY <2>1 DEF MutexInv, MutexesComplete, NoMutexCompletes
  <1>2. ASSUME NEW a \in Completing(calls'), a \in DOMAIN tasks'
        PROVE  Kind(tasks'[a].spec) \notin MutexKinds
    <2>1. CASE Gently
      <3>1. a \in Completing(calls) /\ a \in DOMAIN tasks
        BY <1>2, <2>1, CompletingKnown DEF Gently, Gentle
      <3>2. tasks'[a].spec = tasks[a].spec
        BY <1>2, <2>1, <3>1 DEF Gently, Gentle, Handed
      <3> QED
        BY <1>1, <3>1, <3>2 DEF NoMutexCompletes
    <2>2. CASE JoinFires
      <3>1. calls # <<>> /\ Return
        BY <2>2 DEF JoinFires, Doing
      <3>2. PICK V : Tree(V, Specs) /\ Same(tasks, V) /\ tasks' = Ready(V, Top.task)
        BY <2>2, JoinFiresParts
      <3>3. a \in DOMAIN V /\ tasks'[a].spec = V[a].spec
        BY <1>2, <3>2, SetStateEffect DEF Ready
      <3>4. a \in Completing(calls) /\ a \in DOMAIN tasks /\ tasks'[a].spec = tasks[a].spec
        BY <1>2, <3>1, <3>2, <3>3, ReturnCompleting DEF Same
      <3> QED
        BY <1>1, <3>4 DEF NoMutexCompletes
    <2>3. CASE CompleteTask
      BY <2>3 DEF CompleteTask
    <2> QED
      BY <2>1, <2>2, <2>3, StepGently
  <1>3. NoMutexCompletes'
    BY <1>2 DEF NoMutexCompletes
  <1> QED
    BY <1>1, <1>3

\* The AcquireMutex that becomes READY finds the mutex free, so no section is open; and
\* nothing below it has been done yet.
LEMMA AcquireSections ==
  ASSUME IInv, IInv', ReachInv, MutexInv, UpdateAcquire
  PROVE  MutexesComplete' /\ \A m \in Mutexes : SectionStep(m)
  <1> DEFINE t == Top.task
             n == Net[tasks[t].spec].mutex
  <1>1. /\ calls # <<>> /\ Top.op = "hook" /\ ~Doing("complete") /\ t \in DOMAIN tasks
        /\ Kind(tasks[t].spec) = "AcquireMutex"
        /\ Tree(tasks, Specs) /\ Tree(tasks', Specs)
        /\ calls \in Seq(FrameType) /\ calls' \in Seq(FrameType)
    BY IInvSplit, IInvSplitPrime DEF UpdateAcquire, Hook, Doing, Top
  <1>2. NoMutexCompletes /\ NoMutexCompletes'
    BY <1>1, StepCompletesNone DEF Step
  <1>3. Reach(tasks) /\ tasks[t].state \in NOT_FINISHED
    BY <1>1, InProgress DEF FrameOK, LiveIn
  <1>4. CASE n \in locks
    <2>1. SetWaiting(t) /\ UNCHANGED locks /\ Hook({"AcquireMutex"})
      BY <1>4 DEF UpdateAcquire
    <2>2. StepIsCalm
      BY <2>1, HookCalm
    <2> QED
      BY <1>2, <2>1, <2>2, CalmSectionStep
  <1>5. CASE n \notin locks
    <2>1. tasks' = SetState(tasks, {t}, "READY") /\ locks' = locks \union {n}
      <3>1. SetReady(t) /\ locks' = locks \union {n}
        BY <1>5 DEF UpdateAcquire
      <3>2. tasks[t].state \notin {"COMPLETED", "CANCELLED"}
        BY <1>3, StatesDiffer
      <3> QED
        BY <1>1, <3>1, <3>2 DEF SetReady, Ready, In
    <2>2. /\ DOMAIN tasks' = DOMAIN tasks
          /\ \A d \in DOMAIN tasks :
                /\ tasks'[d].spec = tasks[d].spec
                /\ tasks'[d].state = IF d = t THEN "READY" ELSE tasks[d].state
      BY <1>1, <2>1, SetStateEffect
    <2>3. \A m : /\ Sections(tasks, calls, m) = OpenIn(tasks, m)
                 /\ Sections(tasks', calls', m) = OpenIn(tasks', m)
      BY <1>1, <1>2, SectionsAsTheyAre DEF NoMutexCompletes
    <2>4. \A r \in Below(tasks, t) : tasks[r].state # "COMPLETED"
      <3>1. tasks[t].state \notin FINISHED
        BY <1>3, StatesDiffer
      <3> QED
        BY <1>1, <1>3, <3>1 DEF Reach, Attached, REACHED, Below
    <2>5. tasks[t].state # "COMPLETED"
      BY <1>3, StatesDiffer
    <2> HIDE DEF t, n
    <2>6. n \in Mutexes
      BY <1>1, StateTyped, NetTyped DEF n
    <2>7. OpenIn(tasks, n) = {}
      BY <1>5, <2>3, <2>6 DEF MutexInv
    \* The releases that have been completed are the same.
    <2>8. ASSUME NEW m, NEW a
          PROVE  (\E r \in Below(tasks', a) : /\ Kind(tasks'[r].spec) = "ReleaseMutex"
                                              /\ Net[tasks'[r].spec].mutex = m
                                              /\ In(tasks', r, {"COMPLETED"}))
             <=> (\E r \in Below(tasks, a) : /\ Kind(tasks[r].spec) = "ReleaseMutex"
                                             /\ Net[tasks[r].spec].mutex = m
                                             /\ In(tasks, r, {"COMPLETED"}))
      BY <2>2, <2>5 DEF Below, In
    <2>9. ASSUME NEW m, NEW a, a # t PROVE a \in OpenIn(tasks', m) <=> a \in OpenIn(tasks, m)
      BY <2>2, <2>8, <2>9 DEF OpenIn, InState, In
    <2>10. OpenIn(tasks', n) = {t}
      <3>1. t \in OpenIn(tasks', n)
        <4>1. /\ t \in DOMAIN tasks' /\ tasks'[t].state = "READY" /\ tasks'[t].spec = tasks[t].spec
          BY <1>1, <2>2 DEF t
        <4>2. Kind(tasks[t].spec) = "AcquireMutex" /\ Net[tasks[t].spec].mutex = n
          BY <1>1 DEF n, t
        <4>3. ~\E r \in Below(tasks', t) : /\ Kind(tasks'[r].spec) = "ReleaseMutex"
                                           /\ Net[tasks'[r].spec].mutex = n
                                           /\ In(tasks', r, {"COMPLETED"})
          BY <2>4, <2>8 DEF In
        <4> QED
          BY <4>1, <4>2, <4>3 DEF OpenIn, InState, In
      <3> QED
        BY <2>7, <2>9, <3>1
    <2>11. ASSUME NEW m, m # n PROVE OpenIn(tasks', m) = OpenIn(tasks, m)
      <3>1. t \notin OpenIn(tasks', m) /\ t \notin OpenIn(tasks, m)
        <4>1. tasks'[t].spec = tasks[t].spec /\ Net[tasks[t].spec].mutex = n
          BY <1>1, <2>2 DEF n, t
        <4> QED
          BY <2>11, <4>1 DEF OpenIn
      <3> QED
        BY <2>9, <3>1
    <2>12. ASSUME NEW m PROVE SectionStep(m)
      <3>1. CASE m = n
        BY <2>1, <2>3, <2>10, <3>1 DEF SectionStep
      <3>2. CASE m # n
        <4>1. m \in locks' <=> m \in locks
          BY <2>1, <3>2
        <4>2. Sections(tasks', calls', m) = Sections(tasks, calls, m)
          BY <2>3, <2>11, <3>2
        <4> QED
          BY <4>1, <4>2 DEF SectionStep
      <3> QED
        BY <3>1, <3>2
    <2> QED
      BY <1>2, <2>12 DEF NoMutexCompletes, MutexesComplete
  <1> QED
    BY <1>4, <1>5

\* What completes has been counted as completed before.
LEMMA CompleteSections ==
  ASSUME IInv, ReachInv, CompleteTask
  PROVE  MutexesComplete' /\ \A m : SectionStep(m)
  <1> DEFINE t == Top.task
             f == Frame("children", t, Children(tasks, t))
             g == Frame("visit", t, {Root})
             h == Frame("finish", t, {})
  <1>1. /\ calls # <<>> /\ Doing("complete") /\ UNCHANGED locks
        /\ tasks' = SetState(tasks, {t}, "COMPLETED")
        /\ calls' = <<f, g, h>> \o Tail(calls)
    BY DEF CompleteTask, Doing, ReturnTo
  <1>2. f.op = "children" /\ g.op = "visit" /\ h.op = "finish"
    BY DEF Frame
  <1>3. Sole(calls) /\ Head(calls) = Top
    BY <1>1, BottomAlone DEF Sole, Doing, Top
  <1> HIDE DEF f, g, h
  <1>4. calls' = <<f, g, h>>
    <2>1. <<f, g, h>> \in Seq({f, g, h})
      OBVIOUS
    <2>2. Tail(calls) = <<>>
      BY <1>1, BottomAlone
    <2> QED
      BY <1>1, <2>1, <2>2, ConcatEmptySeq
  <1>5. \A i \in DOMAIN calls' : calls'[i] \in {f, g, h}
    BY <1>4
  <1>6. Completing(calls') = {} /\ ~Sole(calls')
    BY <1>2, <1>4, <1>5 DEF Completing, Sole
  <1>7. Ended(tasks, calls) = tasks' /\ Ended(tasks', calls') = tasks'
    BY <1>1, <1>3, <1>6 DEF Ended
  <1> QED
    BY <1>1, <1>6, <1>7 DEF MutexesComplete, SectionStep, Sections

LEMMA StepSections ==
  ASSUME IInv, IInv', ReachInv, FiringInv, MutexInv, Step
  PROVE  MutexesComplete' /\ \A m \in Mutexes : SectionStep(m)
  <1>1. CASE CompleteTask
    BY <1>1, CompleteSections
  <1>2. CASE UpdateAcquire
    BY <1>2, AcquireSections
  <1>3. CASE ~CompleteTask /\ ~UpdateAcquire
    <2>1. ~Doing("complete") /\ UNCHANGED locks
      BY <1>3 DEF Step, Predict, UpdateSimple, UpdateFails, UpdateExecute, UpdateGate,
         UpdateJoin, CancelNext, JoinFires, ChildrenNext, VisitNext, Finish, Hook, Doing
    <2> QED
      BY <1>3, <2>1, StepCalm, StepCompletesNone, CalmSectionStep
  <1> QED
    BY <1>1, <1>2, <1>3

LEMMA AtRestSections ==
  ASSUME calls = <<>>
  PROVE  NoMutexCompletes /\ \A T, m : Sections(T, calls, m) = OpenIn(T, m)
  BY DEF NoMutexCompletes, Completing, Sections, Ended, Sole

\* The run of a task of a mutex: its section is as before, or it is closed.
LEMMA MutexRuns ==
  ASSUME IInv, ReachInv, calls = <<>>, NEW t \in DOMAIN tasks, tasks[t].state = "READY",
         RunWith(t, <<>>), UNCHANGED tasks
  PROVE  /\ MutexesComplete'
         /\ \A m : Sections(tasks', calls', m) = OpenIn(SetState(tasks, {t}, "COMPLETED"), m)
  <1> DEFINE f == Frame("complete", t, {})
  <1>1. Tree(tasks, Specs)
    BY IInvSplit
  <1>2. f \in FrameType /\ f.op = "complete" /\ f.task = t
    BY <1>1, StateTyped, FrameTyped DEF Frame, Ops
  <1>3. calls' = <<>> \o <<f>>
    BY DEF RunWith
  <1> HIDE DEF f
  <1>4. calls' = <<f>>
    <2>1. <<f>> \in Seq(FrameType)
      BY <1>2
    <2> QED
      BY <1>3, <2>1, ConcatEmptySeq
  <1>5. Sole(calls') /\ Head(calls').task = t /\ \A i \in DOMAIN calls' : calls'[i].task = t
    BY <1>2, <1>4 DEF Sole
  <1>6. MutexesComplete'
    BY <1>5 DEF MutexesComplete, Completing
  <1> QED
    BY <1>5, <1>6 DEF Sections, Ended

\* A ReleaseMutex is run below the task that has opened the section: it releases what was
\* taken on its own way.
ReleasesOwn ==
    \A r \in DOMAIN tasks : RunReleaseMutex(r) =>
        \E a \in OpenSections(Net[tasks[r].spec].mutex) : Above(a, r)

LEMMA ReleaseSections ==
  ASSUME IInv, ReachInv, MutexInv, NEW t \in DOMAIN tasks, RunReleaseMutex(t), ReleasesOwn
  PROVE  MutexesComplete' /\ \A m : SectionStep(m)
  <1> DEFINE n == Net[tasks[t].spec].mutex
  <1>1. /\ calls = <<>> /\ tasks[t].state = "READY" /\ Kind(tasks[t].spec) = "ReleaseMutex"
        /\ Tree(tasks, Specs) /\ tasks[t].spec \in Specs
    BY RunnableReach DEF RunReleaseMutex
  <1>2. n \in Mutexes
    BY <1>1, NetTyped
  <1>3. PICK a \in OpenIn(tasks, n) : Above(a, t)
    BY DEF ReleasesOwn, OpenSections, OpenIn
  <1>4. n \in locks /\ \A b \in OpenIn(tasks, n) : b = a
    BY <1>1, <1>2, <1>3, AtRestSections DEF MutexInv
  <1>5. RunWith(t, <<>>) /\ UNCHANGED tasks /\ locks' = locks \ {n}
    BY <1>4 DEF RunReleaseMutex
  <1>6. /\ MutexesComplete'
        /\ \A m : Sections(tasks', calls', m) = OpenIn(SetState(tasks, {t}, "COMPLETED"), m)
    BY <1>1, <1>5, MutexRuns
  <1>7. ASSUME NEW m PROVE SectionStep(m)
    <2>1. CASE m = n
      <3>1. Sections(tasks', calls', m) = {b \in OpenIn(tasks, n) : ~Above(b, t)}
        BY <1>1, <1>6, <2>1, EndSections
      <3> QED
        BY <1>3, <1>4, <1>5, <2>1, <3>1 DEF SectionStep
    <2>2. CASE m # n
      <3>1. Sections(tasks', calls', m) = OpenIn(tasks, m)
        BY <1>1, <1>6, <2>2, EndSections
      <3>2. m \in locks' <=> m \in locks
        BY <1>5, <2>2
      <3> HIDE DEF n
      <3> QED
        BY <1>1, <3>1, <3>2, AtRestSections DEF SectionStep
    <2> QED
      BY <2>1, <2>2
  <1> QED
    BY <1>6, <1>7

LEMMA RunSections ==
  ASSUME IInv, IInv', ReachInv, MutexInv, NoneAtThreadStart({"AcquireMutex"}), Run, ReleasesOwn
  PROVE  MutexesComplete' /\ \A m : SectionStep(m)
  <1>1. PICK t \in DOMAIN tasks : RunTask(t)
    BY DEF Run
  <1>2. PICK kinds : Running(t, kinds)
    BY <1>1 DEF RunTask, RunSimple, RunFails, RunMultiChoice, RunExclusiveChoice, RunMultiInstance,
                RunThreadSplit, RunThreadStart, RunReleaseMutex, RunCancel, RunCancelTask
  <1>3. calls = <<>> /\ tasks[t].state = "READY" /\ t \in Path /\ Tree(tasks, Specs)
    BY <1>2, RunnableReach
  <1>4. CASE RunReleaseMutex(t)
    BY <1>4, ReleaseSections
  <1>5. CASE RunSimple(t) /\ Kind(tasks[t].spec) = "AcquireMutex"
    <2>1. RunWith(t, <<>>) /\ UNCHANGED tasks /\ UNCHANGED locks
      BY <1>5 DEF RunSimple
    <2>2. /\ MutexesComplete'
          /\ \A m : Sections(tasks', calls', m) = OpenIn(SetState(tasks, {t}, "COMPLETED"), m)
      BY <1>3, <2>1, MutexRuns
    <2>3. \A m : Sections(tasks', calls', m) = Sections(tasks, calls, m)
      <3>1. ASSUME NEW m PROVE OpenIn(SetState(tasks, {t}, "COMPLETED"), m) = OpenIn(tasks, m)
        BY <1>3, <1>5, EndSections
      <3>2. ASSUME NEW m PROVE Sections(tasks, calls, m) = OpenIn(tasks, m)
        BY <1>3, AtRestSections
      <3> QED
        BY <2>2, <3>1, <3>2
    <2> QED
      BY <2>1, <2>2, <2>3 DEF SectionStep
  <1>6. CASE ~RunReleaseMutex(t) /\ ~(RunSimple(t) /\ Kind(tasks[t].spec) = "AcquireMutex")
    <2>1. UNCHANGED locks
      BY <1>1, <1>6 DEF RunTask, RunSimple, RunFails, RunMultiChoice, RunExclusiveChoice,
         RunMultiInstance, RunThreadSplit, RunThreadStart, RunCancel, RunCancelTask
    <2>2. StepIsCalm
      BY <1>1, RunsCalm, ThreadStartCalm
    <2>3. Kind(tasks[t].spec) \in MutexKinds => calls' = <<>>
      BY <1>1, <1>3, <1>6 DEF RunTask, RunFails, RunMultiChoice, RunExclusiveChoice,
         RunMultiInstance, RunThreadSplit, RunThreadStart, RunCancel, RunCancelTask, RunSimple,
         Running, MutexKinds, Plain, RunRaises
    <2>4. Completing(calls') \subseteq {t}
      <3>1. <<>> \in Seq(FrameType) /\ Quiet(<<>>) /\ Completing(<<>>) = {}
        BY DEF Quiet, Completing
      <3>2. CASE RunThreadStart(t)
        <4>1. calls' = <<>> \/ RunWith(t, <<>>)
          BY <1>3, <3>2 DEF RunThreadStart
        <4> QED
          BY <1>3, <3>1, <4>1, RunWithCompleting
      <3>3. CASE RunsGently(t)
        BY <3>3 DEF RunsGently
      <3> QED
        BY <1>1, <3>2, <3>3, RunGently
    <2>5. NoMutexCompletes'
      <3> SUFFICES ASSUME NEW a \in Completing(calls'), a \in DOMAIN tasks'
                   PROVE  Kind(tasks'[a].spec) \notin MutexKinds
        BY DEF NoMutexCompletes
      <3>1. a = t /\ calls' # <<>>
        BY <2>4 DEF Completing
      <3>2. tasks'[t].spec = tasks[t].spec
        BY <2>2, <3>1 DEF StepIsCalm, Calm, SameSpecs
      <3> QED
        BY <2>3, <3>1, <3>2
    <2> QED
      BY <1>3, <2>1, <2>2, <2>5, AtRestSections, CalmSectionStep
  <1> QED
    BY <1>4, <1>5, <1>6

LEMMA MethodsSections ==
  ASSUME IInv, IInv', ReachInv, UpdateWaitingTasks \/ Cancel
  PROVE  MutexesComplete' /\ \A m : SectionStep(m)
  <1>1. calls = <<>> /\ UNCHANGED locks
    BY DEF UpdateWaitingTasks, Cancel, Quiescent
  <1>2. Completing(calls) = {}
    BY <1>1 DEF Completing
  <1>3. Completing(calls') = {}
    BY <1>2, MethodsGently DEF Gently
  <1>4. NoMutexCompletes /\ NoMutexCompletes'
    BY <1>2, <1>3 DEF NoMutexCompletes
  <1> QED
    BY <1>1, <1>4, MethodsCalm, CalmSectionStep

LEMMA NextSections ==
  ASSUME IInv, ReachInv, FiringInv, MutexInv, NoneAtThreadStart({"AcquireMutex"}), [OrderlyNext]_vars,
         resets' = resets, ReleasesOwn \/ UNCHANGED vars
  PROVE  MutexesComplete' /\ \A m \in Mutexes : SectionStep(m)
  <1>1. IInv'
    BY OrderlyIInv
  <1>2. CASE UNCHANGED vars
    <2>1. UNCHANGED <<tasks, calls, locks>>
      BY <1>2 DEF vars
    <2> QED
      BY <2>1 DEF MutexInv, MutexesComplete, SectionStep
  <1>3. CASE ReleasesOwn /\ OrderlyNext
    <2>1. ~OrderlyReset
      BY <1>1, <1>3, ResetReach
    <2> QED
      BY <1>1, <1>3, <2>1, StepSections, RunSections, MethodsSections DEF OrderlyNext
  <1> QED
    BY <1>2, <1>3

LEMMA NextMutexes ==
  ASSUME MutexInv, MutexesComplete', \A m \in Mutexes : SectionStep(m)
  PROVE  MutexInv'
  BY DEF MutexInv, SectionStep

\* As long as nothing that took a mutex is lost, what is locked is being used.
HeldInv == \A m \in Mutexes \intersect locks : Sections(tasks, calls, m) # {}

LEMMA NextHeld ==
  ASSUME HeldInv, KeepsLocks(tasks, tasks'), \A m \in Mutexes : SectionStep(m)
  PROVE  HeldInv'
  BY DEF HeldInv, SectionStep

LEMMA InitMutexes == ASSUME Init PROVE MutexInv /\ HeldInv
  <1>1. calls = <<PredictFrame(Root, {Root}, 0, NOT_FINISHED), Frame("hook", Root, {})>>
    BY DEF Init
  <1>2. Completing(calls) = {} /\ ~Sole(calls)
    BY <1>1 DEF Completing, Sole, PredictFrame, Frame
  <1>3. \A m : Sections(tasks, calls, m) = {} /\ locks = {}
    BY <1>2 DEF Init, Sections, Ended, OpenIn, InState, In
  <1> QED
    BY <1>2, <1>3 DEF MutexInv, HeldInv, MutexesComplete

LEMMA SectionsCounted ==
  ASSUME MutexInv, Quiescent, NEW m \in Mutexes
  PROVE  /\ Cardinality(OpenSections(m)) <= IF m \in locks THEN 1 ELSE 0
         /\ HeldInv => Cardinality(OpenSections(m)) = IF m \in locks THEN 1 ELSE 0
  <1> DEFINE S == OpenSections(m)
  <1>1. S = Sections(tasks, calls, m)
    BY AtRestSections DEF Quiescent, OpenSections, OpenIn
  <1> HIDE DEF S
  <1>2. (\A x, y \in S : x = y) /\ (S # {} => m \in locks) /\ (HeldInv /\ m \in locks => S # {})
    BY <1>1 DEF MutexInv, HeldInv
  <1>3. IsFiniteSet(S) /\ Cardinality(S) \in {0, 1} /\ (Cardinality(S) = 0 => S = {})
    BY <1>2, AtMostOne
  <1>4. S = {} => Cardinality(S) = 0
    BY FS_EmptySet
  <1> QED
    BY <1>2, <1>3, <1>4 DEF S

\* No two tasks are ever in a section of one mutex, and none is without having taken it;
\* whatever fails or is cancelled, provided that every ReleaseMutex is on the way of the
\* section that it closes, that no AcquireMutex is READY without having been asked, and
\* that nothing is reset.
THEOREM MutexesExclude ==
  ASSUME NoneAtThreadStart({"AcquireMutex"})
  PROVE  OrderlySpec /\ [][ReleasesOwn]_vars =>
            [](resets = 0 /\ Quiescent =>
                 \A m \in Mutexes : Cardinality(OpenSections(m)) <= IF m \in locks THEN 1 ELSE 0)
  <1> DEFINE Inv == resets = 0 => MutexInv
  <1>1. Init => Inv
    BY InitMutexes
  <1>2. IInv /\ ReachInv /\ FiringInv /\ Inv /\ [OrderlyNext]_vars /\ [ReleasesOwn]_vars => Inv'
    <2> SUFFICES ASSUME IInv, ReachInv, FiringInv, Inv, [OrderlyNext]_vars, [ReleasesOwn]_vars, resets' = 0
                 PROVE  MutexInv'
      BY DEF MutexInv, MutexesComplete
    <2>1. resets = 0 /\ resets' = resets
      BY IInvSplit, ResetsCount, OrderlyIsNext DEF OthersTyped
    <2> QED
      BY <2>1, NextSections, NextMutexes
  <1>3. Inv => (resets = 0 /\ Quiescent =>
           \A m \in Mutexes : Cardinality(OpenSections(m)) <= IF m \in locks THEN 1 ELSE 0)
    BY SectionsCounted
  <1>4. OrderlySpec => [](IInv /\ ReachInv /\ FiringInv)
    BY InitFiring, NextFiring, ReachAlways, PTL DEF OrderlySpec
  <1> HIDE DEF Inv
  <1> QED
    BY <1>1, <1>2, <1>3, <1>4, PTL DEF OrderlySpec

\* And a mutex is taken only as long as a task is in its section, so nobody waits for ever
\* for one that nobody has; if what has taken it neither fails nor is cancelled before it
\* has run.
THEOREM MutexesProtect ==
  ASSUME NoneAtThreadStart({"AcquireMutex"})
  PROVE  OrderlySpec /\ [][ReleasesOwn]_vars /\ [][KeepsLocks(tasks, tasks')]_vars =>
            [](resets = 0 => MutexProtects)
  <1> DEFINE Inv == resets = 0 => MutexInv /\ HeldInv
  <1>1. Init => Inv
    BY InitMutexes
  <1>2. IInv /\ ReachInv /\ FiringInv /\ Inv /\ [OrderlyNext]_vars /\ [ReleasesOwn]_vars
           /\ [KeepsLocks(tasks, tasks')]_vars => Inv'
    <2> SUFFICES ASSUME IInv, ReachInv, FiringInv, Inv, [OrderlyNext]_vars, [ReleasesOwn]_vars,
                        [KeepsLocks(tasks, tasks')]_vars, resets' = 0
                 PROVE  MutexInv' /\ HeldInv'
      BY DEF MutexInv, MutexesComplete, HeldInv
    <2>1. resets = 0 /\ resets' = resets
      BY IInvSplit, ResetsCount, OrderlyIsNext DEF OthersTyped
    <2>2. UNCHANGED vars => UNCHANGED tasks
      BY DEF vars
    <2>3. KeepsLocks(tasks, tasks')
      BY <2>2 DEF KeepsLocks
    <2> QED
      BY <2>1, <2>3, NextSections, NextMutexes, NextHeld
  <1>3. Inv => (resets = 0 => MutexProtects)
    BY SectionsCounted DEF MutexProtects
  <1>4. OrderlySpec => [](IInv /\ ReachInv /\ FiringInv)
    BY InitFiring, NextFiring, ReachAlways, PTL DEF OrderlySpec
  <1> HIDE DEF Inv
  <1> QED
    BY <1>1, <1>2, <1>3, <1>4, PTL DEF OrderlySpec

-----------------------------------------------------------------------------
(* No state goes backwards                                                 *)

LEMMA Ranks ==
  /\ Rank("MAYBE") = 1 /\ Rank("LIKELY") = 2 /\ Rank("FUTURE") = 3
  /\ Rank("WAITING") = 4 /\ Rank("READY") = 5 /\ Rank("STARTED") = 6
  /\ Rank("COMPLETED") = 7 /\ Rank("ERROR") = 8 /\ Rank("CANCELLED") = 9
  <1> DEFINE names == <<"MAYBE", "LIKELY", "FUTURE", "WAITING", "READY", "STARTED",
                        "COMPLETED", "ERROR", "CANCELLED">>
  <1>1. /\ names[1] = "MAYBE" /\ names[2] = "LIKELY" /\ names[3] = "FUTURE"
        /\ names[4] = "WAITING" /\ names[5] = "READY" /\ names[6] = "STARTED"
        /\ names[7] = "COMPLETED" /\ names[8] = "ERROR" /\ names[9] = "CANCELLED"
    OBVIOUS
  <1>2. \A s : Rank(s) = CHOOSE i \in 1..9 : s = names[i]
    BY DEF Rank
  <1> HIDE DEF names
  <1>3. ASSUME NEW k \in 1..9 PROVE Rank(names[k]) = k
    <2>1. Rank(names[k]) \in 1..9 /\ names[k] = names[Rank(names[k])]
      BY <1>2
    <2> DEFINE r == Rank(names[k])
    <2>2. r \in 1..9 /\ names[k] = names[r]
      BY <2>1
    <2> HIDE DEF r
    <2>3. k = 1 \/ k = 2 \/ k = 3 \/ k = 4 \/ k = 5 \/ k = 6 \/ k = 7 \/ k = 8 \/ k = 9
      OBVIOUS
    <2>4. r = 1 \/ r = 2 \/ r = 3 \/ r = 4 \/ r = 5 \/ r = 6 \/ r = 7 \/ r = 8 \/ r = 9
      BY <2>2
    <2>5. r = k
      BY <1>1, <2>2, <2>3, <2>4
    <2> QED
      BY <2>5 DEF r
  <1> QED
    BY <1>1, <1>3

\* The states of U are those of T or later ones, but for a Cancel task.
Forward(T, U) ==
    \A t \in DOMAIN T \intersect DOMAIN U :
        \/ Rank(U[t].state) >= Rank(T[t].state)
        \/ Kind(T[t].spec) = "Cancel" /\ U[t].state \in FINISHED

\* What is behind a task that may never be reached has not been thought likely, but by the
\* guess how often a task will be multiplied.
Guessed(T) ==
    \A c \in DOMAIN T \ {Root} :
        T[c].state = "LIKELY" /\ T[Parent(c)].state = "MAYBE" => IsMultiple(T[Parent(c)].spec)

\* No task has become LIKELY or MAYBE.
NothingGuessed(T, U) ==
    \A d \in DOMAIN U :
        U[d].state \in PREDICTED => d \in DOMAIN T /\ T[d].state = U[d].state

\* No task of a hesitant kind has become READY.
NothingPasses(T, U) ==
    \A d \in DOMAIN U :
        U[d].state = "READY" /\ Kind(U[d].spec) \in Hesitant =>
            d \in DOMAIN T /\ T[d].state = "READY"

\* A step that is in order, and one that does not even guess.
Onward(T, U)   == SameSpecs(T, U) /\ Forward(T, U) /\ (Guessed(T) => Guessed(U))
Straight(T, U) == SameSpecs(T, U) /\ Forward(T, U) /\ NothingGuessed(T, U)

LEMMA StraightOnward ==
  ASSUME NEW T, Tree(T, Specs), NEW U, Tree(U, Specs), Straight(T, U)
  PROVE  Onward(T, U)
  <1> SUFFICES ASSUME Guessed(T), NEW c \in DOMAIN U, c # Root, U[c].state = "LIKELY",
                      U[Parent(c)].state = "MAYBE"
               PROVE  IsMultiple(U[Parent(c)].spec)
    BY DEF Onward, Straight, Guessed
  <1>1. Parent(c) \in DOMAIN U
    BY ParentLive
  <1>2. /\ c \in DOMAIN T /\ T[c].state = "LIKELY"
        /\ Parent(c) \in DOMAIN T /\ T[Parent(c)].state = "MAYBE"
    BY <1>1, StatesDiffer DEF Straight, NothingGuessed
  <1>3. U[Parent(c)].spec = T[Parent(c)].spec
    BY <1>1, <1>2 DEF Straight, SameSpecs
  <1> QED
    BY <1>2, <1>3 DEF Guessed

LEMMA UnchangedOnward ==
  ASSUME NEW T, Tree(T, Specs) PROVE Onward(T, T) /\ NothingPasses(T, T)
  <1>1. ASSUME NEW t \in DOMAIN T PROVE Rank(T[t].state) >= Rank(T[t].state)
    <2>1. T[t].state \in ANY
      BY StateTyped
    <2> QED
      BY <2>1, StatesDiffer, Ranks
  <1> QED
    BY <1>1 DEF Onward, SameSpecs, Forward, NothingPasses

\* All tasks of S enter a state.
LEMMA SetStraight ==
  ASSUME NEW T, Tree(T, Specs), NEW S, NEW state \in ANY \ PREDICTED,
         \A d \in S \intersect DOMAIN T :
            \/ Rank(state) >= Rank(T[d].state)
            \/ Kind(T[d].spec) = "Cancel" /\ state \in FINISHED
  PROVE  Onward(T, SetState(T, S, state))
  <1> DEFINE U == SetState(T, S, state)
  <1>1. /\ DOMAIN U = DOMAIN T
        /\ \A d \in DOMAIN T : /\ U[d].spec = T[d].spec
                               /\ U[d].state = IF d \in S THEN state ELSE T[d].state
    BY SetStateEffect
  <1>2. Tree(U, Specs)
    BY SetStateTree
  <1> HIDE DEF U
  <1>3. Forward(T, U)
    BY <1>1, UnchangedOnward DEF Forward, Onward
  <1>4. SameSpecs(T, U) /\ NothingGuessed(T, U)
    BY <1>1 DEF SameSpecs, NothingGuessed
  <1> QED
    BY <1>2, <1>3, <1>4, StraightOnward DEF Straight, U

LEMMA SetPasses ==
  ASSUME NEW T, Tree(T, Specs), NEW S, NEW state, state # "READY"
  PROVE  NothingPasses(T, SetState(T, S, state))
  BY SetStateEffect DEF NothingPasses

LEMMA ShrunkOnward ==
  ASSUME NEW T, Tree(T, Specs), NEW U, Tree(U, Specs), Shrunk(T, U)
  PROVE  Onward(T, U) /\ NothingPasses(T, U)
  <1>1. ASSUME NEW t \in DOMAIN U PROVE Rank(U[t].state) >= Rank(T[t].state)
    <2>1. T[t].state \in ANY /\ (U[t].state = T[t].state \/ U[t].state = "CANCELLED")
      BY StateTyped DEF Shrunk
    <2> QED
      BY <2>1, StatesDiffer, Ranks
  <1>2. Straight(T, U)
    BY <1>1, StatesDiffer DEF Straight, SameSpecs, Forward, NothingGuessed, Shrunk
  <1> QED
    BY <1>2, StraightOnward DEF NothingPasses, Shrunk

\* The children of a task that runs are synchronized: none of them has been reached.
LEMMA GrownOnward ==
  ASSUME NEW T, Tree(T, Specs), NEW U, Tree(U, Specs), Reach(T), NEW t,
         NEW state \in {"FUTURE", "READY"}, Grown(T, U, t, {state}), T[t].state \notin FINISHED
  PROVE  /\ Onward(T, U)
         /\ state = "FUTURE" => NothingPasses(T, U)
  <1>1. ASSUME NEW d \in DOMAIN T \intersect DOMAIN U
        PROVE  Rank(U[d].state) >= Rank(T[d].state)
    <2>1. T[d].state \in ANY
      BY StateTyped
    <2>2. CASE U[d].state = T[d].state
      BY <2>1, <2>2, StatesDiffer, Ranks
    <2>3. CASE U[d].state # T[d].state
      <3>1. d # Root /\ Parent(d) = t /\ T[d].state \in NOT_FINISHED /\ U[d].state = state
        BY <2>3 DEF Grown
      <3>2. d \in Path /\ Above(t, d) /\ t \in DOMAIN T
        BY <3>1, ParentLive, AboveParent DEF Grown
      <3>3. T[d].state \notin REACHED /\ T[d].state # "STARTED"
        BY <3>2 DEF Reach, Attached
      <3>4. T[d].state \in EXPECTED
        BY <3>1, <3>3, StatesDiffer DEF REACHED
      <3> QED
        BY <3>1, <3>4, StatesDiffer, Ranks
    <2> QED
      BY <2>2, <2>3
  <1>2. Straight(T, U)
    BY <1>1, StatesDiffer DEF Straight, SameSpecs, Forward, NothingGuessed, Grown
  <1> QED
    BY <1>2, StraightOnward DEF NothingPasses, Grown

\* What a prediction makes of the children of its task.
LEMMA PredictHookStates ==
  ASSUME NEW T, Tree(T, Specs), NEW t \in DOMAIN T, NEW n \in Nat
  PROVE  LET U == PredictHook(T, t, n)
         IN  /\ \A d \in DOMAIN T \intersect DOMAIN U :
                   /\ U[d].spec = T[d].spec
                   /\ \/ U[d].state = T[d].state
                      \/ d # Root /\ Parent(d) = t /\ U[d].state = PredictedState(T, t)
             /\ \A d \in DOMAIN U \ DOMAIN T :
                   /\ d # Root /\ Parent(d) = t
                   /\ U[d].state \in {PredictedState(T, t)}
                                         \union (IF IsChoice(T[t].spec) THEN {"MAYBE"} ELSE {})
  <1> DEFINE s      == T[t].spec
             state  == PredictedState(T, t)
             synced == SyncChildren(T, t, PredictedOutputs(s, n), OutputCount(s, n), state)
             new    == Conditional(s)
             U      == AddChildren(synced, t, new, Len(Outputs(s)), "MAYBE")
  <1>1. s \in Specs /\ state \in ANY
    BY PredictedStateTyped, StateTyped
  <1>2. Gapped(PredictedOutputs(s, n), OutputCount(s, n)) /\ Gapped(new, Len(Outputs(s)))
    BY <1>1, PredictedOutputsGapped, PickGapped DEF Conditional
  <1>3. Tree(synced, Specs) /\ t \in DOMAIN synced /\ Grown(T, synced, t, {state})
    BY <1>1, <1>2, SyncChildrenTree DEF Gapped
  <1>4. PredictHook(T, t, n) = IF IsChoice(s) THEN U ELSE synced
    BY DEF PredictHook
  <1> HIDE DEF state, synced, new, s
  <1>5. /\ \A d \in DOMAIN T \intersect DOMAIN synced :
              /\ synced[d].spec = T[d].spec
              /\ \/ synced[d].state = T[d].state
                 \/ d # Root /\ Parent(d) = t /\ synced[d].state = state
        /\ \A d \in DOMAIN synced \ DOMAIN T :
              d # Root /\ Parent(d) = t /\ Slot(d) > T[t].born /\ synced[d].state = state
    BY <1>3 DEF Grown
  <1>6. Grown(synced, U, t, {"MAYBE"}) /\ Tree(U, Specs) /\ DOMAIN synced \subseteq DOMAIN U
    BY <1>2, <1>3, AddChildrenTree, StatesDiffer DEF Gapped
  <1>7. T[t].born \in Nat /\ synced[t].born \in Nat /\ synced[t].born >= T[t].born
    BY <1>3 DEF Tree, IsTree, TaskType, Grown
  <1>8. ASSUME NEW d \in DOMAIN U
        PROVE  \/ d \in DOMAIN synced /\ U[d].state = synced[d].state /\ U[d].spec = synced[d].spec
               \/ /\ d \notin DOMAIN T /\ d \notin DOMAIN synced
                  /\ d # Root /\ Parent(d) = t /\ U[d].state = "MAYBE"
    <2>1. CASE d \in DOMAIN synced
      <3>1. d \notin {Append(t, synced[t].born + i) : i \in DOMAIN new}
        <4> SUFFICES ASSUME NEW i \in DOMAIN new, d = Append(t, synced[t].born + i) PROVE FALSE
          OBVIOUS
        <4>1. i \in Nat /\ i > 0 /\ t \in Path /\ synced[t].born + i \in Nat
          BY <1>2, <1>7, StateTyped DEF Gapped
        <4>2. d # Root /\ Parent(d) = t /\ Slot(d) = synced[t].born + i
          BY <1>7, <4>1, AppendPath
        <4>3. Slot(d) \in 1..synced[t].born
          BY <1>3, <2>1, <4>2 DEF Tree, Closed
        <4> QED
          BY <1>7, <4>1, <4>2, <4>3
      <3>2. U[d] = IF d = t THEN [synced[t] EXCEPT !.born = @ + Len(Outputs(s))] ELSE synced[d]
        BY <2>1, <3>1 DEF AddChildren
      <3>3. synced[t] \in TaskType(Specs)
        BY <1>3 DEF Tree, IsTree
      <3> QED
        BY <2>1, <3>2, <3>3 DEF TaskType
    <2>2. CASE d \notin DOMAIN synced
      <3>1. d # Root /\ Parent(d) = t /\ Slot(d) > synced[t].born /\ U[d].state = "MAYBE"
        BY <1>6, <2>2 DEF Grown
      <3>2. d \in Path
        BY <1>6, StateTyped
      <3>3. Slot(d) \in Nat
        BY <3>1, <3>2, ParentPath
      <3>4. d \notin DOMAIN T
        BY <1>7, <3>1, <3>3 DEF Tree, Closed
      <3> QED
        BY <2>2, <3>1, <3>4
    <2> QED
      BY <2>1, <2>2
  <1>9. \A d \in DOMAIN T : d \in DOMAIN U => d \in DOMAIN synced
    BY <1>8
  <1>10. CASE ~IsChoice(s)
    BY <1>4, <1>5, <1>10 DEF state, s
  <1>11. CASE IsChoice(s)
    <2> HIDE DEF U
    <2> QED
      BY <1>4, <1>5, <1>8, <1>9, <1>11 DEF state, s
  <1> QED
    BY <1>10, <1>11

LEMMA PredictHookOnward ==
  ASSUME NEW T, Tree(T, Specs), Reach(T), Guessed(T), NEW t \in DOMAIN T, NEW n \in Nat,
         T[t].state \in EXPECTED
  PROVE  Onward(T, PredictHook(T, t, n)) /\ NothingPasses(T, PredictHook(T, t, n))
  <1> DEFINE U     == PredictHook(T, t, n)
             state == PredictedState(T, t)
  <1>1. /\ \A d \in DOMAIN T \intersect DOMAIN U :
              /\ U[d].spec = T[d].spec
              /\ \/ U[d].state = T[d].state
                 \/ d # Root /\ Parent(d) = t /\ U[d].state = state
        /\ \A d \in DOMAIN U \ DOMAIN T :
              /\ d # Root /\ Parent(d) = t
              /\ U[d].state \in {state} \union (IF IsChoice(T[t].spec) THEN {"MAYBE"} ELSE {})
    BY PredictHookStates
  <1>2. Tree(U, Specs) /\ t \in DOMAIN U /\ U[t].state = T[t].state /\ SameOrExpected(T, U)
    BY HookedTree
  <1> HIDE DEF U
  <1>3. /\ state \in EXPECTED
        /\ T[t].state = "MAYBE" /\ ~IsMultiple(T[t].spec) => state = "MAYBE"
        /\ T[t].state = "MAYBE" => state # "FUTURE"
        /\ T[t].state = "LIKELY" => state = "LIKELY"
        /\ T[t].state = "FUTURE" /\ ~IsChoice(T[t].spec) => state = "FUTURE"
        /\ IsMultiple(T[t].spec) => ~IsChoice(T[t].spec)
        /\ T[t].state = "MAYBE" /\ IsMultiple(T[t].spec) => state = "LIKELY"
        /\ T[t].state = "FUTURE" /\ IsChoice(T[t].spec) => state = "LIKELY"
    BY StatesDiffer DEF PredictedState, In, IsMultiple, IsChoice
  <1> HIDE DEF state
  \* A child is in a state that is not later than the one predicted now.
  <1>4. ASSUME NEW d \in DOMAIN T \intersect DOMAIN U
        PROVE  /\ U[d].state = T[d].state \/ U[d].state \in {"LIKELY", "FUTURE"}
               /\ Rank(U[d].state) >= Rank(T[d].state)
    <2>1. T[d].state \in ANY
      BY StateTyped
    <2>2. CASE U[d].state = T[d].state
      BY <2>1, <2>2, StatesDiffer, Ranks
    <2>3. CASE U[d].state # T[d].state
      <3>1. d # Root /\ Parent(d) = t /\ U[d].state = state /\ T[d].state \in EXPECTED
        BY <1>1, <1>2, <2>3 DEF SameOrExpected
      <3>2. T[d].state = "LIKELY" /\ T[t].state = "MAYBE" => IsMultiple(T[t].spec)
        BY <3>1 DEF Guessed
      <3>3. T[d].state = "FUTURE" =>
               /\ T[t].state \notin PREDICTED
               /\ IsChoice(T[t].spec) => T[t].state \notin EXPECTED
        BY <3>1 DEF Reach
      <3>4. T[t].state \in {"MAYBE", "LIKELY", "FUTURE"} /\ T[d].state \in {"MAYBE", "LIKELY", "FUTURE"}
            /\ state \in {"MAYBE", "LIKELY", "FUTURE"}
        BY <1>3, <3>1, StatesDiffer
      <3>5. /\ state # "MAYBE" \/ T[d].state = "MAYBE"
            /\ T[d].state = "FUTURE" => state = "FUTURE"
        BY <1>3, <3>2, <3>3, <3>4, StatesDiffer
      <3> QED
        BY <2>3, <3>1, <3>4, <3>5, Ranks
    <2> QED
      BY <2>2, <2>3
  <1>5. Guessed(U)
    <2> SUFFICES ASSUME NEW c \in DOMAIN U, c # Root, U[c].state = "LIKELY", U[Parent(c)].state = "MAYBE"
                 PROVE  IsMultiple(U[Parent(c)].spec)
      BY DEF Guessed
    <2> DEFINE p == Parent(c)
    <2>1. p \in DOMAIN U /\ p # c
      BY <1>2, ParentLive
    <2>2. CASE p = t
      <3>1. T[t].state = "MAYBE" /\ U[t].spec = T[t].spec
        BY <1>1, <1>2, <2>2
      <3>2. CASE c \in DOMAIN T /\ T[c].state = "LIKELY"
        BY <2>2, <3>1, <3>2 DEF Guessed
      <3>3. CASE c \in DOMAIN T /\ T[c].state # "LIKELY"
        <4>1. state = "LIKELY"
          BY <1>1, <3>3
        <4> QED
          BY <1>3, <2>2, <3>1, <4>1
      <3>4. CASE c \notin DOMAIN T
        <4>1. state = "LIKELY"
          BY <1>1, <3>4
        <4> QED
          BY <1>3, <2>2, <3>1, <4>1
      <3> QED
        BY <3>2, <3>3, <3>4
    <2>3. CASE p # t
      <3>1. c \in DOMAIN T /\ T[c].state = "LIKELY"
        BY <1>1, <2>3
      <3>2. p \in DOMAIN T
        BY <3>1, ParentLive
      <3>3. T[p].state = "MAYBE" /\ U[p].spec = T[p].spec
        BY <1>1, <1>4, <2>1, <3>2
      <3> HIDE DEF p
      <3> QED
        BY <3>1, <3>3 DEF Guessed, p
    <2> QED
      BY <2>2, <2>3
  <1>6. SameSpecs(T, U) /\ Forward(T, U) /\ NothingPasses(T, U)
    <2>1. NothingPasses(T, U)
      BY <1>2, StatesDiffer DEF SameOrExpected, NothingPasses
    <2> QED
      BY <1>1, <1>4, <2>1 DEF SameSpecs, Forward
  <1> QED
    BY <1>5, <1>6 DEF Onward, U

-----------------------------------------------------------------------------
(* What the calls in progress rely on, so that no state goes backwards     *)

\* A task that would be WAITING if it were asked is not READY.
Settled(T, c) == c \in DOMAIN T /\ T[c].state = "READY" => Kind(T[c].spec) \notin Hesitant

\* Which tasks are to be asked; and what is to be completed has not been cancelled, but
\* by itself.
GoesOn(T, f) ==
    /\ f.op = "hook" => Settled(T, f.task)
    /\ f.op = "children" => \A c \in f.todo : Settled(T, c)
    /\ f.op = "complete" =>
          /\ f.task \in DOMAIN T /\ T[f.task].state = "CANCELLED" =>
                Kind(T[f.task].spec) = "Cancel"
          /\ \A c \in Children(T, f.task) : Settled(T, c)

\* The frame f above g asks no task that g is still to ask, and does not cancel the task
\* that g is to complete.
Clear(f, g) ==
    /\ g.op = "children" => /\ f.op \notin {"children", "visit"}
                            /\ f.op = "hook" => f.task \notin g.todo
    /\ g.op = "complete" /\ f.op = "cancel" => Spares(f, g.task)

AllGoOn(T, c) == \A i \in DOMAIN c : GoesOn(T, c[i])
AllClear(c)   == \A i, k \in DOMAIN c : i < k => Clear(c[i], c[k])

OnwardInv == Guessed(tasks) /\ AllGoOn(tasks, calls) /\ AllClear(calls)

LEMMA GoOnConcat ==
  ASSUME NEW a \in Seq(FrameType), NEW b \in Seq(FrameType), NEW T,
         AllGoOn(T, a), AllGoOn(T, b), AllClear(a), AllClear(b),
         \A i \in DOMAIN a : \A k \in DOMAIN b : Clear(a[i], b[k])
  PROVE  AllGoOn(T, a \o b) /\ AllClear(a \o b)
  <1> DEFINE d == a \o b
  <1>1. /\ d \in Seq(FrameType) /\ Len(a) \in Nat /\ DOMAIN a = 1..Len(a)
        /\ DOMAIN d \subseteq Nat
    BY ConcatFrames
  <1>2. \A i \in DOMAIN d :
           \/ i \in DOMAIN a /\ d[i] = a[i]
           \/ i - Len(a) \in DOMAIN b /\ d[i] = b[i - Len(a)] /\ i > Len(a)
    BY ConcatFrames
  <1> HIDE DEF d
  <1>3. AllClear(d)
    <2> SUFFICES ASSUME NEW i \in DOMAIN d, NEW k \in DOMAIN d, i < k
                 PROVE  Clear(d[i], d[k])
      BY DEF AllClear
    <2>1. CASE k \in DOMAIN a
      <3>1. k - Len(a) \notin DOMAIN b \/ ~(k > Len(a))
        BY <1>1, <2>1
      <3>2. i \in DOMAIN a /\ ~(i > Len(a))
        BY <1>1, <2>1
      <3> QED
        BY <1>2, <2>1, <3>1, <3>2 DEF AllClear
    <2>2. CASE k - Len(a) \in DOMAIN b /\ d[k] = b[k - Len(a)] /\ i \in DOMAIN a /\ d[i] = a[i]
      BY <2>2
    <2>3. CASE /\ k - Len(a) \in DOMAIN b /\ d[k] = b[k - Len(a)]
               /\ i - Len(a) \in DOMAIN b /\ d[i] = b[i - Len(a)]
      <3>1. i - Len(a) < k - Len(a)
        BY <1>1
      <3> QED
        BY <2>3, <3>1 DEF AllClear
    <2> QED
      BY <1>2, <2>1, <2>2, <2>3
  <1>4. AllGoOn(T, d)
    BY <1>2 DEF AllGoOn
  <1> QED
    BY <1>3, <1>4 DEF d

LEMMA NoneGoesOn == <<>> \in Seq(FrameType) /\ AllClear(<<>>) /\ \A T : AllGoOn(T, <<>>)
  BY DEF AllClear, AllGoOn

LEMMA OneGoesOn ==
  ASSUME NEW f \in FrameType, NEW T, GoesOn(T, f)
  PROVE  /\ <<f>> \in Seq(FrameType) /\ AllClear(<<f>>) /\ AllGoOn(T, <<f>>)
         /\ \A i \in DOMAIN <<f>> : <<f>>[i] = f
  BY DEF AllClear, AllGoOn

\* What is known about the frames below the top one.
LEMMA RestGoesOn ==
  ASSUME IInv, ReachInv, OnwardInv, calls # <<>>
  PROVE  /\ GoesOn(tasks, Top) /\ AllClear(Tail(calls)) /\ Tail(calls) \in Seq(FrameType)
         /\ \A k \in DOMAIN Tail(calls) :
               /\ Tail(calls)[k] \in FrameType /\ FrameOK(tasks, Tail(calls)[k])
               /\ GoesOn(tasks, Tail(calls)[k]) /\ Clear(Top, Tail(calls)[k])
               /\ Top.op \in Over(Tail(calls)[k].op)
  <1> DEFINE c    == calls
             rest == Tail(c)
  <1>1. c \in Seq(FrameType) /\ c # <<>> /\ Ordered(c) /\ FramesOK(tasks, c)
    BY InProgress
  <1>2. AllGoOn(tasks, c) /\ AllClear(c) /\ Top = Head(c)
    BY DEF OnwardInv, Top
  <1> HIDE DEF c
  <1>3. /\ rest \in Seq(FrameType) /\ Len(rest) = Len(c) - 1 /\ Head(c) = c[1]
        /\ \A i \in 1..Len(rest) : rest[i] = c[i + 1]
        /\ Len(c) \in Nat \ {0} /\ Len(rest) \in Nat
    BY <1>1, HeadTailProperties, LenProperties
  <1>4. DOMAIN c = 1..Len(c) /\ DOMAIN rest = 1..Len(rest)
    BY <1>1, <1>3, LenProperties
  <1> HIDE DEF rest
  <1>5. ASSUME NEW k \in DOMAIN rest
        PROVE  /\ rest[k] \in FrameType /\ FrameOK(tasks, rest[k]) /\ GoesOn(tasks, rest[k])
               /\ Clear(Top, rest[k]) /\ Top.op \in Over(rest[k].op)
    <2>1. k + 1 \in DOMAIN c /\ 1 \in DOMAIN c /\ rest[k] = c[k + 1] /\ 1 < k + 1
      BY <1>3, <1>4
    <2>2. Top = c[1] /\ rest[k] \in FrameType
      BY <1>2, <1>3
    <2> QED
      BY <1>1, <1>2, <2>1, <2>2 DEF Ordered, FramesOK, AllGoOn, AllClear
  <1>6. AllClear(rest)
    <2> SUFFICES ASSUME NEW i \in DOMAIN rest, NEW k \in DOMAIN rest, i < k
                 PROVE  Clear(rest[i], rest[k])
      BY DEF AllClear
    <2>1. k + 1 \in DOMAIN c /\ i + 1 \in DOMAIN c /\ rest[k] = c[k + 1] /\ rest[i] = c[i + 1]
          /\ i + 1 < k + 1
      BY <1>3, <1>4
    <2> QED
      BY <1>2, <2>1 DEF AllClear
  <1>7. GoesOn(tasks, Top)
    <2>1. 1 \in DOMAIN c /\ Top = c[1]
      BY <1>2, <1>3, <1>4
    <2> QED
      BY <1>2, <2>1 DEF AllGoOn
  <1> QED
    BY <1>3, <1>5, <1>6, <1>7 DEF rest, c

\* The stack when the top frame is replaced by some others.
LEMMA TopGoesOn ==
  ASSUME IInv, ReachInv, OnwardInv, calls # <<>>,
         NEW frames \in Seq(FrameType), calls' = frames \o Tail(calls),
         AllGoOn(tasks', frames), AllClear(frames), Guessed(tasks'),
         \A g \in FrameType :
            FrameOK(tasks, g) /\ GoesOn(tasks, g) /\ Clear(Top, g) /\ Top.op \in Over(g.op) =>
               GoesOn(tasks', g) /\ \A i \in DOMAIN frames : Clear(frames[i], g)
  PROVE  OnwardInv'
  <1>1. AllClear(Tail(calls)) /\ Tail(calls) \in Seq(FrameType)
    BY RestGoesOn
  <1>2. ASSUME NEW k \in DOMAIN Tail(calls)
        PROVE  /\ GoesOn(tasks', Tail(calls)[k])
               /\ \A i \in DOMAIN frames : Clear(frames[i], Tail(calls)[k])
    BY RestGoesOn
  <1>3. AllGoOn(tasks', Tail(calls))
    BY <1>2 DEF AllGoOn
  <1> QED
    BY <1>1, <1>2, <1>3, GoOnConcat DEF OnwardInv

LEMMA ReturnGoesOn ==
  ASSUME IInv, ReachInv, OnwardInv, calls # <<>>, Return, Guessed(tasks'),
         \A g \in FrameType :
            FrameOK(tasks, g) /\ GoesOn(tasks, g) /\ Clear(Top, g) /\ Top.op \in Over(g.op) =>
               GoesOn(tasks', g)
  PROVE  OnwardInv'
  <1>1. calls' = <<>> \o Tail(calls)
    BY InProgress DEF Return
  <1> DEFINE none == <<>>
  <1>2. /\ none \in Seq(FrameType) /\ calls' = none \o Tail(calls) /\ DOMAIN none = {}
        /\ AllGoOn(tasks', none) /\ AllClear(none)
    BY <1>1, NoneGoesOn
  <1> HIDE DEF none
  <1> QED
    BY <1>2, TopGoesOn

\* The same for a loop that makes a call for one member of its list.
LEMMA CallGoesOn ==
  ASSUME IInv, ReachInv, OnwardInv, calls # <<>>,
         NEW frames \in Seq(FrameType), NEW S \in SUBSET Path, CallWith(frames, S),
         AllGoOn(tasks', frames), AllClear(frames), Guessed(tasks'),
         GoesOn(tasks', [Top EXCEPT !.todo = S]), Top.op = "cancel" => S \subseteq Top.todo,
         \A i \in DOMAIN frames : Clear(frames[i], [Top EXCEPT !.todo = S]),
         \A g \in FrameType :
            FrameOK(tasks, g) /\ GoesOn(tasks, g) /\ Clear(Top, g) /\ Top.op \in Over(g.op) =>
               GoesOn(tasks', g) /\ \A i \in DOMAIN frames : Clear(frames[i], g)
  PROVE  OnwardInv'
  <1> DEFINE frame == [Top EXCEPT !.todo = S]
             again == IF S = {} THEN <<>> ELSE <<frame>>
             pushed == frames \o again
  <1>1. frame \in FrameType /\ frame.op = Top.op /\ frame.task = Top.task /\ frame.todo = S
    BY InProgress DEF FrameType
  <1> HIDE DEF frame
  <1>2. /\ again \in Seq(FrameType) /\ AllClear(again) /\ AllGoOn(tasks', again)
        /\ \A i \in DOMAIN again : again[i] = frame
    BY <1>1, OneGoesOn, NoneGoesOn, NoFrame DEF frame
  <1>3. calls' = pushed \o Tail(calls)
    BY DEF CallWith, frame
  <1> HIDE DEF again
  <1>4. AllGoOn(tasks', pushed) /\ AllClear(pushed)
    BY <1>2, GoOnConcat DEF frame
  <1>5. /\ pushed \in Seq(FrameType)
        /\ \A i \in DOMAIN pushed : pushed[i] = frame \/ \E k \in DOMAIN frames : pushed[i] = frames[k]
    BY <1>2, ConcatFrames
  <1> HIDE DEF pushed
  <1>6. \A g \in FrameType : Clear(Top, g) => Clear(frame, g)
    BY <1>1 DEF Clear, Spares
  <1>7. ASSUME NEW g \in FrameType, FrameOK(tasks, g), GoesOn(tasks, g), Clear(Top, g),
               Top.op \in Over(g.op)
        PROVE  GoesOn(tasks', g) /\ \A i \in DOMAIN pushed : Clear(pushed[i], g)
    BY <1>5, <1>6, <1>7
  <1> QED
    BY <1>3, <1>4, <1>5, <1>7, TopGoesOn

\* A frame goes on as before if nothing passes, and what it is to complete is not cancelled.
LEMMA StillGoesOn ==
  ASSUME NEW T, Tree(T, Specs), NEW U, Tree(U, Specs), SameSpecs(T, U), NothingPasses(T, U),
         NEW f, GoesOn(T, f),
         f.op = "complete" /\ f.task \in DOMAIN U /\ U[f.task].state = "CANCELLED" =>
            f.task \in DOMAIN T /\ T[f.task].state = "CANCELLED"
  PROVE  GoesOn(U, f)
  <1>1. ASSUME NEW c, Settled(T, c) PROVE Settled(U, c)
    BY <1>1 DEF Settled, NothingPasses, SameSpecs
  <1>2. ASSUME NEW c \in Children(U, f.task), f.op = "complete" PROVE Settled(U, c)
    <2>1. CASE c \in DOMAIN T
      <3>1. c \in Children(T, f.task)
        BY <2>1 DEF Children
      <3> QED
        BY <1>1, <1>2, <3>1 DEF GoesOn
    <2>2. CASE c \notin DOMAIN T
      BY <2>2 DEF Settled, NothingPasses
    <2> QED
      BY <2>1, <2>2
  <1>3. f.op = "complete" /\ f.task \in DOMAIN U /\ U[f.task].state = "CANCELLED" =>
           Kind(U[f.task].spec) = "Cancel"
    BY DEF GoesOn, SameSpecs
  <1> QED
    BY <1>1, <1>2, <1>3 DEF GoesOn

-----------------------------------------------------------------------------
(* The steps                                                               *)

GoesForward == OnwardInv' /\ Forward(tasks, tasks')

\* Which frames rely on nothing, and are in nobody's way.
LEMMA IdleFrames ==
  ASSUME NEW f, NEW g
  PROVE  /\ f.op \notin {"hook", "children", "complete"} => \A T : GoesOn(T, f)
         /\ f.op \notin {"hook", "children", "visit", "cancel"} => Clear(f, g)
         /\ g.op \notin {"children", "complete"} => Clear(f, g)
         /\ f.op = "cancel" /\ g.op # "complete" => Clear(f, g)
  BY DEF GoesOn, Clear

LEMMA ReturnOnward ==
  ASSUME IInv, ReachInv, OnwardInv, calls # <<>>, Return, UNCHANGED tasks
  PROVE  GoesForward
  <1>1. Forward(tasks, tasks')
    BY InProgress, UnchangedOnward DEF Onward
  <1>2. OnwardInv'
    BY ReturnGoesOn DEF OnwardInv
  <1> QED
    BY <1>1, <1>2 DEF GoesForward

LEMMA RaiseOnward == ASSUME IInv, ReachInv, OnwardInv, Raise PROVE GoesForward
  <1> DEFINE S == {calls[i].task : i \in {k \in DOMAIN calls : calls[k].op = "complete"}}
  <1>1. Tree(tasks, Specs) /\ tasks' = SetState(tasks, S, "ERROR") /\ calls' = <<>>
    BY IInvSplit DEF Raise
  <1>2. ASSUME NEW d \in S \intersect DOMAIN tasks
        PROVE  \/ Rank("ERROR") >= Rank(tasks[d].state)
               \/ Kind(tasks[d].spec) = "Cancel" /\ "ERROR" \in FINISHED
    <2>1. PICK k \in DOMAIN calls : calls[k].op = "complete" /\ calls[k].task = d
      BY <1>2
    <2>2. FrameOK(tasks, calls[k]) /\ GoesOn(tasks, calls[k])
      BY <2>1 DEF ReachInv, FramesOK, OnwardInv, AllGoOn
    <2>3. tasks[d].state \in {"READY", "CANCELLED"}
      BY <1>2, <2>1, <2>2 DEF FrameOK, LiveIn
    <2>4. tasks[d].state = "CANCELLED" => Kind(tasks[d].spec) = "Cancel"
      BY <1>2, <2>1, <2>2 DEF GoesOn
    <2> QED
      BY <2>3, <2>4, Ranks, StatesDiffer
  <1> HIDE DEF S
  <1>3. Onward(tasks, SetState(tasks, S, "ERROR"))
    BY <1>1, <1>2, SetStraight, StatesDiffer
  <1> QED
    BY <1>1, <1>3, NoneGoesOn DEF Onward, OnwardInv, GoesForward

LEMMA PredictOnward == ASSUME IInv, ReachInv, OnwardInv, Predict PROVE GoesForward
  <1>1. calls # <<>> /\ Top.op = "predict"
    BY DEF Predict, Doing, Top
  <1>2. /\ Tree(tasks, Specs) /\ Reach(tasks) /\ Top \in FrameType /\ FrameOK(tasks, Top)
        /\ Top.task \in Path /\ Top.todo \in SUBSET Path
        /\ Top.looked \in Nat /\ Top.mask \in SUBSET ANY /\ Guessed(tasks)
    BY <1>1, InProgress, StackTyped DEF OnwardInv
  <1>3. CASE Top.todo = {}
    BY <1>1, <1>3, ReturnOnward DEF Predict
  <1>4. CASE Top.todo # {}
    <2> DEFINE n(t)    == PredictedTimes(tasks[t].spec)
               T(t)    == IF In(tasks, t, Top.mask) THEN PredictHook(tasks, t, n(t)) ELSE tasks
               next(t) == PredictNext(T(t), t, Top.looked, Top.mask)
    <2>1. PICK t \in Top.todo :
            /\ t \in DOMAIN tasks
            /\ \/ Raise
               \/ /\ tasks' = T(t)
                  /\ CallWith(IF next(t) = {} THEN <<>>
                              ELSE <<PredictFrame(t, next(t), Top.looked + 1, Top.mask)>>,
                              Top.todo \ {t})
      BY <1>4 DEF Predict
    <2>2. CASE Raise
      BY <2>2, RaiseOnward
    <2>3. CASE /\ tasks' = T(t)
               /\ CallWith(IF next(t) = {} THEN <<>>
                           ELSE <<PredictFrame(t, next(t), Top.looked + 1, Top.mask)>>,
                           Top.todo \ {t})
      <3>1. n(t) \in Nat /\ t \in Path
        BY <1>2, <2>1, StateTyped, PredictedTimesTyped
      <3>2. /\ Tree(T(t), Specs) /\ SameOrExpected(tasks, T(t))
            /\ Onward(tasks, T(t)) /\ NothingPasses(tasks, T(t))
        <4>1. CASE In(tasks, t, Top.mask)
          <5>1. tasks[t].state \in EXPECTED
            BY <1>1, <1>2, <2>1, <4>1 DEF FrameOK, In
          <5> QED
            BY <1>2, <2>1, <3>1, <4>1, <5>1, HookedTree, PredictHookOnward
        <4>2. CASE ~In(tasks, t, Top.mask)
          BY <1>2, <4>2, UnchangedOnward DEF SameOrExpected
        <4> QED
          BY <4>1, <4>2
      <3>3. next(t) \in SUBSET Path
        BY <3>2, PredictNextTyped
      <3> HIDE DEF n, T, next
      <3> DEFINE f      == PredictFrame(t, next(t), Top.looked + 1, Top.mask)
                 frames == IF next(t) = {} THEN <<>> ELSE <<f>>
                 S      == Top.todo \ {t}
      <3>4. f \in FrameType /\ f.op = "predict"
        BY <1>2, <3>1, <3>3, PredictFrameTyped DEF PredictFrame
      <3> HIDE DEF f
      <3>5. frames \in Seq(FrameType) /\ \A i \in DOMAIN frames : frames[i] = f
        BY <3>4
      <3>6. AllGoOn(tasks', frames) /\ AllClear(frames)
        BY <3>4, IdleFrames, OneGoesOn, NoneGoesOn
      <3>7. CallWith(frames, S) /\ S \in SUBSET Path
        BY <1>2, <2>3 DEF f
      <3> HIDE DEF frames, S
      <3>8. Guessed(tasks') /\ Forward(tasks, tasks')
        BY <1>2, <2>3, <3>2 DEF Onward
      <3>9. LET frame == [Top EXCEPT !.todo = S]
            IN  GoesOn(tasks', frame) /\ \A i \in DOMAIN frames : Clear(frames[i], frame)
        <4> DEFINE frame == [Top EXCEPT !.todo = S]
        <4>1. frame.op = "predict"
          BY <1>1, <1>2 DEF FrameType
        <4> HIDE DEF frame
        <4>2. GoesOn(tasks', frame) /\ \A i \in DOMAIN frames : Clear(frames[i], frame)
          BY <4>1, IdleFrames
        <4> QED
          BY <4>2 DEF frame
      <3>10. ASSUME NEW g \in FrameType, GoesOn(tasks, g)
             PROVE  GoesOn(tasks', g) /\ \A i \in DOMAIN frames : Clear(frames[i], g)
        <4>1. "CANCELLED" \notin EXPECTED
          BY StatesDiffer
        <4>2. g.op = "complete" /\ g.task \in DOMAIN tasks' /\ tasks'[g.task].state = "CANCELLED" =>
                 g.task \in DOMAIN tasks /\ tasks[g.task].state = "CANCELLED"
          BY <2>3, <3>2, <4>1 DEF SameOrExpected
        <4>3. GoesOn(tasks', g)
          BY <1>2, <2>3, <3>2, <3>10, <4>2, StillGoesOn DEF Onward
        <4> QED
          BY <3>4, <3>5, <4>3, IdleFrames
      <3>11. OnwardInv'
        BY <1>1, <3>5, <3>6, <3>7, <3>8, <3>9, <3>10, CallGoesOn
      <3> QED
        BY <3>8, <3>11 DEF GoesForward
    <2> QED
      BY <2>1, <2>2, <2>3
  <1> QED
    BY <1>3, <1>4

\* An update hook that sets the state of its task: if the task is not to run, it was not
\* READY before.
LEMMA HookOnward ==
  ASSUME IInv, ReachInv, OnwardInv, NEW kinds, Hook(kinds),
         \/ SetReady(Top.task)
         \/ SetWaiting(Top.task) /\ (kinds \subseteq Hesitant \/ tasks[Top.task].state # "READY")
  PROVE  GoesForward
  <1> DEFINE t == Top.task
  <1>1. calls # <<>> /\ Top.op = "hook" /\ t \in DOMAIN tasks /\ Kind(tasks[t].spec) \in kinds
    BY DEF Hook, Doing, Top
  <1>2. /\ Tree(tasks, Specs) /\ Reach(tasks) /\ Top \in FrameType /\ FrameOK(tasks, Top)
        /\ GoesOn(tasks, Top) /\ Guessed(tasks)
    BY <1>1, InProgress, RestGoesOn DEF OnwardInv
  <1>3. tasks[t].state \in {"MAYBE", "LIKELY", "FUTURE", "WAITING", "READY"}
    BY <1>1, <1>2, StatesDiffer DEF FrameOK, LiveIn, Reach
  <1>4. kinds \subseteq Hesitant => tasks[t].state # "READY"
    BY <1>1, <1>2 DEF GoesOn, Settled
  <1>5. PICK state \in {"READY", "WAITING"} :
           /\ tasks' = SetState(tasks, {t}, state) /\ Return
           /\ state = "WAITING" => tasks[t].state # "READY"
    <2>1. CASE SetReady(t)
      <3>1. tasks' = SetState(tasks, {t}, "READY")
        BY <1>1, <1>3, <2>1 DEF SetReady, Ready, In
      <3> QED
        BY <2>1, <3>1 DEF SetReady
    <2>2. CASE ~SetReady(t)
      BY <1>4, <2>2 DEF SetWaiting
    <2> QED
      BY <2>1, <2>2
  <1>6. Rank(state) >= Rank(tasks[t].state) /\ state \in ANY \ PREDICTED
    BY <1>3, <1>5, Ranks, StatesDiffer
  <1>7. Guessed(tasks') /\ Forward(tasks, tasks')
    <2>1. \A d \in {t} \intersect DOMAIN tasks : Rank(state) >= Rank(tasks[d].state)
      BY <1>6
    <2>2. Onward(tasks, SetState(tasks, {t}, state))
      BY <1>2, <1>6, <2>1, SetStraight
    <2> QED
      BY <1>2, <1>5, <2>2 DEF Onward
  <1>8. ASSUME NEW g \in FrameType, GoesOn(tasks, g), Clear(Top, g), Top.op \in Over(g.op)
        PROVE  GoesOn(tasks', g)
    <2>1. g.op \notin {"predict", "hook", "join", "complete"}
      BY <1>1, <1>8, BelowOthers DEF Ops
    <2>2. ASSUME NEW c \in g.todo, g.op = "children" PROVE Settled(tasks', c)
      <3>1. c # t /\ Settled(tasks, c)
        BY <1>1, <1>8, <2>2 DEF Clear, GoesOn
      <3>2. /\ DOMAIN tasks' = DOMAIN tasks
            /\ c \in DOMAIN tasks => /\ tasks'[c].state = tasks[c].state
                                     /\ tasks'[c].spec = tasks[c].spec
        BY <1>2, <1>5, <3>1, SetStateEffect
      <3> QED
        BY <3>1, <3>2 DEF Settled
    <2> QED
      BY <2>1, <2>2 DEF GoesOn
  <1>9. OnwardInv'
    BY <1>1, <1>5, <1>7, <1>8, ReturnGoesOn
  <1> QED
    BY <1>7, <1>9 DEF GoesForward

LEMMA UpdateOnward ==
  ASSUME IInv, ReachInv, OnwardInv,
         UpdateSimple \/ UpdateFails \/ UpdateExecute \/ UpdateGate \/ UpdateAcquire
  PROVE  GoesForward
  <1>1. CASE UpdateSimple
    BY <1>1, HookOnward DEF UpdateSimple
  <1>2. CASE UpdateFails
    BY <1>2, RaiseOnward DEF UpdateFails
  <1>3. {"Execute"} \subseteq Hesitant /\ {"Gate"} \subseteq Hesitant /\ {"AcquireMutex"} \subseteq Hesitant
    BY DEF Hesitant
  <1>4. CASE UpdateExecute
    BY <1>3, <1>4, HookOnward DEF UpdateExecute
  <1>5. CASE UpdateGate
    BY <1>3, <1>5, HookOnward DEF UpdateGate
  <1>6. CASE UpdateAcquire
    BY <1>3, <1>6, HookOnward DEF UpdateAcquire
  <1> QED
    BY <1>1, <1>2, <1>4, <1>5, <1>6

\* Nothing has changed in the tree, and the top frame makes way for others.
LEMMA PushOnward ==
  ASSUME IInv, ReachInv, OnwardInv, calls # <<>>, UNCHANGED tasks,
         NEW frames \in Seq(FrameType), calls' = frames \o Tail(calls),
         AllGoOn(tasks, frames), AllClear(frames),
         \A g \in FrameType :
            FrameOK(tasks, g) /\ GoesOn(tasks, g) /\ Clear(Top, g) /\ Top.op \in Over(g.op) =>
               \A i \in DOMAIN frames : Clear(frames[i], g)
  PROVE  GoesForward
  <1>1. Forward(tasks, tasks')
    BY InProgress, UnchangedOnward DEF Onward
  <1>2. Guessed(tasks')
    BY DEF OnwardInv
  <1>3. AllGoOn(tasks', frames)
    OBVIOUS
  <1>4. \A g \in FrameType :
           FrameOK(tasks, g) /\ GoesOn(tasks, g) /\ Clear(Top, g) /\ Top.op \in Over(g.op) =>
              GoesOn(tasks', g) /\ \A i \in DOMAIN frames : Clear(frames[i], g)
    OBVIOUS
  <1>5. OnwardInv'
    BY <1>2, <1>3, <1>4, TopGoesOn
  <1> QED
    BY <1>1, <1>5 DEF GoesForward

LEMMA UpdateJoinOnward ==
  ASSUME IInv, ReachInv, OnwardInv, UpdateJoin
  PROVE  GoesForward
  <1> DEFINE j       == Top.task
             s       == tasks[j].spec
             waiting == WaitingTasks(tasks, j)
             first   == IF Net[s].cancel
                        THEN [i \in DOMAIN waiting |-> Frame("cancel", j, waiting[i])]
                        ELSE <<>>
             joining == Frame("join", j, {})
             fire    == <<joining>>
             both    == first \o fire
  <1>1. /\ calls # <<>> /\ Top.op = "hook" /\ Hook({"Join"})
        /\ j \in DOMAIN tasks /\ Tree(tasks, Specs) /\ j \in Path
    BY InProgress, StateTyped DEF UpdateJoin, Hook, Doing, Top
  <1>2. \/ Return /\ UNCHANGED tasks
        \/ Raise
        \/ SetWaiting(j) /\ tasks[j].state # "READY"
        \/ UNCHANGED tasks /\ (ReturnTo(fire) \/ ReturnTo(both))
    BY DEF UpdateJoin, In
  <1>3. joining \in FrameType /\ joining.op = "join"
    BY <1>1, FrameTyped DEF Ops, Frame
  <1>4. first \in Seq(FrameType) /\ \A i \in DOMAIN first : first[i].op = "cancel"
    BY <1>1, WaitingFrames, NoFrame
  <1> HIDE DEF first, joining
  <1>5. fire \in Seq(FrameType) /\ \A i \in DOMAIN fire : fire[i].op = "join"
    BY <1>3
  <1> HIDE DEF fire, waiting, s
  <1>6. both \in Seq(FrameType) /\ \A i \in DOMAIN both : both[i].op \in {"cancel", "join"}
    BY <1>4, <1>5, ConcatFrames
  <1> HIDE DEF both, j
  <1>7. ASSUME UNCHANGED tasks, NEW frames \in Seq(FrameType), ReturnTo(frames),
               \A i \in DOMAIN frames : frames[i].op \in {"cancel", "join"}
        PROVE  GoesForward
    <2>1. AllGoOn(tasks, frames) /\ AllClear(frames)
      BY <1>7, IdleFrames DEF AllGoOn, AllClear
    <2>2. ASSUME NEW g \in FrameType, Top.op \in Over(g.op), NEW i \in DOMAIN frames
          PROVE  Clear(frames[i], g)
      <3>1. g.op # "complete"
        BY <1>1, <2>2, BelowOthers DEF Ops
      <3> QED
        BY <1>7, <3>1, IdleFrames
    <2> QED
      BY <1>1, <1>7, <2>1, <2>2, PushOnward DEF ReturnTo
  <1> QED
    BY <1>1, <1>2, <1>5, <1>6, <1>7, ReturnOnward, RaiseOnward, HookOnward DEF j

LEMMA CancelNextOnward ==
  ASSUME IInv, ReachInv, OnwardInv, CancelNext
  PROVE  GoesForward
  <1>1. calls # <<>> /\ Top.op = "cancel"
    BY DEF CancelNext, Doing, Top
  <1>2. /\ Tree(tasks, Specs) /\ Top \in FrameType
        /\ Tree(tasks', Specs) /\ Top.todo \in SUBSET Path
    BY <1>1, InProgress, StackTyped, OrderlyIInv, IInvSplitPrime DEF OrderlyNext, Step
  <1>3. CASE Top.todo = {}
    BY <1>1, <1>3, ReturnOnward DEF CancelNext
  <1>4. CASE Top.todo # {}
    <2> DEFINE none == <<>>
    <2>1. PICK t \in Top.todo :
            /\ CallWith(none, Top.todo \ {t})
            /\ tasks' = IF t \in DOMAIN tasks THEN CancelBranch(tasks, t) ELSE tasks
      BY <1>4 DEF CancelNext
    <2>2. Shrunk(tasks, tasks')
      BY <1>2, <2>1, CancelBranchShrunk DEF Shrunk
    <2>3. Onward(tasks, tasks') /\ NothingPasses(tasks, tasks')
      BY <1>2, <2>2, ShrunkOnward
    <2>4. ASSUME NEW g \in FrameType, GoesOn(tasks, g), Clear(Top, g)
          PROVE  GoesOn(tasks', g)
      <3>1. ASSUME g.op = "complete", g.task \in DOMAIN tasks', tasks'[g.task].state = "CANCELLED"
            PROVE  g.task \in DOMAIN tasks /\ tasks[g.task].state = "CANCELLED"
        <4>1. t # g.task /\ ~Above(t, g.task)
          BY <1>1, <2>4, <3>1 DEF Clear, Spares
        <4>2. g.task \in DOMAIN tasks
          BY <2>2, <3>1 DEF Shrunk
        <4> QED
          BY <1>2, <2>1, <3>1, <4>1, <4>2, CancelSpares
      <3> QED
        BY <1>2, <2>3, <2>4, <3>1, StillGoesOn DEF Onward
    <2>5. LET frame == [Top EXCEPT !.todo = Top.todo \ {t}]
          IN  GoesOn(tasks', frame)
      <3> DEFINE frame == [Top EXCEPT !.todo = Top.todo \ {t}]
      <3>1. frame.op = "cancel"
        BY <1>1, <1>2 DEF FrameType
      <3> HIDE DEF frame
      <3>2. GoesOn(tasks', frame)
        BY <3>1, IdleFrames
      <3> QED
        BY <3>2 DEF frame
    <2>6. Guessed(tasks') /\ Forward(tasks, tasks')
      BY <2>3 DEF Onward, OnwardInv
    <2>7. /\ none \in Seq(FrameType) /\ DOMAIN none = {} /\ AllGoOn(tasks', none) /\ AllClear(none)
          /\ Top.todo \ {t} \in SUBSET Path /\ Top.todo \ {t} \subseteq Top.todo
      BY <1>2, NoneGoesOn
    <2> HIDE DEF none
    <2>8. OnwardInv'
      BY <1>1, <2>1, <2>4, <2>5, <2>6, <2>7, CallGoesOn
    <2> QED
      BY <2>6, <2>8 DEF GoesForward
  <1> QED
    BY <1>3, <1>4

LEMMA JoinFiresOnward ==
  ASSUME IInv, ReachInv, FiringInv, OnwardInv, JoinFires
  PROVE  GoesForward
  <1> DEFINE j     == Top.task
             found == OtherInstances(tasks, j)
             V     == DropChildren(tasks, found)
             W     == SetState(V, found \intersect DOMAIN V, "CANCELLED")
  <1>1. /\ calls # <<>> /\ Top.op = "join" /\ Top = calls[1] /\ j \in DOMAIN tasks /\ Return
        /\ tasks' = Ready(W, j) /\ calls \in Seq(FrameType)
    BY IInvSplit DEF JoinFires, DoJoin, Doing, Top
  <1>2. /\ Tree(tasks, Specs) /\ Reach(tasks) /\ Top \in FrameType /\ FrameOK(tasks, Top)
        /\ Tree(tasks', Specs)
    BY <1>1, InProgress, OrderlyIInv, IInvSplitPrime DEF OrderlyNext, Step
  <1>3. Kind(tasks[j].spec) = "Join"
    <2>1. 1 \in DOMAIN calls
      BY <1>1
    <2> QED
      BY <1>1, <2>1 DEF FiringInv
  <1>4. found \in SUBSET Path
    BY <1>2 DEF OtherInstances, Instances, OfSpec, Tree, IsTree
  <1> HIDE DEF found
  <1>5. Tree(V, Specs) /\ Shrunk(tasks, V)
    BY <1>2, <1>4, DropChildrenTree, DropChildrenShrunk
  <1> HIDE DEF V
  <1>6. Tree(W, Specs) /\ Shrunk(tasks, W)
    BY <1>5, SetStateTree, SetStateEffect, StatesDiffer DEF Shrunk
  <1> HIDE DEF W
  <1>7. Reach(W) /\ FrameOK(W, Top) /\ Onward(tasks, W) /\ NothingPasses(tasks, W)
    BY <1>1, <1>2, <1>6, ShrunkReach, ShrunkFrame, ShrunkOnward
  <1>8. /\ Onward(W, tasks') /\ Forward(tasks, tasks') /\ SameSpecs(tasks, tasks')
        /\ NothingPasses(tasks, tasks')
    <2>1. CASE tasks' = W
      BY <1>6, <1>7, <2>1, UnchangedOnward DEF Onward
    <2>2. CASE tasks' # W
      <3>1. /\ j \in DOMAIN W /\ W[j].state \notin {"COMPLETED", "CANCELLED"}
            /\ tasks' = SetState(W, {j}, "READY")
        BY <1>1, <2>2 DEF Ready, In
      <3>2. W[j].state \in {"MAYBE", "LIKELY", "FUTURE", "WAITING", "READY"}
        BY <1>1, <1>7, <3>1, StatesDiffer DEF FrameOK, LiveIn, Reach
      <3>3. Rank("READY") >= Rank(W[j].state) /\ "READY" \in ANY \ PREDICTED
        BY <3>2, Ranks, StatesDiffer
      <3>4. \A d \in {j} \intersect DOMAIN W : Rank("READY") >= Rank(W[d].state)
        BY <3>3
      <3>5. Onward(W, tasks')
        BY <1>6, <3>1, <3>3, <3>4, SetStraight
      <3>6. /\ DOMAIN tasks' = DOMAIN W
            /\ \A d \in DOMAIN W : /\ tasks'[d].spec = W[d].spec
                                   /\ tasks'[d].state = IF d \in {j} THEN "READY" ELSE W[d].state
        BY <1>6, <3>1, SetStateEffect
      <3>7. tasks[j].state = W[j].state
        BY <1>6, <3>1 DEF Shrunk
      <3>8. SameSpecs(tasks, tasks')
        BY <3>6, <1>7 DEF Onward, SameSpecs
      <3>9. Forward(tasks, tasks')
        BY <1>7, <3>3, <3>6, <3>7 DEF Onward, Forward
      <3>10. Kind(tasks'[j].spec) \notin Hesitant
        <4>1. j \in DOMAIN tasks'
          BY <3>1, <3>6
        <4> QED
          BY <1>1, <1>3, <3>8, <4>1 DEF SameSpecs, Hesitant
      <3>11. NothingPasses(tasks, tasks')
        BY <1>7, <3>6, <3>10 DEF NothingPasses
      <3> QED
        BY <3>5, <3>8, <3>9, <3>11
    <2> QED
      BY <2>1, <2>2
  <1>9. Guessed(tasks')
    BY <1>7, <1>8 DEF Onward, OnwardInv
  <1>10. ASSUME NEW g \in FrameType, GoesOn(tasks, g), Top.op \in Over(g.op)
         PROVE  GoesOn(tasks', g)
    <2>1. g.op # "complete"
      BY <1>1, <1>10, BelowOthers DEF Ops
    <2> QED
      BY <1>2, <1>8, <1>10, <2>1, StillGoesOn
  <1>11. OnwardInv'
    BY <1>1, <1>9, <1>10, ReturnGoesOn
  <1> QED
    BY <1>8, <1>11 DEF GoesForward

LEMMA CompleteTaskOnward ==
  ASSUME IInv, ReachInv, OnwardInv, CompleteTask
  PROVE  GoesForward
  <1> DEFINE t == Top.task
             f == Frame("children", t, Children(tasks, t))
             g == Frame("visit", t, {Root})
             h == Frame("finish", t, {})
             frames == <<f, g, h>>
  <1>1. /\ calls # <<>> /\ Top.op = "complete" /\ calls' = frames \o Tail(calls)
        /\ tasks' = SetState(tasks, {t}, "COMPLETED")
    BY DEF CompleteTask, Doing, Top, ReturnTo
  <1>2. Tree(tasks, Specs) /\ t \in Path /\ Top \in FrameType /\ FrameOK(tasks, Top) /\ GoesOn(tasks, Top)
    BY <1>1, InProgress, StackTyped, RestGoesOn
  <1>3. /\ f \in FrameType /\ g \in FrameType /\ h \in FrameType
        /\ f.op = "children" /\ g.op = "visit" /\ h.op = "finish"
        /\ f.todo = Children(tasks, t)
    BY <1>2, ChildrenTyped, RootPath, FrameTyped DEF Ops, Frame
  <1> HIDE DEF f, g, h
  <1>4. /\ frames \in Seq(FrameType) /\ DOMAIN frames = 1..3
        /\ frames[1] = f /\ frames[2] = g /\ frames[3] = h
    BY <1>3
  <1> HIDE DEF frames
  <1>5. /\ DOMAIN tasks' = DOMAIN tasks
        /\ \A d \in DOMAIN tasks : /\ tasks'[d].spec = tasks[d].spec
                                   /\ d # t => tasks'[d].state = tasks[d].state
    BY <1>1, <1>2, SetStateEffect
  <1>6. Guessed(tasks') /\ Forward(tasks, tasks')
    <2>1. ASSUME NEW d \in {t} \intersect DOMAIN tasks
          PROVE  \/ Rank("COMPLETED") >= Rank(tasks[d].state)
                 \/ Kind(tasks[d].spec) = "Cancel" /\ "COMPLETED" \in FINISHED
      <3>1. tasks[t].state \in {"READY", "CANCELLED"}
        BY <1>1, <1>2, <2>1 DEF FrameOK, LiveIn
      <3>2. tasks[t].state = "CANCELLED" => Kind(tasks[t].spec) = "Cancel"
        BY <1>1, <1>2, <2>1 DEF GoesOn
      <3> QED
        BY <3>1, <3>2, Ranks, StatesDiffer
    <2>2. Onward(tasks, SetState(tasks, {t}, "COMPLETED"))
      BY <1>2, <2>1, SetStraight, StatesDiffer
    <2> QED
      BY <1>1, <2>2 DEF Onward, OnwardInv
  <1>7. GoesOn(tasks', f)
    <2>1. ASSUME NEW c \in Children(tasks, t) PROVE Settled(tasks', c)
      <3>1. c \in DOMAIN tasks /\ c # Root /\ Parent(c) = t
        BY DEF Children
      <3>2. c # t
        BY <1>2, <3>1, ParentLive
      <3>3. Settled(tasks, c)
        BY <1>1, <1>2 DEF GoesOn
      <3> QED
        BY <1>5, <3>1, <3>2, <3>3 DEF Settled
    <2> QED
      BY <1>3, <2>1 DEF GoesOn
  <1>8. AllGoOn(tasks', frames) /\ AllClear(frames)
    <2>1. AllGoOn(tasks', frames)
      <3>1. GoesOn(tasks', g) /\ GoesOn(tasks', h)
        BY <1>3, IdleFrames
      <3> QED
        BY <1>4, <1>7, <3>1 DEF AllGoOn
    <2>2. AllClear(frames)
      <3> SUFFICES ASSUME NEW i \in DOMAIN frames, NEW k \in DOMAIN frames, i < k
                   PROVE  Clear(frames[i], frames[k])
        BY DEF AllClear
      <3>1. k \in {2, 3}
        BY <1>4
      <3>2. frames[k].op \notin {"children", "complete"}
        BY <1>3, <1>4, <3>1
      <3> QED
        BY <3>2, IdleFrames
    <2> QED
      BY <2>1, <2>2
  <1>9. \A x \in FrameType : Top.op \notin Over(x.op)
    BY <1>1, OverOps DEF FrameType
  <1>10. OnwardInv'
    BY <1>1, <1>4, <1>6, <1>8, <1>9, TopGoesOn
  <1> QED
    BY <1>6, <1>10 DEF GoesForward

LEMMA UpdateFramesGoOn ==
  ASSUME NEW t \in Path, Settled(tasks, t)
  PROVE  /\ UpdateFrames(t) \in Seq(FrameType)
         /\ AllGoOn(tasks, UpdateFrames(t)) /\ AllClear(UpdateFrames(t))
         /\ \A i \in DOMAIN UpdateFrames(t) :
               LET f == UpdateFrames(t)[i]
               IN  f.op = "predict" \/ (f.op = "hook" /\ f.task = t)
  <1> DEFINE f == PredictFrame(t, {t}, 0, PREDICTED)
             g == Frame("hook", t, {})
             a == IF In(tasks, t, PREDICTED) THEN <<f>> ELSE <<>>
             b == <<g>>
             d == a \o b
  <1>1. f \in FrameType /\ g \in FrameType /\ f.op = "predict" /\ g.op = "hook" /\ g.task = t
    BY PredictFrameTyped, FrameTyped, MasksTyped DEF PredictFrame, Frame, Ops
  <1>2. UpdateFrames(t) = d
    BY DEF UpdateFrames
  <1> HIDE DEF f, g
  <1>3. GoesOn(tasks, g)
    BY <1>1 DEF GoesOn
  <1>4. /\ a \in Seq(FrameType) /\ AllGoOn(tasks, a) /\ AllClear(a)
        /\ \A i \in DOMAIN a : a[i] = f
    BY <1>1, IdleFrames, OneGoesOn, NoneGoesOn, NoFrame
  <1>5. /\ b \in Seq(FrameType) /\ AllGoOn(tasks, b) /\ AllClear(b)
        /\ \A i \in DOMAIN b : b[i] = g
    BY <1>1, <1>3, OneGoesOn
  <1> HIDE DEF a, b
  <1>6. \A i \in DOMAIN a : \A k \in DOMAIN b : Clear(a[i], b[k])
    BY <1>1, <1>4, <1>5, IdleFrames
  <1>7. AllGoOn(tasks, d) /\ AllClear(d)
    BY <1>4, <1>5, <1>6, GoOnConcat
  <1>8. /\ d \in Seq(FrameType)
        /\ \A i \in DOMAIN d : d[i] = f \/ d[i] = g
    BY <1>4, <1>5, ConcatFrames
  <1> HIDE DEF d
  <1>9. ASSUME NEW i \in DOMAIN d
        PROVE  d[i].op = "predict" \/ (d[i].op = "hook" /\ d[i].task = t)
    BY <1>1, <1>8
  <1> QED
    BY <1>2, <1>7, <1>8, <1>9

\* What a loop goes on with when it has updated one task.
LEMMA LoopOnward ==
  ASSUME IInv, ReachInv, OnwardInv, calls # <<>>, UNCHANGED tasks,
         Top.op \in {"children", "visit"}, NEW c \in Path, NEW S \in SUBSET Path,
         \/ CallWith(<<>>, S)
         \/ CallWith(UpdateFrames(c), S) /\ Settled(tasks, c)
               /\ (Top.op = "children" => c \notin S),
         Top.op = "children" => \A d \in S : Settled(tasks, d)
  PROVE  GoesForward
  <1> DEFINE none  == <<>>
             frame == [Top EXCEPT !.todo = S]
  <1>1. PICK frames \in Seq(FrameType) :
          /\ CallWith(frames, S) /\ AllGoOn(tasks, frames) /\ AllClear(frames)
          /\ \A i \in DOMAIN frames :
                \/ frames[i].op = "predict"
                \/ /\ frames[i].op = "hook" /\ frames[i].task = c
                   /\ Top.op = "children" => c \notin S
    <2>1. CASE CallWith(none, S)
      BY <2>1, NoneGoesOn, NoFrame
    <2>2. CASE ~CallWith(none, S)
      BY <2>2, UpdateFramesGoOn
    <2> QED
      BY <2>1, <2>2
  <1>2. /\ frame.op = Top.op /\ frame.todo = S
    BY InProgress DEF FrameType
  <1>3. GoesOn(tasks, frame)
    <2> HIDE DEF frame
    <2> QED
      BY <1>2 DEF GoesOn
  <1>4. \A i \in DOMAIN frames : Clear(frames[i], frame)
    <2> HIDE DEF frame
    <2> QED
      BY <1>1, <1>2 DEF Clear
  <1> HIDE DEF frame
  <1>5. ASSUME NEW g \in FrameType, Clear(Top, g), Top.op \in Over(g.op), NEW i \in DOMAIN frames
        PROVE  Clear(frames[i], g)
    <2>1. g.op # "complete"
      BY <1>5, BelowOthers DEF Ops
    <2>2. g.op # "children"
      BY <1>5 DEF Clear
    <2> QED
      BY <2>1, <2>2, IdleFrames
  <1>6. Forward(tasks, tasks')
    BY InProgress, UnchangedOnward DEF Onward
  <1>7. Guessed(tasks') /\ AllGoOn(tasks', frames) /\ GoesOn(tasks', frame)
    BY <1>1, <1>3 DEF OnwardInv
  <1>8. \A g \in FrameType :
           FrameOK(tasks, g) /\ GoesOn(tasks, g) /\ Clear(Top, g) /\ Top.op \in Over(g.op) =>
              GoesOn(tasks', g) /\ \A i \in DOMAIN frames : Clear(frames[i], g)
    BY <1>5
  <1>9. Top.op # "cancel" /\ CallWith(frames, S)
    BY <1>1
  <1>10. OnwardInv'
    BY <1>1, <1>4, <1>7, <1>8, <1>9, CallGoesOn DEF frame
  <1> QED
    BY <1>6, <1>10 DEF GoesForward

LEMMA ChildrenNextOnward ==
  ASSUME IInv, ReachInv, OnwardInv, ChildrenNext
  PROVE  GoesForward
  <1>1. calls # <<>> /\ Top.op = "children" /\ UNCHANGED tasks
    BY DEF ChildrenNext, Doing, Top
  <1>2. Top.todo \in SUBSET Path /\ \A c \in Top.todo : Settled(tasks, c)
    BY <1>1, InProgress, StackTyped, RestGoesOn DEF GoesOn
  <1>3. CASE Top.todo = {}
    BY <1>1, <1>3, ReturnOnward DEF ChildrenNext
  <1>4. CASE Top.todo # {}
    <2>1. PICK c \in Top.todo :
            CallWith(IF In(tasks, c, FINISHED) THEN <<>> ELSE UpdateFrames(c), Top.todo \ {c})
      BY <1>4 DEF ChildrenNext
    <2>2. CallWith(<<>>, Top.todo \ {c}) \/ CallWith(UpdateFrames(c), Top.todo \ {c})
      BY <2>1
    <2>3. Top.todo \ {c} \in SUBSET Path /\ c \in Path
      BY <1>2
    <2> QED
      BY <1>1, <1>2, <2>2, <2>3, LoopOnward
  <1> QED
    BY <1>3, <1>4

LEMMA VisitNextOnward ==
  ASSUME IInv, ReachInv, OnwardInv, VisitNext
  PROVE  GoesForward
  <1>1. calls # <<>> /\ Top.op = "visit" /\ UNCHANGED tasks
    BY DEF VisitNext, Doing, Top
  <1>2. Top.todo \in SUBSET Path /\ Tree(tasks, Specs)
    BY <1>1, InProgress, StackTyped
  <1>3. CASE Top.todo = {}
    BY <1>1, <1>3, ReturnOnward DEF VisitNext
  <1>4. CASE Top.todo # {}
    <2>1. PICK t \in Top.todo :
            IF t \in DOMAIN tasks
            THEN CallWith(IF In(tasks, t, {"WAITING"}) THEN UpdateFrames(t) ELSE <<>>,
                          (Top.todo \ {t})
                              \union (IF In(tasks, t, PREDICTED) THEN {}
                                      ELSE Children(tasks, t)))
            ELSE CallWith(<<>>, Top.todo \ {t})
      BY <1>4 DEF VisitNext
    <2>2. t \in Path /\ Top.todo \ {t} \in SUBSET Path /\ Children(tasks, t) \in SUBSET Path
      BY <1>2, ChildrenTyped
    <2>3. PICK S \in SUBSET Path :
            CallWith(<<>>, S) \/ (CallWith(UpdateFrames(t), S) /\ In(tasks, t, {"WAITING"}))
      BY <2>1, <2>2
    <2>4. In(tasks, t, {"WAITING"}) => Settled(tasks, t)
      BY DEF In, Settled
    <2> QED
      BY <1>1, <2>2, <2>3, <2>4, LoopOnward
  <1> QED
    BY <1>3, <1>4

LEMMA StepOnward ==
  ASSUME IInv, ReachInv, FiringInv, OnwardInv, Step
  PROVE  GoesForward
  <1>1. CASE Finish
    BY <1>1, ReturnOnward DEF Finish, Doing
  <1> QED
    BY <1>1, PredictOnward, UpdateOnward, UpdateJoinOnward, CancelNextOnward, JoinFiresOnward,
       CompleteTaskOnward, ChildrenNextOnward, VisitNextOnward DEF Step

-----------------------------------------------------------------------------
(* Running a task, and the other methods                                   *)

\* A run ends with what completes the task, above which nothing cancels it.
LEMMA RunOnward ==
  ASSUME NEW t \in Path, NEW frames \in Seq(FrameType), RunWith(t, frames),
         \A i \in DOMAIN frames :
            /\ frames[i].op \in {"predict", "cancel"}
            /\ frames[i].op = "cancel" => Spares(frames[i], t),
         Guessed(tasks'), GoesOn(tasks', Frame("complete", t, {}))
  PROVE  OnwardInv'
  <1> DEFINE f    == Frame("complete", t, {})
             done == <<f>>
  <1>1. f \in FrameType /\ f.op = "complete" /\ f.task = t /\ GoesOn(tasks', f)
    BY FrameTyped DEF Ops, Frame
  <1>2. calls' = frames \o done
    BY DEF RunWith
  <1> HIDE DEF f
  <1>3. /\ done \in Seq(FrameType) /\ AllClear(done) /\ AllGoOn(tasks', done)
        /\ \A k \in DOMAIN done : done[k] = f
    BY <1>1, OneGoesOn
  <1> HIDE DEF done
  <1>4. ASSUME NEW i \in DOMAIN frames PROVE GoesOn(tasks', frames[i]) /\ Clear(frames[i], f)
    BY <1>1, IdleFrames DEF Clear
  <1>5. ASSUME NEW i \in DOMAIN frames, NEW k \in DOMAIN frames PROVE Clear(frames[i], frames[k])
    BY IdleFrames
  <1>6. AllGoOn(tasks', frames) /\ AllClear(frames)
    BY <1>4, <1>5 DEF AllGoOn, AllClear
  <1> QED
    BY <1>2, <1>3, <1>4, <1>6, GoOnConcat DEF OnwardInv

\* Nothing has been reached below a task that runs.
LEMMA RunGoesOn ==
  ASSUME NEW T, Tree(T, Specs), Reach(T), NEW t \in DOMAIN T, T[t].state = "READY",
         NEW U, Tree(U, Specs), NothingPasses(T, U),
         t \in DOMAIN U /\ U[t].state = "CANCELLED" => Kind(U[t].spec) = "Cancel"
  PROVE  GoesOn(U, Frame("complete", t, {}))
  <1>1. ASSUME NEW c \in Children(U, t) PROVE Settled(U, c)
    <2> SUFFICES ASSUME U[c].state = "READY", Kind(U[c].spec) \in Hesitant PROVE FALSE
      BY DEF Settled
    <2>1. c \in DOMAIN U /\ c # Root /\ Parent(c) = t
      BY DEF Children
    <2>2. c \in DOMAIN T /\ T[c].state = "READY"
      BY <2>1 DEF NothingPasses
    <2>3. T[t].state \in FINISHED
      <3>1. Above(t, c) /\ c \in Path
        BY <2>1, <2>2, ParentLive, AboveParent
      <3> QED
        BY <2>2, <3>1 DEF Reach, Attached, REACHED
    <2> QED
      BY <2>3, StatesDiffer
  <1> QED
    BY <1>1 DEF GoesOn, Frame

LEMMA SmoothRun ==
  ASSUME IInv, IInv', ReachInv, OnwardInv, NEW t, NEW kinds, Running(t, kinds),
         Onward(tasks, tasks'), NothingPasses(tasks, tasks'),
         t \in DOMAIN tasks' /\ tasks'[t].state = "CANCELLED" => Kind(tasks'[t].spec) = "Cancel",
         NEW frames \in Seq(FrameType), RunWith(t, frames),
         \A i \in DOMAIN frames :
            /\ frames[i].op \in {"predict", "cancel"}
            /\ frames[i].op = "cancel" => Spares(frames[i], t)
  PROVE  GoesForward
  <1>1. /\ Tree(tasks, Specs) /\ Tree(tasks', Specs) /\ Reach(tasks)
        /\ t \in DOMAIN tasks /\ t \in Path /\ tasks[t].state = "READY"
    BY RunnableReach, IInvSplitPrime
  <1>2. GoesOn(tasks', Frame("complete", t, {}))
    BY <1>1, RunGoesOn
  <1>3. Guessed(tasks') /\ Forward(tasks, tasks')
    BY DEF Onward, OnwardInv
  <1>4. OnwardInv'
    BY <1>1, <1>2, <1>3, RunOnward
  <1> QED
    BY <1>3, <1>4 DEF GoesForward

LEMMA RaisedOnward ==
  ASSUME NEW T, Tree(T, Specs), NEW t \in DOMAIN T, T[t].state = "READY", Guessed(T), calls = <<>>,
         tasks' = SetState(T, {t}, "ERROR"), UNCHANGED calls
  PROVE  OnwardInv' /\ Forward(T, tasks')
  <1>1. "ERROR" \in ANY \ PREDICTED /\ Rank("ERROR") >= Rank("READY")
    BY Ranks, StatesDiffer
  <1>2. \A d \in {t} \intersect DOMAIN T :
           \/ Rank("ERROR") >= Rank(T[d].state)
           \/ Kind(T[d].spec) = "Cancel" /\ "ERROR" \in FINISHED
    BY <1>1
  <1>3. Onward(T, tasks')
    BY <1>1, <1>2, SetStraight
  <1>4. calls' = <<>> /\ Guessed(tasks') /\ Forward(T, tasks')
    BY <1>3 DEF Onward
  <1> QED
    BY <1>4, NoneGoesOn DEF OnwardInv

LEMMA RunRaisesOnward ==
  ASSUME IInv, ReachInv, OnwardInv, NEW t, NEW kinds, Running(t, kinds), RunRaises(t)
  PROVE  GoesForward
  <1>1. /\ Tree(tasks, Specs) /\ t \in DOMAIN tasks /\ tasks[t].state = "READY"
        /\ calls = <<>> /\ Guessed(tasks)
    BY RunnableReach DEF OnwardInv
  <1>2. tasks' = SetState(tasks, {t}, "ERROR") /\ UNCHANGED calls
    BY DEF RunRaises
  <1> QED
    BY <1>1, <1>2, RaisedOnward DEF GoesForward

\* A run that synchronizes the children of its task.
LEMMA SyncOnward ==
  ASSUME IInv, IInv', ReachInv, OnwardInv, NEW t, NEW kinds, Running(t, kinds),
         NEW outs, NEW n, Gapped(outs, n), NEW looked \in {0, 1},
         \/ RunSplit(t, outs, n, looked)
         \/ RunRaises(t)
         \/ tasks' = SyncChildren(tasks, t, outs, n, "FUTURE") /\ RunWith(t, <<>>)
  PROVE  GoesForward
  <1> DEFINE mask   == PREDICTED \union {"FUTURE"}
             S      == InState(tasks', mask) \intersect Children(tasks', t)
             f      == PredictFrame(t, S, looked, mask)
             frames == <<f>>
             none   == <<>>
             U      == SyncChildren(tasks, t, outs, n, "FUTURE")
  <1>1. /\ Tree(tasks, Specs) /\ Tree(tasks', Specs) /\ Reach(tasks)
        /\ t \in DOMAIN tasks /\ t \in Path /\ tasks[t].state = "READY" /\ tasks[t].state \notin FINISHED
    BY RunnableReach, IInvSplitPrime, StatesDiffer
  <1>2. S \in SUBSET Path /\ mask \in SUBSET ANY /\ looked \in Nat
    BY <1>1, ChildrenTyped, MasksTyped
  <1>3. Tree(U, Specs) /\ Grown(tasks, U, t, {"FUTURE"})
    <2>1. "FUTURE" \in ANY
      BY StatesDiffer
    <2> QED
      BY <1>1, <2>1, SyncChildrenTree DEF Gapped
  <1>4. RunRaises(t) \/ (tasks' = U /\ (RunWith(t, frames) \/ RunWith(t, none)))
    BY DEF RunSplit
  <1> HIDE DEF S, mask, U
  <1>5. f \in FrameType /\ f.op = "predict"
    BY <1>1, <1>2, PredictFrameTyped DEF PredictFrame
  <1> HIDE DEF f
  <1>6. /\ frames \in Seq(FrameType) /\ \A i \in DOMAIN frames : frames[i].op = "predict"
        /\ none \in Seq(FrameType) /\ DOMAIN none = {}
    BY <1>5
  <1> HIDE DEF frames, none
  <1>7. Onward(tasks, U) /\ NothingPasses(tasks, U)
    BY <1>1, <1>3, GrownOnward
  <1>8. t \in DOMAIN U => U[t].state # "CANCELLED"
    <2>1. t # Root => Parent(t) # t
      BY <1>1, ParentLive
    <2>2. t \in DOMAIN U => U[t].state \in {"READY", "FUTURE"}
      BY <1>1, <1>3, <2>1 DEF Grown
    <2> QED
      BY <2>2, StatesDiffer
  <1>9. CASE tasks' = U /\ RunWith(t, frames)
    BY <1>6, <1>7, <1>8, <1>9, SmoothRun
  <1>10. CASE tasks' = U /\ RunWith(t, none)
    BY <1>6, <1>7, <1>8, <1>10, SmoothRun
  <1> QED
    BY <1>4, <1>9, <1>10, RunRaisesOnward

LEMMA SplitsOnward ==
  ASSUME IInv, IInv', ReachInv, OnwardInv, NEW t,
         RunMultiChoice(t) \/ RunExclusiveChoice(t) \/ RunMultiInstance(t) \/ RunThreadSplit(t)
  PROVE  GoesForward
  <1> DEFINE s == tasks[t].spec
  <1>1. PICK kinds : Running(t, kinds)
    BY DEF RunMultiChoice, RunExclusiveChoice, RunMultiInstance, RunThreadSplit
  <1>2. s \in Specs
    BY <1>1, RunnableReach
  <1>3. CASE RunMultiChoice(t)
    <2>1. PICK matching \in SUBSET Net[s].cond :
             RunSplit(t, Pick(Outputs(s), (Specs \ Net[s].cond) \union matching),
                      Len(Outputs(s)), 0)
      BY <1>3 DEF RunMultiChoice
    <2>2. Gapped(Pick(Outputs(s), (Specs \ Net[s].cond) \union matching), Len(Outputs(s)))
      BY <1>2, PickGapped
    <2> HIDE DEF s
    <2> QED
      BY <1>1, <2>1, <2>2, SyncOnward
  <1>4. CASE RunExclusiveChoice(t)
    <2>1. Kind(s) = "ExclusiveChoice"
      BY <1>4 DEF RunExclusiveChoice, Running
    <2>2. PICK output \in Net[s].cond \union {Net[s].default} : RunSplit(t, <<output>>, 1, 0)
      BY <1>4 DEF RunExclusiveChoice
    <2>3. Gapped(<<output>>, 1)
      BY <1>2, <2>1, NetTyped DEF Gapped
    <2> HIDE DEF s
    <2> QED
      BY <1>1, <2>2, <2>3, SyncOnward
  <1>5. CASE RunMultiInstance(t) \/ RunThreadSplit(t)
    <2>1. PICK n \in Net[s].times :
             \/ RunSplit(t, PredictedOutputs(s, n), OutputCount(s, n), 1)
             \/ RunRaises(t)
             \/ /\ tasks' = SyncChildren(tasks, t, PredictedOutputs(s, n), OutputCount(s, n), "FUTURE")
                /\ RunWith(t, <<>>)
      BY <1>5 DEF RunMultiInstance, RunThreadSplit
    <2>2. Gapped(PredictedOutputs(s, n), OutputCount(s, n))
      BY <1>2, NetTyped, PredictedOutputsGapped
    <2> HIDE DEF s
    <2> QED
      BY <1>1, <2>1, <2>2, SyncOnward
  <1> QED
    BY <1>3, <1>4, <1>5

\* A ThreadStart makes its children READY at once, which none of them may mind.
LEMMA ThreadStartOnward ==
  ASSUME IInv, IInv', ReachInv, OnwardInv, NoneAtThreadStart(Hesitant),
         NEW t \in DOMAIN tasks, RunThreadStart(t)
  PROVE  GoesForward
  <1> DEFINE T    == AssignThread(tasks, t, threads + 1)
             outs == Outputs(tasks[t].spec)
             U    == SyncChildren(T, t, outs, Len(outs), "READY")
             none == <<>>
  <1>1. /\ Tree(tasks, Specs) /\ Reach(tasks) /\ tasks[t].spec \in Specs /\ t \in Path
        /\ tasks[t].state = "READY" /\ Kind(tasks[t].spec) = "ThreadStart" /\ threads + 1 \in Nat
        /\ calls = <<>> /\ Guessed(tasks)
    BY RunnableReach, IInvSplit DEF RunThreadStart, OthersTyped, OnwardInv
  <1>2. /\ Tree(T, Specs) /\ DOMAIN T = DOMAIN tasks
        /\ \A d \in DOMAIN tasks : T[d].state = tasks[d].state /\ T[d].spec = tasks[d].spec
    BY <1>1, AssignThreadTree
  <1>3. \/ tasks' = SetState(T, {t}, "ERROR") /\ UNCHANGED calls
        \/ tasks' = U /\ RunWith(t, none)
    BY DEF RunThreadStart
  <1>4. Gapped(outs, Len(outs))
    BY <1>1, OutputsGapped
  <1>5. \A i \in DOMAIN outs : outs[i] \in Follows(tasks[t].spec)
    BY DEF Follows
  <1> HIDE DEF T, outs
  <1>6. /\ \A d \in DOMAIN tasks \ {Root} : Parent(d) \in DOMAIN tasks
        /\ t # Root => Parent(t) # t
    BY <1>1, ParentLive
  <1>7. Reach(T)
    BY <1>1, <1>2, <1>6, Zenon DEF Reach, Attached
  <1>8. Guessed(T)
    BY <1>1, <1>2, <1>6 DEF Guessed
  <1>9. Tree(U, Specs) /\ Grown(T, U, t, {"READY"})
    <2>1. Len(outs) \in Nat /\ "READY" \in ANY /\ t \in DOMAIN T
      BY <1>2, <1>4, MasksTyped DEF Gapped
    <2> QED
      BY <1>2, <1>4, <2>1, SyncChildrenTree DEF Gapped
  <1>10. \A c \in Children(U, t) : U[c].spec \in Follows(tasks[t].spec)
    <2>1. Len(outs) \in Nat /\ "READY" \in ANY /\ t \in DOMAIN T
      BY <1>2, <1>4, MasksTyped DEF Gapped
    <2> QED
      BY <1>2, <1>4, <1>5, <2>1, SyncedFollow
  <1> HIDE DEF U
  <1>11. CASE tasks' = SetState(T, {t}, "ERROR") /\ UNCHANGED calls
    <2>1. OnwardInv' /\ Forward(T, tasks')
      BY <1>1, <1>2, <1>8, <1>11, RaisedOnward
    <2> QED
      BY <1>2, <2>1 DEF Forward, GoesForward
  <1>12. CASE tasks' = U /\ RunWith(t, none)
    <2>1. T[t].state \notin FINISHED
      BY <1>1, <1>2, StatesDiffer
    <2>2. Onward(T, U)
      BY <1>2, <1>7, <1>9, <2>1, GrownOnward
    <2>3. Guessed(tasks') /\ Forward(tasks, tasks')
      BY <1>2, <1>8, <1>12, <2>2 DEF Onward, Forward
    <2>4. t \in DOMAIN U => U[t].state # "CANCELLED"
      <3>1. t \in DOMAIN U => U[t].state = T[t].state
        BY <1>2, <1>6, <1>9 DEF Grown
      <3> QED
        BY <1>1, <1>2, <3>1, StatesDiffer
    <2>5. \A c \in Children(U, t) : Settled(U, c)
      BY <1>1, <1>10 DEF Settled, NoneAtThreadStart
    <2>6. GoesOn(tasks', Frame("complete", t, {}))
      BY <1>12, <2>4, <2>5 DEF GoesOn, Frame
    <2>7. none \in Seq(FrameType) /\ DOMAIN none = {}
      OBVIOUS
    <2> HIDE DEF none
    <2>8. OnwardInv'
      BY <1>1, <1>12, <2>3, <2>6, <2>7, RunOnward
    <2> QED
      BY <2>3, <2>8 DEF GoesForward
  <1> QED
    BY <1>3, <1>11, <1>12

\* A CancelTask cancels neither itself nor what is above it.
LEMMA CancelTaskOnward ==
  ASSUME IInv, IInv', ReachInv, OnwardInv, NEW after, SparesItself(after), Behind(tasks, after),
         NEW t, RunCancelTask(t)
  PROVE  GoesForward
  <1> DEFINE context == Net[tasks[t].spec].context
             frames  == [i \in DOMAIN context |-> Frame("cancel", t, OfSpec(tasks, context[i]))]
  <1>1. /\ Tree(tasks, Specs) /\ t \in DOMAIN tasks /\ t \in Path /\ tasks[t].spec \in Specs
        /\ tasks[t].state = "READY" /\ Kind(tasks[t].spec) = "CancelTask"
    BY RunnableReach DEF RunCancelTask
  <1>2. frames \in Seq(FrameType) /\ \A i \in DOMAIN frames : frames[i].op = "cancel"
    BY <1>1, ContextFrames
  <1>3. ASSUME NEW i \in DOMAIN frames PROVE Spares(frames[i], t)
    <2>1. frames[i].todo = OfSpec(tasks, context[i]) /\ i \in DOMAIN context
      BY DEF Frame
    <2>2. ASSUME NEW d \in OfSpec(tasks, context[i]) PROVE d # t /\ ~Above(d, t)
      <3>1. d \in DOMAIN tasks /\ tasks[d].spec = context[i]
        BY DEF OfSpec
      <3>2. context[i] # tasks[t].spec /\ tasks[t].spec \notin after[context[i]]
        BY <1>1, <2>1 DEF SparesItself
      <3> QED
        BY <1>1, <3>1, <3>2 DEF Behind
    <2> QED
      BY <2>1, <2>2 DEF Spares
  <1>4. RunWith(t, frames) /\ UNCHANGED tasks /\ Running(t, {"CancelTask"})
    BY DEF RunCancelTask
  <1> HIDE DEF frames
  <1>5. Onward(tasks, tasks') /\ NothingPasses(tasks, tasks')
    BY <1>1, <1>4, UnchangedOnward
  <1>6. tasks'[t].state # "CANCELLED"
    BY <1>1, <1>4, StatesDiffer
  <1> QED
    BY <1>2, <1>3, <1>4, <1>5, <1>6, SmoothRun

LEMMA RunsOnward ==
  ASSUME IInv, IInv', ReachInv, OnwardInv, NoneAtThreadStart(Hesitant),
         NEW after, SparesItself(after), Behind(tasks, after), Run
  PROVE  GoesForward
  <1> DEFINE none == <<>>
  <1>1. PICK t \in DOMAIN tasks : RunTask(t)
    BY DEF Run
  <1>2. PICK kinds : Running(t, kinds)
    BY <1>1 DEF RunTask, RunSimple, RunFails, RunMultiChoice, RunExclusiveChoice, RunMultiInstance,
                RunThreadSplit, RunThreadStart, RunReleaseMutex, RunCancel, RunCancelTask
  <1>3. Tree(tasks, Specs) /\ Tree(tasks', Specs) /\ tasks[t].state = "READY"
    BY <1>2, RunnableReach, IInvSplitPrime
  <1>4. none \in Seq(FrameType) /\ DOMAIN none = {}
    OBVIOUS
  <1>5. CASE RunWith(t, <<>>) /\ UNCHANGED tasks
    <2>1. RunWith(t, none)
      BY <1>5
    <2> HIDE DEF none
    <2>2. Onward(tasks, tasks') /\ NothingPasses(tasks, tasks')
      BY <1>3, <1>5, UnchangedOnward
    <2>3. tasks'[t].state # "CANCELLED"
      BY <1>3, <1>5, StatesDiffer
    <2> QED
      BY <1>2, <1>4, <2>1, <2>2, <2>3, SmoothRun
  <1>6. CASE RunCancel(t)
    <2>1. RunWith(t, none) /\ tasks' = CancelBranch(tasks, Root) /\ Kind(tasks[t].spec) = "Cancel"
      BY <1>6 DEF RunCancel, Running
    <2> HIDE DEF none
    <2>2. Shrunk(tasks, tasks')
      BY <1>3, <2>1, CancelBranchShrunk
    <2>3. Onward(tasks, tasks') /\ NothingPasses(tasks, tasks')
      BY <1>3, <2>2, ShrunkOnward
    <2>4. t \in DOMAIN tasks' => Kind(tasks'[t].spec) = "Cancel"
      BY <2>1, <2>2 DEF Shrunk
    <2> QED
      BY <1>2, <1>4, <2>1, <2>3, <2>4, SmoothRun
  <1>7. CASE RunRaises(t)
    BY <1>2, <1>7, RunRaisesOnward
  <1>8. RunSimple(t) \/ RunReleaseMutex(t) \/ RunFails(t) =>
           (RunWith(t, <<>>) /\ UNCHANGED tasks) \/ RunRaises(t)
    BY DEF RunSimple, RunReleaseMutex, RunFails
  <1> QED
    BY <1>1, <1>5, <1>6, <1>7, <1>8, SplitsOnward, ThreadStartOnward, CancelTaskOnward DEF RunTask

LEMMA ResetOnward == ASSUME IInv, IInv', ReachInv, OnwardInv, OrderlyReset PROVE OnwardInv' /\ resets' # resets
  <1>1. PICK t \in DOMAIN tasks : GoBack(t)
    BY OrderlyResetGoesBack
  <1> DEFINE pruned == RemoveBranches(tasks, Children(tasks, t))
             bare   == SetState(pruned, {t}, "FUTURE")
             mask   == PREDICTED \union {"FUTURE"}
             next   == PredictNext(tasks', t, 0, mask)
             f      == PredictFrame(t, next, 1, mask)
             g      == Frame("hook", t, {})
             first  == <<f>>
             then   == <<g>>
  <1>2. /\ Tree(tasks, Specs) /\ Tree(tasks', Specs) /\ Reach(tasks) /\ t \in Path
        /\ Guessed(tasks) /\ calls' = first \o then
    BY <1>1, IInvSplit, IInvSplitPrime, StateTyped, AtRest
    DEF GoBack, ResetBranch, MayReset, OnwardInv
  <1>3. /\ t # Root /\ tasks[Parent(t)].state = "COMPLETED"
    BY <1>1 DEF GoBack, MayReset, In
  <1>4. /\ Tree(pruned, Specs) /\ t \in DOMAIN pruned /\ Shrunk(tasks, pruned)
        /\ \A d \in DOMAIN pruned \ {Root} : Parent(d) # t
        /\ \A d \in DOMAIN pruned : pruned[d] = tasks[d]
        /\ Tree(bare, Specs) /\ t \in DOMAIN bare /\ bare[t].state = "FUTURE"
        /\ \E n \in Nat : tasks' = PredictHook(bare, t, n)
    BY <1>1, ResetParts
  <1>5. PICK n \in Nat : tasks' = PredictHook(bare, t, n)
    BY <1>4
  <1>6. next \in SUBSET Path /\ mask \in SUBSET ANY
    BY <1>2, PredictNextTyped, MasksTyped
  <1> HIDE DEF next, mask, pruned
  <1>7. Reach(pruned) /\ pruned[Parent(t)].state = "COMPLETED" /\ Guessed(pruned)
    <2>1. Reach(pruned) /\ Onward(tasks, pruned)
      BY <1>2, <1>4, ShrunkReach, ShrunkOnward
    <2>2. Parent(t) \in DOMAIN pruned
      BY <1>3, <1>4, ParentLive
    <2> QED
      BY <1>2, <1>3, <1>4, <2>1, <2>2 DEF Onward
  <1>8. Reach(bare)
    BY <1>2, <1>3, <1>4, <1>7, BareReach
  <1>9. Guessed(bare)
    <2>1. /\ DOMAIN bare = DOMAIN pruned
          /\ \A d \in DOMAIN pruned : /\ bare[d].spec = pruned[d].spec
                                      /\ bare[d].state = IF d = t THEN "FUTURE" ELSE pruned[d].state
      BY <1>4, SetStateEffect
    <2> QED
      BY <1>4, <1>7, <2>1, ParentLive, StatesDiffer DEF Guessed
  <1> HIDE DEF bare
  <1>10. Guessed(tasks') /\ tasks'[t].state = "FUTURE"
    <2>1. bare[t].state \in EXPECTED
      BY <1>4, StatesDiffer
    <2>2. Onward(bare, tasks')
      BY <1>4, <1>5, <1>8, <1>9, <2>1, PredictHookOnward
    <2> QED
      BY <1>4, <1>5, <1>8, <1>9, <2>1, <2>2, HookedTree DEF Onward
  <1>11. f \in FrameType /\ f.op = "predict"
    BY <1>2, <1>6, PredictFrameTyped DEF PredictFrame
  <1>12. g \in FrameType /\ g.op = "hook" /\ GoesOn(tasks', g)
    <2>1. Settled(tasks', t)
      BY <1>10, StatesDiffer DEF Settled
    <2> QED
      BY <1>2, <2>1, FrameTyped DEF Ops, Frame, GoesOn
  <1> HIDE DEF f, g
  <1>13. /\ first \in Seq(FrameType) /\ AllClear(first) /\ AllGoOn(tasks', first)
         /\ then \in Seq(FrameType) /\ AllClear(then) /\ AllGoOn(tasks', then)
         /\ (\A i \in DOMAIN first : first[i] = f)
    BY <1>11, <1>12, IdleFrames, OneGoesOn
  <1> HIDE DEF first, then
  <1>14. \A i \in DOMAIN first : \A k \in DOMAIN then : Clear(first[i], then[k])
    BY <1>11, <1>13, IdleFrames
  <1>15. resets' # resets
    BY ResetReach
  <1> QED
    BY <1>2, <1>10, <1>13, <1>14, <1>15, GoOnConcat DEF OnwardInv

LEMMA MethodsOnward ==
  ASSUME IInv, IInv', ReachInv, OnwardInv, UpdateWaitingTasks \/ Cancel
  PROVE  GoesForward
  <1>1. Tree(tasks, Specs) /\ Tree(tasks', Specs) /\ Guessed(tasks)
    BY IInvSplit, IInvSplitPrime DEF OnwardInv
  <1>2. CASE Cancel
    <2>1. tasks' = CancelBranch(tasks, Root) /\ calls' = <<>>
      BY <1>2 DEF Cancel, Quiescent
    <2>2. Onward(tasks, tasks')
      BY <1>1, <2>1, CancelBranchShrunk, ShrunkOnward
    <2> QED
      BY <1>1, <2>1, <2>2, NoneGoesOn DEF Onward, OnwardInv, GoesForward
  <1>3. CASE UpdateWaitingTasks
    <2> DEFINE f   == Frame("visit", Root, {Root})
               one == <<f>>
    <2>1. UNCHANGED tasks /\ calls' = one
      BY <1>3 DEF UpdateWaitingTasks
    <2>2. f.op = "visit"
      BY DEF Frame
    <2> HIDE DEF f
    <2>3. AllGoOn(tasks', one) /\ AllClear(one)
      <3>1. GoesOn(tasks', f)
        BY <2>2, IdleFrames
      <3> QED
        BY <3>1 DEF AllGoOn, AllClear
    <2> HIDE DEF one
    <2>4. Guessed(tasks') /\ Forward(tasks, tasks')
      BY <1>1, <2>1, UnchangedOnward DEF Onward
    <2> QED
      BY <2>1, <2>3, <2>4 DEF OnwardInv, GoesForward
  <1> QED
    BY <1>2, <1>3

LEMMA InitOnward == ASSUME Init PROVE OnwardInv
  <1> DEFINE f == PredictFrame(Root, {Root}, 0, NOT_FINISHED)
             g == Frame("hook", Root, {})
             both == <<f, g>>
  <1>1. /\ calls = both /\ DOMAIN tasks = {Root} /\ tasks[Root].state = "FUTURE"
    BY DEF Init
  <1>2. f.op = "predict" /\ g.op = "hook" /\ g.task = Root
    BY DEF PredictFrame, Frame
  <1> HIDE DEF f, g
  <1>3. GoesOn(tasks, f) /\ GoesOn(tasks, g)
    BY <1>1, <1>2, StatesDiffer DEF GoesOn, Settled
  <1>4. \A h : Clear(f, h)
    BY <1>2, IdleFrames
  <1>5. /\ DOMAIN both = {1, 2} /\ both[1] = f /\ both[2] = g
    OBVIOUS
  <1> HIDE DEF both
  <1>6. AllGoOn(tasks, both) /\ AllClear(both)
    BY <1>3, <1>4, <1>5 DEF AllGoOn, AllClear
  <1>7. Guessed(tasks)
    BY <1>1 DEF Guessed
  <1> QED
    BY <1>1, <1>6, <1>7 DEF OnwardInv

LEMMA NextOnward ==
  ASSUME IInv, ReachInv, FiringInv, OnwardInv, NoneAtThreadStart(Hesitant),
         NEW after, SparesItself(after), Behind(tasks, after), [OrderlyNext]_vars
  PROVE  /\ OnwardInv' /\ Behind(tasks, after)'
         /\ resets' # resets \/ Forward(tasks, tasks')
  <1>1. IInv' /\ LeadsTo(after) /\ Tree(tasks, Specs) /\ Tree(tasks', Specs)
    BY OrderlyIInv, IInvSplit, IInvSplitPrime DEF SparesItself
  <1>2. Behind(tasks, after)'
    BY <1>1, NextByNet, BehindStays DEF StepByNet, Behind
  <1>3. CASE UNCHANGED vars
    <2>1. UNCHANGED <<tasks, calls>>
      BY <1>3 DEF vars
    <2> QED
      BY <1>1, <1>2, <2>1, UnchangedOnward DEF Onward, OnwardInv
  <1>4. CASE OrderlyNext
    <2>1. GoesForward \/ (OnwardInv' /\ resets' # resets)
      BY <1>1, <1>4, StepOnward, RunsOnward, ResetOnward, MethodsOnward DEF OrderlyNext
    <2> QED
      BY <1>2, <2>1 DEF GoesForward
  <1> QED
    BY <1>3, <1>4

\* No state goes backwards: of all the setters that write past the check of Task.state,
\* none undoes what another has done, until the workflow is reset.  after[s] being what can
\* be reached from s, it is supposed that a CancelTask does not cancel itself, and that no
\* task whose update hook makes it wait is the child of a ThreadStart.
THEOREM StatesAlwaysForward ==
  ASSUME NEW CONSTANT after, SparesItself(after), NoneAtThreadStart(Hesitant)
  PROVE  OrderlySpec => StatesGoForward
  <1>1. Init => FiringInv /\ OnwardInv /\ Behind(tasks, after)
    <2>1. Init => Behind(tasks, after)
      BY InitPending DEF SparesItself
    <2> QED
      BY <2>1, InitFiring, InitOnward
  <1>2. IInv /\ ReachInv /\ FiringInv /\ OnwardInv /\ Behind(tasks, after) /\ [OrderlyNext]_vars
           => FiringInv' /\ OnwardInv' /\ Behind(tasks, after)'
    BY NextFiring, NextOnward
  <1>3. IInv /\ ReachInv /\ FiringInv /\ OnwardInv /\ Behind(tasks, after) /\ [OrderlyNext]_vars =>
           [resets' # resets \/
            \A t \in DOMAIN tasks \intersect DOMAIN tasks' :
                \/ Rank(tasks'[t].state) >= Rank(tasks[t].state)
                \/ Kind(tasks[t].spec) = "Cancel" /\ In(tasks', t, FINISHED)]_vars
    BY NextOnward DEF Forward, In
  <1>4. OrderlySpec => [](IInv /\ ReachInv /\ FiringInv /\ OnwardInv /\ Behind(tasks, after))
    BY <1>1, <1>2, ReachAlways, PTL DEF OrderlySpec
  <1> QED
    BY <1>3, <1>4, PTL DEF OrderlySpec, StatesGoForward
=============================================================================
