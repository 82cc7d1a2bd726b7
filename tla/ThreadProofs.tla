---------------------------- MODULE ThreadProofs ----------------------------
(***************************************************************************)
(* Threads are separate: proofs for every net, however ThreadStarts are    *)
(* nested, and all bounds.  A thread id is handed down when a child is     *)
(* added, and over a whole branch when a ThreadStart runs; meanwhile tasks *)
(* are removed, cancelled, reset and predicted again.                      *)
(***************************************************************************)
EXTENDS ReachProofs

\* The thread that t has got when it was added.
Given(T, t) == IF t = Root THEN 0 ELSE T[Parent(t)].thread

\* The tasks that have a thread of their own.
Owners(T) == {a \in DOMAIN T : T[a].thread # Given(T, a)}

IsHead(T, a) == Kind(T[a].spec) = "ThreadStart"

\* The tasks whose run hook has been run and has not raised.
Completing(c) == {c[i].task : i \in {k \in DOMAIN c : c[k].op = "complete"}}
Begun(T, c) ==
    {a \in DOMAIN T : IsHead(T, a) /\ (T[a].state = "COMPLETED" \/ a \in Completing(c))}

\* Only ThreadStarts have a thread of their own, and each a different one of those
\* that have been given out.
Threaded(T, n) ==
    /\ \A a \in DOMAIN T : T[a].thread \in 0..n
    /\ \A a \in Owners(T) : IsHead(T, a)
    /\ \A a, b \in Owners(T) : T[a].thread = T[b].thread => a = b

\* The inductive invariant, with IInv and ReachInv.
ThreadInv == Threaded(tasks, threads) /\ Begun(tasks, calls) \subseteq Owners(tasks)

-----------------------------------------------------------------------------
(* The changes of a tree that give nobody a thread *)

\* No task has completed, and no join has fired.
NoneFires(T, U) ==
    \A d \in DOMAIN U :
        /\ U[d].state = "COMPLETED" => d \in DOMAIN T /\ T[d].state = "COMPLETED"
        /\ U[d].state = "READY" /\ Kind(U[d].spec) = "Join" =>
              d \in DOMAIN T /\ T[d].state = "READY"

\* U is T without some of its tasks, in whatever states.
Same(T, U) ==
    /\ DOMAIN U \subseteq DOMAIN T
    /\ \A d \in DOMAIN U : U[d].spec = T[d].spec /\ U[d].thread = T[d].thread
    /\ NoneFires(T, U)

LEMMA SameTwice ==
  ASSUME NEW T, NEW V, NEW U, Same(T, V), Same(V, U)
  PROVE  Same(T, U)
  BY DEF Same, NoneFires

LEMMA ShrunkSame == ASSUME NEW T, NEW U, Shrunk(T, U) PROVE Same(T, U)
  BY DEF Shrunk, Same, NoneFires

LEMMA SetSame ==
  ASSUME NEW T, Tree(T, Specs), NEW S, NEW state, state # "COMPLETED",
         state = "READY" => \A t \in S \intersect DOMAIN T : Kind(T[t].spec) # "Join"
  PROVE  Same(T, SetState(T, S, state))
  BY SetStateEffect DEF Same, NoneFires

\* The children that have been added are in the thread of their parent.
Handed(T, U) ==
    /\ \A d \in DOMAIN T \intersect DOMAIN U : U[d].spec = T[d].spec /\ U[d].thread = T[d].thread
    /\ \A d \in DOMAIN U \ DOMAIN T :
          d # Root /\ Parent(d) \in DOMAIN T /\ U[d].thread = T[Parent(d)].thread

LEMMA SameHanded == ASSUME NEW T, NEW U, Same(T, U) PROVE Handed(T, U)
  BY DEF Same, Handed

LEMMA GrownHanded ==
  ASSUME NEW T, NEW U, NEW t, NEW states, Grown(T, U, t, states)
  PROVE  Handed(T, U)
  BY DEF Grown, Handed

\* Some tasks have been removed, others predicted; none comes back.
Gentle(T, U) ==
    /\ Handed(T, U)
    /\ NoneFires(T, U)
    /\ \A p \in Path : Known(T, p) /\ p \in DOMAIN U => p \in DOMAIN T

LEMMA SameGentle == ASSUME NEW T, NEW U, Same(T, U) PROVE Gentle(T, U)
  BY SameHanded DEF Same, Gentle

LEMMA GrownGentle ==
  ASSUME NEW T, NEW U, Tree(T, Specs), Tree(U, Specs), NEW t, NEW states,
         Grown(T, U, t, states), states \intersect {"READY", "COMPLETED"} = {}
  PROVE  Gentle(T, U)
  <1>1. NoneFires(T, U)
    BY DEF Grown, NoneFires
  <1>2. \A p \in Path : Known(T, p) /\ p \in DOMAIN U => p \in DOMAIN T
    BY GrownKnown
  <1> QED
    BY <1>1, <1>2, GrownHanded DEF Gentle

LEMMA HandedThreads ==
  ASSUME NEW T, NEW U, Tree(T, Specs), Tree(U, Specs), Handed(T, U), NEW n \in Nat, Threaded(T, n)
  PROVE  Threaded(U, n) /\ Owners(U) = Owners(T) \intersect DOMAIN U
  <1>1. ASSUME NEW d \in DOMAIN T \intersect DOMAIN U
        PROVE  Given(U, d) = Given(T, d)
    <2>1. d # Root => Parent(d) \in DOMAIN T \intersect DOMAIN U
      BY ParentLive
    <2> QED
      BY <2>1 DEF Given, Handed
  <1>2. ASSUME NEW d \in DOMAIN U \ DOMAIN T
        PROVE  U[d].thread = Given(U, d) /\ U[d].thread \in 0..n
    <2>1. d # Root /\ Parent(d) \in DOMAIN T \intersect DOMAIN U /\ U[d].thread = T[Parent(d)].thread
      BY ParentLive DEF Handed
    <2> QED
      BY <2>1 DEF Given, Handed, Threaded
  <1>3. Owners(U) = Owners(T) \intersect DOMAIN U
    BY <1>1, <1>2 DEF Owners, Handed
  <1>4. \A d \in DOMAIN T \intersect DOMAIN U : U[d].spec = T[d].spec /\ U[d].thread = T[d].thread
    BY DEF Handed
  <1>5. \A d \in DOMAIN U : U[d].thread \in 0..n
    BY <1>2, <1>4 DEF Threaded
  <1>6. Owners(U) \subseteq DOMAIN T \intersect DOMAIN U
    BY <1>3 DEF Owners
  <1>7. \A a \in Owners(U) : IsHead(U, a)
    BY <1>3, <1>4, <1>6 DEF Threaded, IsHead
  <1>8. \A a, b \in Owners(U) : U[a].thread = U[b].thread => a = b
    BY <1>3, <1>4, <1>6 DEF Threaded
  <1> QED
    BY <1>3, <1>5, <1>7, <1>8 DEF Threaded

\* A child is in a branch with its parent, unless it is on top.
LEMMA BranchChild ==
  ASSUME NEW T, Tree(T, Specs), NEW t \in DOMAIN T, NEW d \in DOMAIN T, d # Root
  PROVE  /\ Parent(d) \in DOMAIN T
         /\ Parent(d) \in Branch(T, t) => d \in Branch(T, t) /\ d # t
         /\ d \in Branch(T, t) /\ d # t => Parent(d) \in Branch(T, t)
  <1>1. Parent(d) \in DOMAIN T /\ Parent(d) \in Path /\ d \in Path /\ t \in Path
    BY ParentLive, StateTyped
  <1>2. Above(t, d) <=> t = Parent(d) \/ Above(t, Parent(d))
    <2>1. Above(t, d) => t = Parent(d) \/ Above(t, Parent(d))
      BY <1>1, AncestorOrParent
    <2>2. t = Parent(d) \/ Above(t, Parent(d)) => Above(t, d)
      BY <1>1, AboveParent
    <2> QED
      BY <2>1, <2>2
  <1>3. ~Above(d, d)
    BY <1>1, PathLength DEF Above
  <1> QED
    BY <1>1, <1>2, <1>3 DEF Branch, Below

\* _assign_new_thread_id: the task gets a thread of its own, and no task behind it
\* has one any more.
LEMMA AssignThreads ==
  ASSUME NEW T, Tree(T, Specs), NEW t \in DOMAIN T, IsHead(T, t), NEW n \in Nat, Threaded(T, n)
  PROVE  LET U == AssignThread(T, t, n + 1)
         IN  Threaded(U, n + 1) /\ Owners(U) = (Owners(T) \ Below(T, t)) \union {t}
  <1> DEFINE U == AssignThread(T, t, n + 1)
             B == Branch(T, t)
  <1>1. /\ Tree(U, Specs) /\ DOMAIN U = DOMAIN T
        /\ \A d \in DOMAIN T : /\ U[d].spec = T[d].spec
                               /\ U[d].thread = IF d \in B THEN n + 1 ELSE T[d].thread
    BY AssignThreadTree
  <1>2. B \subseteq DOMAIN T /\ t \in B /\ B \ {t} = Below(T, t)
    <2>1. ~Above(t, t)
      BY StateTyped, PathLength DEF Above
    <2> QED
      BY <2>1 DEF Branch, Below
  <1> HIDE DEF U
  <1>3. \A d \in DOMAIN T \ {Root} : /\ Parent(d) \in DOMAIN T
                                     /\ Parent(d) \in B => d \in B /\ d # t
                                     /\ d \in B /\ d # t => Parent(d) \in B
    BY BranchChild
  <1> HIDE DEF B
  <1>4. \A d \in DOMAIN T : T[d].thread \in 0..n /\ Given(T, d) \in 0..n
    BY <1>3 DEF Threaded, Given
  <1>5. ASSUME NEW d \in DOMAIN T \ B PROVE Given(U, d) = Given(T, d) /\ U[d].thread = T[d].thread
    BY <1>1, <1>3, <1>5 DEF Given
  <1>6. ASSUME NEW d \in B \ {t} PROVE d # Root /\ Given(U, d) = n + 1 /\ U[d].thread = n + 1
    <2>1. d # Root
      <3>1. t # Root => Above(Root, t)
        BY StateTyped, RootOnTop
      <3>2. ~Above(t, Root)
        BY StateTyped, NothingAboveRoot
      <3> QED
        BY <1>2, <3>2 DEF Below
    <2> QED
      BY <1>1, <1>2, <1>3, <2>1 DEF Given
  <1>7. Given(U, t) # n + 1 /\ U[t].thread = n + 1
    <2>1. t # Root => Parent(t) \notin B
      BY <1>3
    <2>2. Given(U, t) = Given(T, t)
      BY <1>1, <1>3, <2>1 DEF Given
    <2> QED
      BY <1>1, <1>2, <1>4, <2>2
  <1>8. Owners(U) = (Owners(T) \ B) \union {t}
    BY <1>1, <1>2, <1>5, <1>6, <1>7 DEF Owners
  <1>9. Owners(U) = (Owners(T) \ Below(T, t)) \union {t}
    BY <1>2, <1>8
  <1>10. \A d \in DOMAIN U : U[d].thread \in 0..(n + 1)
    BY <1>1, <1>4
  <1>11. \A a \in Owners(U) : IsHead(U, a)
    BY <1>1, <1>8 DEF Threaded, IsHead, Owners
  <1>12. ASSUME NEW a \in Owners(U), NEW b \in Owners(U), U[a].thread = U[b].thread
         PROVE  a = b
    <2>1. \A e \in Owners(T) \ B : U[e].thread = T[e].thread /\ U[e].thread # n + 1
      BY <1>1, <1>4 DEF Owners
    <2> QED
      BY <1>7, <1>8, <1>12, <2>1 DEF Threaded
  <1> QED
    BY <1>9, <1>10, <1>11, <1>12 DEF Threaded, U

\* Behind a task that is READY nothing has completed.
LEMMA NothingBehindReady ==
  ASSUME NEW T, Tree(T, Specs), Reach(T), NEW t \in DOMAIN T, T[t].state = "READY",
         NEW d \in Below(T, t)
  PROVE  T[d].state # "COMPLETED"
  BY StatesDiffer DEF Reach, REACHED, Attached, Below
-----------------------------------------------------------------------------
(* What a step does to the threads *)

LEMMA KeepsThreads ==
  ASSUME NEW T, NEW U, Tree(T, Specs), Tree(U, Specs), Handed(T, U),
         NEW n \in Nat, Threaded(T, n), NEW c, NEW e,
         Begun(T, c) \subseteq Owners(T), Begun(U, e) \subseteq Begun(T, c)
  PROVE  Threaded(U, n) /\ Begun(U, e) \subseteq Owners(U)
  <1>1. Threaded(U, n) /\ Owners(U) = Owners(T) \intersect DOMAIN U
    BY HandedThreads
  <1>2. Begun(U, e) \subseteq DOMAIN U
    BY DEF Begun
  <1> QED
    BY <1>1, <1>2

\* What all steps do but those that fire a join, complete a task or run one.
Gently ==
    /\ Gentle(tasks, tasks')
    /\ UNCHANGED threads
    /\ Completing(calls') \subseteq Completing(calls)

\* A task that has been completing is in the tree, or will never be again.
LEMMA CompletingKnown ==
  ASSUME IInv, ReachInv, NEW a \in Completing(calls)
  PROVE  a \in Path /\ Known(tasks, a)
  <1>1. PICK i \in DOMAIN calls : a = calls[i].task
    BY DEF Completing
  <1>2. calls[i] \in FrameType /\ FrameOK(tasks, calls[i])
    BY <1>1, IInvSplit DEF ReachInv, FramesOK
  <1> QED
    BY <1>1, <1>2 DEF FrameOK, FrameType

LEMMA GentleThreads ==
  ASSUME IInv, IInv', ReachInv, ThreadInv, Gently
  PROVE  ThreadInv'
  <1>1. Tree(tasks, Specs) /\ Tree(tasks', Specs) /\ threads \in Nat
    BY IInvSplit, IInvSplitPrime DEF OthersTyped
  <1>2. \A a \in Completing(calls') : a \in Completing(calls) /\ (a \in DOMAIN tasks' => a \in DOMAIN tasks)
    BY CompletingKnown DEF Gently, Gentle
  <1>3. \A a \in DOMAIN tasks' :
           tasks'[a].state = "COMPLETED" => a \in DOMAIN tasks /\ tasks[a].state = "COMPLETED"
    BY DEF Gently, Gentle, NoneFires
  <1>4. \A a \in DOMAIN tasks \intersect DOMAIN tasks' : IsHead(tasks', a) => IsHead(tasks, a)
    BY DEF Gently, Gentle, Handed, IsHead
  <1>5. Begun(tasks', calls') \subseteq Begun(tasks, calls)
    BY <1>2, <1>3, <1>4 DEF Begun
  <1> QED
    BY <1>1, <1>5, KeepsThreads DEF ThreadInv, Gently, Gentle
-----------------------------------------------------------------------------
(* The steps of a call *)

Quiet(frames) == \A i \in DOMAIN frames : frames[i].op # "complete"

LEMMA CompletingConcat ==
  ASSUME NEW a \in Seq(FrameType), NEW b \in Seq(FrameType)
  PROVE  Completing(a \o b) \subseteq Completing(a) \union Completing(b)
  BY ConcatFrames DEF Completing

LEMMA QuietCompleting == ASSUME NEW frames, Quiet(frames) PROVE Completing(frames) = {}
  BY DEF Quiet, Completing

LEMMA CompletingTail ==
  ASSUME NEW c \in Seq(FrameType), c # <<>>
  PROVE  Tail(c) \in Seq(FrameType) /\ Completing(Tail(c)) \subseteq Completing(c)
  <1> DEFINE rest == Tail(c)
  <1>1. /\ rest \in Seq(FrameType) /\ Len(rest) = Len(c) - 1
        /\ \A i \in 1..Len(rest) : rest[i] = c[i + 1]
        /\ Len(c) \in Nat \ {0} /\ Len(rest) \in Nat
    BY HeadTailProperties, LenProperties
  <1>2. DOMAIN c = 1..Len(c) /\ DOMAIN rest = 1..Len(rest)
    BY <1>1, LenProperties
  <1> HIDE DEF rest
  <1>3. \A i \in DOMAIN rest : i + 1 \in DOMAIN c /\ rest[i] = c[i + 1]
    BY <1>1, <1>2
  <1>4. Completing(rest) \subseteq Completing(c)
    BY <1>3 DEF Completing
  <1> QED
    BY <1>1, <1>4 DEF rest

LEMMA ReturnCompleting ==
  ASSUME IInv, calls # <<>>,
         \/ Return
         \/ \E frames \in Seq(FrameType) : Quiet(frames) /\ ReturnTo(frames)
  PROVE  Completing(calls') \subseteq Completing(calls)
  <1>1. Tail(calls) \in Seq(FrameType) /\ Completing(Tail(calls)) \subseteq Completing(calls)
    BY IInvSplit, CompletingTail
  <1>2. CASE Return
    BY <1>1, <1>2 DEF Return
  <1>3. ASSUME NEW frames \in Seq(FrameType), Quiet(frames), ReturnTo(frames)
        PROVE  Completing(calls') \subseteq Completing(calls)
    BY <1>1, <1>3, CompletingConcat, QuietCompleting DEF ReturnTo
  <1> QED
    BY <1>2, <1>3

LEMMA CallCompleting ==
  ASSUME IInv, calls # <<>>, Top.op # "complete",
         NEW frames \in Seq(FrameType), Quiet(frames),
         NEW S \in SUBSET Path, CallWith(frames, S)
  PROVE  Completing(calls') \subseteq Completing(calls)
  <1> DEFINE frame == [Top EXCEPT !.todo = S]
             again == IF S = {} THEN <<>> ELSE <<frame>>
  <1>1. Tail(calls) \in Seq(FrameType) /\ Completing(Tail(calls)) \subseteq Completing(calls)
    BY IInvSplit, CompletingTail
  <1>2. frame \in FrameType /\ frame.op # "complete"
    BY IInvSplit, StackTyped DEF FrameType
  <1> HIDE DEF frame
  <1>3. again \in Seq(FrameType) /\ Quiet(again)
    BY <1>2 DEF Quiet
  <1>4. calls' = (frames \o again) \o Tail(calls)
    BY DEF CallWith, frame
  <1> HIDE DEF again
  <1>5. frames \o again \in Seq(FrameType)
    BY <1>3, ConcatFrames
  <1>6. Completing(frames \o again) = {}
    BY <1>3, CompletingConcat, QuietCompleting
  <1>7. Completing(calls') \subseteq Completing(frames \o again) \union Completing(Tail(calls))
    BY <1>1, <1>4, <1>5, CompletingConcat
  <1> QED
    BY <1>1, <1>6, <1>7

LEMMA RaiseGently ==
  ASSUME IInv, Raise, UNCHANGED threads
  PROVE  Gently
  <1>1. Same(tasks, tasks')
    BY IInvSplit, SetSame DEF Raise
  <1>2. Completing(calls') = {}
    BY DEF Raise, Completing
  <1> QED
    BY <1>1, <1>2, SameGentle DEF Gently

LEMMA ReturnGently ==
  ASSUME IInv, calls # <<>>, Return, Same(tasks, tasks'), UNCHANGED threads
  PROVE  Gently
  BY ReturnCompleting, SameGentle DEF Gently

LEMMA UnchangedSame == UNCHANGED tasks => Same(tasks, tasks')
  BY DEF Same, NoneFires

LEMMA PredictGently ==
  ASSUME IInv, IInv', ReachInv, Predict
  PROVE  Gently
  <1>1. calls # <<>> /\ Top.op = "predict" /\ UNCHANGED threads
    BY DEF Predict, Doing, Top
  <1>2. /\ Tree(tasks, Specs) /\ Top \in FrameType /\ FrameOK(tasks, Top)
        /\ Top.task \in Path /\ Top.todo \in SUBSET Path
        /\ Top.looked \in Nat /\ Top.mask \in SUBSET ANY
        /\ Tree(tasks', Specs)
    BY <1>1, InProgress, StackTyped, IInvSplitPrime
  <1>3. CASE Top.todo = {}
    <2>1. Return /\ UNCHANGED tasks
      BY <1>3 DEF Predict
    <2> QED
      BY <1>1, <2>1, ReturnGently, UnchangedSame
  <1>4. CASE Top.todo # {}
    <2> DEFINE n(t)    == PredictedTimes(tasks[t].spec)
               T(t)    == IF In(tasks, t, Top.mask) THEN PredictHook(tasks, t, n(t)) ELSE tasks
               next(t) == PredictNext(T(t), t, Top.looked, Top.mask)
    <2>1. PICK t \in Top.todo :
            /\ t \in DOMAIN tasks
            /\ \/ Raise
               \/ /\ tasks' = T(t)
                  /\ CallWith(IF next(t) = {} THEN <<>>
                              ELSE <<PredictFrame(t, next(t), Top.looked + 1, Top.mask)>>,
                              Top.todo \ {t})
      BY <1>4 DEF Predict
    <2>2. CASE Raise
      BY <1>1, <2>2, RaiseGently
    <2>3. CASE /\ tasks' = T(t)
               /\ CallWith(IF next(t) = {} THEN <<>>
                           ELSE <<PredictFrame(t, next(t), Top.looked + 1, Top.mask)>>,
                           Top.todo \ {t})
      <3> DEFINE f == PredictFrame(t, next(t), Top.looked + 1, Top.mask)
                 frames == IF next(t) = {} THEN <<>> ELSE <<f>>
      <3>1. n(t) \in Nat /\ t \in Path
        BY <1>2, <2>1, StateTyped, PredictedTimesTyped
      <3>2. In(tasks, t, Top.mask) => tasks[t].state \in EXPECTED
        BY <1>1, <1>2, <2>1 DEF FrameOK, In
      <3>3. Gentle(tasks, tasks')
        <4>1. CASE In(tasks, t, Top.mask)
          <5>1. PICK states : Grown(tasks, T(t), t, states) /\ Foresees(tasks, t, states)
            BY <1>2, <2>1, <3>1, <3>2, <4>1, PredictHookGrown
          <5>2. states \intersect {"READY", "COMPLETED"} = {}
            BY <5>1, StatesDiffer DEF Foresees
          <5>3. tasks' = T(t)
            BY <2>3
          <5> QED
            BY <1>2, <5>1, <5>2, <5>3, GrownGentle
        <4>2. CASE ~In(tasks, t, Top.mask)
          BY <2>3, <4>2, UnchangedSame, SameGentle
        <4> QED
          BY <4>1, <4>2
      <3>4. next(t) \in SUBSET Path
        BY <1>2, <2>3, PredictNextTyped
      <3>5. CallWith(frames, Top.todo \ {t})
        BY <2>3
      <3> HIDE DEF n, T, next
      <3>6. f \in FrameType /\ f.op = "predict"
        BY <1>2, <3>1, <3>4, PredictFrameTyped DEF PredictFrame
      <3> HIDE DEF f
      <3>7. frames \in Seq(FrameType) /\ Quiet(frames)
        BY <3>6 DEF Quiet
      <3> HIDE DEF frames
      <3>8. Top.todo \ {t} \in SUBSET Path
        BY <1>2
      <3>9. Completing(calls') \subseteq Completing(calls)
        BY <1>1, <3>5, <3>7, <3>8, CallCompleting
      <3> QED
        BY <1>1, <3>3, <3>9 DEF Gently
    <2> QED
      BY <2>1, <2>2, <2>3
  <1> QED
    BY <1>3, <1>4

LEMMA HookGently ==
  ASSUME IInv, calls # <<>>, UNCHANGED threads,
         \/ SetReady(Top.task) /\ Kind(tasks[Top.task].spec) # "Join"
         \/ SetWaiting(Top.task)
  PROVE  Gently
  <1>1. Tree(tasks, Specs)
    BY IInvSplit
  <1>2. Same(tasks, tasks')
    BY <1>1, SetSame, UnchangedSame DEF SetReady, SetWaiting, Ready
  <1> QED
    BY <1>2, ReturnGently DEF SetReady, SetWaiting

LEMMA UpdateGently ==
  ASSUME IInv, UpdateSimple \/ UpdateFails \/ UpdateExecute \/ UpdateGate \/ UpdateAcquire
  PROVE  Gently
  <1>1. calls # <<>> /\ UNCHANGED threads /\ Kind(tasks[Top.task].spec) # "Join"
    BY DEF UpdateSimple, UpdateFails, UpdateExecute, UpdateGate, UpdateAcquire, Hook, Doing,
       Unguarded, Kinds
  <1>2. SetReady(Top.task) \/ SetWaiting(Top.task) \/ Raise
    BY DEF UpdateSimple, UpdateFails, UpdateExecute, UpdateGate, UpdateAcquire
  <1> QED
    BY <1>1, <1>2, HookGently, RaiseGently

LEMMA UpdateJoinGently ==
  ASSUME IInv, ReachInv, UpdateJoin
  PROVE  Gently
  <1> DEFINE j       == Top.task
             s       == tasks[j].spec
             waiting == WaitingTasks(tasks, j)
             first   == IF Net[s].cancel
                        THEN [i \in DOMAIN waiting |-> Frame("cancel", j, waiting[i])]
                        ELSE <<>>
             fire    == <<Frame("join", j, {})>>
  <1>1. /\ calls # <<>> /\ j \in DOMAIN tasks /\ j \in Path /\ UNCHANGED threads
        /\ Tree(tasks, Specs)
    BY InProgress, StateTyped DEF UpdateJoin, Hook, Doing
  <1>2. \/ Return /\ UNCHANGED tasks
        \/ Raise
        \/ ReturnTo(fire) /\ UNCHANGED tasks
        \/ SetWaiting(j)
        \/ ReturnTo(first \o fire) /\ UNCHANGED tasks
    BY DEF UpdateJoin
  <1>3. fire \in Seq(FrameType) /\ Quiet(fire)
    <2>1. Frame("join", j, {}) \in FrameType
      BY <1>1, FrameTyped DEF Ops
    <2> QED
      BY <2>1 DEF Quiet, Frame
  <1>4. first \in Seq(FrameType) /\ Quiet(first)
    <2>1. first \in Seq(FrameType) /\ \A i \in DOMAIN first : first[i].op = "cancel"
      BY <1>1, WaitingFrames, NoFrame
    <2> HIDE DEF first
    <2> QED
      BY <2>1 DEF Quiet
  <1> HIDE DEF first, fire, s, waiting
  <1>5. first \o fire \in Seq(FrameType) /\ Quiet(first \o fire)
    BY <1>3, <1>4, ConcatFrames DEF Quiet
  <1>6. ASSUME UNCHANGED tasks, Return \/ ReturnTo(fire) \/ ReturnTo(first \o fire)
        PROVE  Gently
    BY <1>1, <1>3, <1>5, <1>6, ReturnCompleting, SameGentle, UnchangedSame DEF Gently
  <1> QED
    BY <1>1, <1>2, <1>6, RaiseGently, HookGently

LEMMA CancelNextGently ==
  ASSUME IInv, CancelNext
  PROVE  Gently
  <1>1. calls # <<>> /\ Top.op = "cancel" /\ UNCHANGED threads
    BY DEF CancelNext, Doing, Top
  <1>2. Tree(tasks, Specs) /\ Top.todo \in SUBSET Path
    BY <1>1, IInvSplit, StackTyped
  <1>3. CASE Top.todo = {}
    BY <1>1, <1>3, ReturnGently, UnchangedSame DEF CancelNext
  <1>4. CASE Top.todo # {}
    <2>1. PICK t \in Top.todo :
            /\ CallWith(<<>>, Top.todo \ {t})
            /\ tasks' = IF t \in DOMAIN tasks THEN CancelBranch(tasks, t) ELSE tasks
      BY <1>4 DEF CancelNext
    <2>2. Same(tasks, tasks')
      BY <1>2, <2>1, CancelBranchShrunk, ShrunkSame, UnchangedSame
    <2>3. Quiet(<<>>) /\ <<>> \in Seq(FrameType) /\ Top.todo \ {t} \in SUBSET Path
      BY <1>2 DEF Quiet
    <2>4. Completing(calls') \subseteq Completing(calls)
      BY <1>1, <2>1, <2>3, CallCompleting
    <2> QED
      BY <1>1, <2>2, <2>4, SameGentle DEF Gently
  <1> QED
    BY <1>3, <1>4

\* A join that fires is READY, the other instances are CANCELLED or gone.
LEMMA JoinFiresParts ==
  ASSUME IInv, JoinFires
  PROVE  \E V : /\ Tree(V, Specs) /\ Same(tasks, V)
                /\ tasks' = Ready(V, Top.task)
                /\ \A d \in OtherInstances(tasks, Top.task) \intersect DOMAIN V :
                      V[d].state = "CANCELLED"
                /\ \A d \in DOMAIN V :
                      \/ V[d].state = tasks[d].state
                      \/ d \in OtherInstances(tasks, Top.task) /\ V[d].state = "CANCELLED"
  <1> DEFINE found == OtherInstances(tasks, Top.task)
             V     == DropChildren(tasks, found)
             W     == SetState(V, found \intersect DOMAIN V, "CANCELLED")
  <1>1. Tree(tasks, Specs)
    BY IInvSplit
  <1>2. found \in SUBSET Path
    BY <1>1 DEF OtherInstances, Instances, OfSpec, Tree, IsTree
  <1>3. tasks' = Ready(W, Top.task)
    BY DEF JoinFires, DoJoin
  <1> HIDE DEF found
  <1>4. /\ Tree(V, Specs) /\ Same(tasks, V)
        /\ \A d \in DOMAIN V : V[d].state = tasks[d].state
    BY <1>1, <1>2, DropChildrenTree, DropChildrenShrunk, ShrunkSame
  <1> HIDE DEF V
  <1>5. Tree(W, Specs) /\ Same(V, W)
    BY <1>4, SetStateTree, SetSame, StatesDiffer
  <1>6. DOMAIN W = DOMAIN V /\ \A d \in DOMAIN V :
           W[d].state = IF d \in found THEN "CANCELLED" ELSE V[d].state
    BY <1>4, SetStateEffect
  <1> HIDE DEF W
  <1> WITNESS W
  <1>7. Same(tasks, W)
    BY <1>4, <1>5, SameTwice
  <1> QED
    BY <1>3, <1>4, <1>5, <1>6, <1>7 DEF found

LEMMA JoinFiresThreads ==
  ASSUME IInv, IInv', ReachInv, ThreadInv, JoinFires
  PROVE  ThreadInv'
  <1>1. /\ calls # <<>> /\ Return /\ UNCHANGED threads /\ threads \in Nat
        /\ Tree(tasks, Specs) /\ Tree(tasks', Specs)
    BY IInvSplit, IInvSplitPrime DEF JoinFires, Doing, OthersTyped
  <1>2. PICK V : Tree(V, Specs) /\ Same(tasks, V) /\ tasks' = Ready(V, Top.task)
    BY JoinFiresParts
  <1>3. /\ DOMAIN tasks' = DOMAIN V
        /\ \A d \in DOMAIN V : /\ tasks'[d].spec = V[d].spec /\ tasks'[d].thread = V[d].thread
                               /\ tasks'[d].state = "COMPLETED" => V[d].state = "COMPLETED"
    BY <1>2, SetStateEffect DEF Ready
  <1>4. Handed(tasks, tasks')
    BY <1>2, <1>3 DEF Same, Handed
  <1>5. Completing(calls') \subseteq Completing(calls)
    BY <1>1, ReturnCompleting
  <1>6. Begun(tasks', calls') \subseteq Begun(tasks, calls)
    BY <1>2, <1>3, <1>5 DEF Begun, Same, NoneFires, IsHead
  <1> QED
    BY <1>1, <1>4, <1>6, KeepsThreads DEF ThreadInv

\* A ThreadStart that completes has got its thread before.
LEMMA CompleteTaskThreads ==
  ASSUME IInv, IInv', ThreadInv, CompleteTask
  PROVE  ThreadInv'
  <1> DEFINE t == Top.task
             f == Frame("children", t, Children(tasks, t))
             g == Frame("visit", t, {Root})
             h == Frame("finish", t, {})
  <1>1. /\ calls # <<>> /\ Top.op = "complete" /\ UNCHANGED threads
        /\ tasks' = SetState(tasks, {t}, "COMPLETED") /\ ReturnTo(<<f, g, h>>)
    BY DEF CompleteTask, Doing, Top
  <1>2. /\ Tree(tasks, Specs) /\ Tree(tasks', Specs) /\ threads \in Nat /\ t \in Path
        /\ calls \in Seq(FrameType)
    BY <1>1, IInvSplit, IInvSplitPrime, StackTyped DEF OthersTyped
  <1>3. t \in Completing(calls)
    <2>1. 1 \in DOMAIN calls /\ Top = calls[1]
      BY <1>1, <1>2 DEF Top
    <2> QED
      BY <1>1, <2>1 DEF Completing
  <1>4. <<f, g, h>> \in Seq(FrameType) /\ Quiet(<<f, g, h>>)
    <2>1. /\ f \in FrameType /\ g \in FrameType /\ h \in FrameType
          /\ f.op = "children" /\ g.op = "visit" /\ h.op = "finish"
      BY <1>2, ChildrenTyped, RootPath, FrameTyped DEF Ops, Frame
    <2> HIDE DEF f, g, h
    <2>2. <<f, g, h>> \in Seq(FrameType) /\ DOMAIN <<f, g, h>> = 1..3
      BY <2>1
    <2>3. ASSUME NEW i \in 1..3 PROVE <<f, g, h>>[i] \in {f, g, h}
      OBVIOUS
    <2> QED
      BY <2>1, <2>2, <2>3 DEF Quiet
  <1>5. Completing(calls') \subseteq Completing(calls)
    BY <1>1, <1>4, ReturnCompleting
  <1>6. /\ DOMAIN tasks' = DOMAIN tasks
        /\ \A d \in DOMAIN tasks : /\ tasks'[d].spec = tasks[d].spec
                                   /\ tasks'[d].thread = tasks[d].thread
                                   /\ tasks'[d].state = IF d = t THEN "COMPLETED"
                                                        ELSE tasks[d].state
    BY <1>1, <1>2, SetStateEffect
  <1>7. Begun(tasks', calls') \subseteq Begun(tasks, calls)
    BY <1>3, <1>5, <1>6 DEF Begun, IsHead
  <1>8. Handed(tasks, tasks')
    BY <1>6 DEF Handed
  <1>9. Threaded(tasks', threads) /\ Begun(tasks', calls') \subseteq Owners(tasks')
    BY <1>2, <1>7, <1>8, KeepsThreads DEF ThreadInv
  <1> QED
    BY <1>1, <1>9 DEF ThreadInv

LEMMA UpdateFramesQuiet ==
  ASSUME NEW t \in Path
  PROVE  UpdateFrames(t) \in Seq(FrameType) /\ Quiet(UpdateFrames(t))
  <1> DEFINE f == PredictFrame(t, {t}, 0, PREDICTED)
             g == Frame("hook", t, {})
             a == IF In(tasks, t, PREDICTED) THEN <<f>> ELSE <<>>
  <1>1. f \in FrameType /\ f.op # "complete" /\ g \in FrameType /\ g.op # "complete"
    BY PredictFrameTyped, FrameTyped, MasksTyped DEF PredictFrame, Frame, Ops
  <1>2. UpdateFrames(t) = a \o <<g>>
    BY DEF UpdateFrames
  <1> HIDE DEF f, g
  <1>3. a \in Seq(FrameType) /\ Quiet(a) /\ <<g>> \in Seq(FrameType) /\ Quiet(<<g>>)
    BY <1>1 DEF Quiet
  <1> HIDE DEF a
  <1> QED
    BY <1>2, <1>3, ConcatFrames DEF Quiet

LEMMA LoopGently ==
  ASSUME IInv, ChildrenNext \/ VisitNext
  PROVE  Gently
  <1>1. /\ calls # <<>> /\ Top.op # "complete" /\ UNCHANGED <<tasks, threads>>
        /\ Tree(tasks, Specs) /\ Top.todo \in SUBSET Path
    BY IInvSplit, StackTyped DEF ChildrenNext, VisitNext, Doing, Top
  <1>2. CASE Return
    BY <1>1, <1>2, ReturnGently, UnchangedSame
  <1>3. ASSUME NEW frames \in Seq(FrameType), Quiet(frames), NEW S \in SUBSET Path,
               CallWith(frames, S)
        PROVE  Gently
    BY <1>1, <1>3, CallCompleting, SameGentle, UnchangedSame DEF Gently
  <1>4. Quiet(<<>>) /\ <<>> \in Seq(FrameType)
    BY DEF Quiet
  <1>5. CASE ChildrenNext /\ Top.todo # {}
    <2>1. PICK c \in Top.todo :
            CallWith(IF In(tasks, c, FINISHED) THEN <<>> ELSE UpdateFrames(c), Top.todo \ {c})
      BY <1>5 DEF ChildrenNext
    <2> DEFINE frames == IF In(tasks, c, FINISHED) THEN <<>> ELSE UpdateFrames(c)
    <2>2. c \in Path /\ Top.todo \ {c} \in SUBSET Path
      BY <1>1
    <2>3. frames \in Seq(FrameType) /\ Quiet(frames)
      BY <1>4, <2>2, UpdateFramesQuiet
    <2>4. CallWith(frames, Top.todo \ {c})
      BY <2>1
    <2> HIDE DEF frames
    <2> QED
      BY <1>3, <2>2, <2>3, <2>4
  <1>6. CASE VisitNext /\ Top.todo # {}
    <2>1. PICK t \in Top.todo :
            IF t \in DOMAIN tasks
            THEN CallWith(IF In(tasks, t, {"WAITING"}) THEN UpdateFrames(t) ELSE <<>>,
                          (Top.todo \ {t})
                              \union (IF In(tasks, t, PREDICTED) THEN {} ELSE Children(tasks, t)))
            ELSE CallWith(<<>>, Top.todo \ {t})
      BY <1>6 DEF VisitNext
    <2>2. t \in Path /\ Top.todo \ {t} \in SUBSET Path /\ Children(tasks, t) \in SUBSET Path
      BY <1>1, ChildrenTyped
    <2> DEFINE frames == IF In(tasks, t, {"WAITING"}) THEN UpdateFrames(t) ELSE <<>>
               S == (Top.todo \ {t})
                       \union (IF In(tasks, t, PREDICTED) THEN {} ELSE Children(tasks, t))
    <2>3. frames \in Seq(FrameType) /\ Quiet(frames) /\ S \in SUBSET Path
      BY <1>4, <2>2, UpdateFramesQuiet
    <2>4. CallWith(frames, S) \/ CallWith(<<>>, Top.todo \ {t})
      BY <2>1
    <2> HIDE DEF frames, S
    <2> QED
      BY <1>3, <1>4, <2>2, <2>3, <2>4
  <1> QED
    BY <1>2, <1>5, <1>6 DEF ChildrenNext, VisitNext

LEMMA StepGently ==
  ASSUME IInv, IInv', ReachInv, Step
  PROVE  Gently \/ JoinFires \/ CompleteTask
  <1>1. ASSUME Finish PROVE Gently
    BY <1>1, ReturnGently, UnchangedSame DEF Finish, Doing
  <1> QED
    BY <1>1, PredictGently, UpdateGently, UpdateJoinGently, CancelNextGently, LoopGently
    DEF Step

LEMMA StepThreads == ASSUME IInv, IInv', ReachInv, ThreadInv, Step PROVE ThreadInv'
  BY StepGently, GentleThreads, JoinFiresThreads, CompleteTaskThreads
-----------------------------------------------------------------------------
(* Task.run and the other public methods *)

LEMMA RunWithCompleting ==
  ASSUME NEW t \in Path, NEW frames \in Seq(FrameType), Quiet(frames), RunWith(t, frames)
  PROVE  Completing(calls') \subseteq {t}
  <1> DEFINE f == Frame("complete", t, {})
  <1>1. f \in FrameType /\ f.task = t
    BY FrameTyped DEF Ops, Frame
  <1> HIDE DEF f
  <1>2. <<f>> \in Seq(FrameType) /\ Completing(<<f>>) \subseteq {t}
    BY <1>1 DEF Completing
  <1>3. Completing(frames \o <<f>>) \subseteq Completing(frames) \union Completing(<<f>>)
    BY <1>2, CompletingConcat
  <1> QED
    BY <1>2, <1>3, QuietCompleting DEF RunWith, f

\* The run of a task that is no ThreadStart; a join just completes, or fails.
RunsGently(t) ==
    /\ Gentle(tasks, tasks')
    /\ UNCHANGED threads
    /\ Completing(calls') \subseteq {t}
    /\ calls = <<>> /\ Kind(tasks[t].spec) # "ThreadStart"
    /\ Kind(tasks[t].spec) = "Join" =>
          calls' = <<>> \/ (calls' = <<Frame("complete", t, {})>> /\ UNCHANGED tasks)

LEMMA GentleRunThreads ==
  ASSUME IInv, IInv', ReachInv, ThreadInv, NEW t \in DOMAIN tasks, RunsGently(t)
  PROVE  ThreadInv'
  <1>1. /\ Tree(tasks, Specs) /\ Tree(tasks', Specs) /\ threads \in Nat
        /\ calls = <<>> /\ ~IsHead(tasks, t)
    BY IInvSplit, IInvSplitPrime DEF OthersTyped, IsHead, RunsGently
  <1>2. \A a \in DOMAIN tasks' :
           tasks'[a].state = "COMPLETED" => a \in DOMAIN tasks /\ tasks[a].state = "COMPLETED"
    BY DEF RunsGently, Gentle, NoneFires
  <1>3. \A a \in DOMAIN tasks \intersect DOMAIN tasks' : IsHead(tasks', a) <=> IsHead(tasks, a)
    BY DEF RunsGently, Gentle, Handed, IsHead
  <1>4. Begun(tasks', calls') \subseteq Begun(tasks, calls)
    BY <1>1, <1>2, <1>3 DEF Begun, RunsGently
  <1> QED
    BY <1>1, <1>4, KeepsThreads DEF ThreadInv, RunsGently, Gentle

LEMMA RunRaisesGently ==
  ASSUME IInv, ReachInv, NEW t \in DOMAIN tasks, NEW kinds,
         Running(t, kinds), "ThreadStart" \notin kinds, UNCHANGED threads, RunRaises(t)
  PROVE  RunsGently(t)
  <1>1. Same(tasks, tasks')
    BY IInvSplit, SetSame DEF RunRaises
  <1>2. calls = <<>> /\ calls' = <<>> /\ Completing(calls') = {}
    BY DEF RunRaises, Running, Quiescent, Completing
  <1> QED
    BY <1>1, <1>2, SameGentle DEF RunsGently, Running

LEMMA RunWithGently ==
  ASSUME IInv, ReachInv, NEW t \in DOMAIN tasks, NEW kinds,
         Running(t, kinds), kinds \intersect {"ThreadStart", "Join"} = {}, UNCHANGED threads,
         NEW frames \in Seq(FrameType), Quiet(frames), RunWith(t, frames), Gentle(tasks, tasks')
  PROVE  RunsGently(t)
  <1>1. Completing(calls') \subseteq {t}
    BY RunnableReach, RunWithCompleting
  <1> QED
    BY <1>1 DEF RunsGently, Running, Quiescent

LEMMA RunSimpleGently ==
  ASSUME IInv, ReachInv, NEW t \in DOMAIN tasks, RunSimple(t)
  PROVE  RunsGently(t)
  <1>1. Running(t, Plain) /\ RunWith(t, <<>>) /\ UNCHANGED <<tasks, threads>>
    BY DEF RunSimple
  <1>2. t \in Path /\ calls = <<>> /\ <<>> \in Seq(FrameType) /\ Quiet(<<>>)
    BY <1>1, RunnableReach DEF Quiet, Running, Quiescent
  <1>3. Completing(calls') \subseteq {t}
    BY <1>1, <1>2, RunWithCompleting
  <1>4. calls' = <<Frame("complete", t, {})>>
    <2>1. Frame("complete", t, {}) \in FrameType
      BY <1>2, FrameTyped DEF Ops
    <2> QED
      BY <1>1, <2>1 DEF RunWith
  <1> QED
    BY <1>1, <1>2, <1>3, <1>4, UnchangedSame, SameGentle DEF RunsGently, Running, Plain

LEMMA RunSyncGently ==
  ASSUME IInv, IInv', ReachInv, NEW t \in DOMAIN tasks, NEW kinds,
         Running(t, kinds), kinds \intersect {"ThreadStart", "Join"} = {}, UNCHANGED threads,
         NEW outs, NEW n, Gapped(outs, n), tasks' = SyncChildren(tasks, t, outs, n, "FUTURE"),
         NEW frames \in Seq(FrameType), Quiet(frames), RunWith(t, frames)
  PROVE  RunsGently(t)
  <1>1. t \in Path /\ Tree(tasks, Specs)
    BY RunnableReach
  <1>2. Tree(tasks', Specs) /\ Grown(tasks, tasks', t, {"FUTURE"})
    BY <1>1, SyncChildrenTree, MasksTyped DEF Gapped
  <1>3. Gentle(tasks, tasks')
    BY <1>1, <1>2, GrownGentle
  <1> QED
    BY <1>3, RunWithGently

LEMMA RunSplitGently ==
  ASSUME IInv, IInv', ReachInv, NEW t \in DOMAIN tasks, NEW kinds,
         Running(t, kinds), kinds \intersect {"ThreadStart", "Join"} = {}, UNCHANGED threads,
         NEW outs, NEW n, Gapped(outs, n), NEW looked \in Nat, RunSplit(t, outs, n, looked)
  PROVE  RunsGently(t)
  <1>1. CASE SyncRaises(tasks, t, outs, n)
    BY <1>1, RunRaisesGently DEF RunSplit
  <1>2. CASE ~SyncRaises(tasks, t, outs, n)
    <2> DEFINE todo == InState(tasks', PREDICTED \union {"FUTURE"}) \intersect Children(tasks', t)
               f    == PredictFrame(t, todo, looked, PREDICTED \union {"FUTURE"})
    <2>1. tasks' = SyncChildren(tasks, t, outs, n, "FUTURE") /\ RunWith(t, <<f>>)
      BY <1>2 DEF RunSplit
    <2>2. todo \in SUBSET Path /\ t \in Path
      BY IInvSplitPrime, ChildrenTyped, RunnableReach
    <2> HIDE DEF todo
    <2>3. f \in FrameType /\ f.op = "predict"
      BY <2>2, PredictFrameTyped, MasksTyped DEF PredictFrame
    <2> HIDE DEF f
    <2>4. <<f>> \in Seq(FrameType) /\ Quiet(<<f>>)
      BY <2>3 DEF Quiet
    <2> QED
      BY <2>1, <2>4, RunSyncGently
  <1> QED
    BY <1>1, <1>2

LEMMA RunChoiceGently ==
  ASSUME IInv, IInv', ReachInv, NEW t \in DOMAIN tasks,
         RunMultiChoice(t) \/ RunExclusiveChoice(t) \/ RunMultiInstance(t)
  PROVE  RunsGently(t)
  <1> DEFINE s == tasks[t].spec
  <1>1. CASE RunMultiChoice(t)
    <2>1. Running(t, {"MultiChoice"}) /\ s \in Specs /\ UNCHANGED threads
      BY <1>1, RunnableReach DEF RunMultiChoice
    <2>2. PICK matching \in SUBSET Net[s].cond :
             RunSplit(t, Pick(Outputs(s), (Specs \ Net[s].cond) \union matching),
                      Len(Outputs(s)), 0)
      BY <1>1 DEF RunMultiChoice
    <2>3. Gapped(Pick(Outputs(s), (Specs \ Net[s].cond) \union matching), Len(Outputs(s)))
      BY <2>1, PickGapped
    <2> HIDE DEF s
    <2> QED
      BY <2>1, <2>2, <2>3, RunSplitGently
  <1>2. CASE RunExclusiveChoice(t)
    <2>1. /\ Running(t, {"ExclusiveChoice"}) /\ s \in Specs /\ Kind(s) = "ExclusiveChoice"
          /\ UNCHANGED threads
      BY <1>2, RunnableReach DEF RunExclusiveChoice
    <2>2. PICK output \in Net[s].cond \union {Net[s].default} : RunSplit(t, <<output>>, 1, 0)
      BY <1>2 DEF RunExclusiveChoice
    <2>3. Gapped(<<output>>, 1)
      BY <2>1, NetTyped DEF Gapped
    <2> HIDE DEF s
    <2> QED
      BY <2>1, <2>2, <2>3, RunSplitGently
  <1>3. CASE RunMultiInstance(t)
    <2>1. Running(t, {"MultiInstance"}) /\ s \in Specs /\ UNCHANGED threads
      BY <1>3, RunnableReach DEF RunMultiInstance
    <2>2. PICK n \in Net[s].times : RunSplit(t, PredictedOutputs(s, n), OutputCount(s, n), 1)
      BY <1>3 DEF RunMultiInstance
    <2>3. Gapped(PredictedOutputs(s, n), OutputCount(s, n))
      BY <2>1, NetTyped, PredictedOutputsGapped
    <2> HIDE DEF s
    <2> QED
      BY <2>1, <2>2, <2>3, RunSplitGently
  <1> QED
    BY <1>1, <1>2, <1>3

LEMMA RunThreadSplitGently ==
  ASSUME IInv, IInv', ReachInv, NEW t \in DOMAIN tasks, RunThreadSplit(t)
  PROVE  RunsGently(t)
  <1> DEFINE s == tasks[t].spec
  <1>1. Running(t, {"ThreadSplit"}) /\ s \in Specs /\ UNCHANGED threads
    BY RunnableReach DEF RunThreadSplit
  <1>2. PICK n \in Net[s].times :
           \/ RunRaises(t)
           \/ /\ tasks' = SyncChildren(tasks, t, PredictedOutputs(s, n), OutputCount(s, n),
                                       "FUTURE")
              /\ RunWith(t, <<>>)
    BY DEF RunThreadSplit
  <1>3. Gapped(PredictedOutputs(s, n), OutputCount(s, n))
    BY <1>1, NetTyped, PredictedOutputsGapped
  <1>4. <<>> \in Seq(FrameType) /\ Quiet(<<>>)
    BY DEF Quiet
  <1> HIDE DEF s
  <1> QED
    BY <1>1, <1>2, <1>3, <1>4, RunRaisesGently, RunSyncGently

\* A new thread for the branch: nothing behind the task had begun.
LEMMA RunThreadStartThreads ==
  ASSUME IInv, IInv', ReachInv, ThreadInv, NEW t \in DOMAIN tasks, RunThreadStart(t)
  PROVE  ThreadInv'
  <1> DEFINE T    == AssignThread(tasks, t, threads + 1)
             outs == Outputs(tasks[t].spec)
             c    == <<Frame("complete", t, {})>>
  <1>1. /\ Tree(tasks, Specs) /\ Reach(tasks) /\ calls = <<>> /\ t \in Path
        /\ tasks[t].spec \in Specs /\ tasks[t].state = "READY" /\ IsHead(tasks, t)
        /\ threads \in Nat /\ threads' = threads + 1 /\ Tree(tasks', Specs)
    BY RunnableReach, IInvSplit, IInvSplitPrime DEF RunThreadStart, OthersTyped, IsHead
  <1>2. /\ Tree(T, Specs) /\ DOMAIN T = DOMAIN tasks
        /\ \A d \in DOMAIN tasks : T[d].state = tasks[d].state /\ T[d].spec = tasks[d].spec
    BY <1>1, AssignThreadTree
  <1>3. Threaded(T, threads + 1) /\ Owners(T) = (Owners(tasks) \ Below(tasks, t)) \union {t}
    BY <1>1, AssignThreads DEF ThreadInv
  <1>4. \/ tasks' = SetState(T, {t}, "ERROR") /\ calls' = <<>>
        \/ tasks' = SyncChildren(T, t, outs, Len(outs), "READY") /\ RunWith(t, <<>>)
    BY <1>1 DEF RunThreadStart
  <1>5. Gapped(outs, Len(outs))
    BY <1>1, OutputsGapped
  <1> HIDE DEF T, outs
  <1>6. Completing(<<>>) = {} /\ Completing(calls') \subseteq {t} /\ Completing(c) = {t}
    <2>1. <<>> \in Seq(FrameType) /\ Quiet(<<>>)
      BY DEF Quiet
    <2>2. Completing(<<>>) = {}
      BY <2>1, QuietCompleting
    <2>3. RunWith(t, <<>>) => Completing(calls') \subseteq {t}
      BY <1>1, <2>1, RunWithCompleting
    <2>4. Completing(c) = {t}
      BY DEF Completing, Frame
    <2> QED
      BY <1>4, <2>2, <2>3, <2>4
  <1> HIDE DEF c
  <1>7. Begun(T, c) \subseteq Owners(T)
    <2>1. \A a \in Begun(T, c) \ {t} : a \in Begun(tasks, calls) /\ tasks[a].state = "COMPLETED"
      BY <1>2, <1>6 DEF Begun, IsHead
    <2>2. \A a \in Begun(T, c) \ {t} : a \notin Below(tasks, t)
      BY <1>1, <2>1, NothingBehindReady
    <2> QED
      BY <1>3, <2>1, <2>2 DEF ThreadInv
  <1>8. Handed(T, tasks') /\ Begun(tasks', calls') \subseteq Begun(T, c)
    <2>1. CASE tasks' = SetState(T, {t}, "ERROR") /\ calls' = <<>>
      <3>1. Same(T, tasks')
        BY <1>2, <2>1, SetSame
      <3>2. Begun(tasks', calls') \subseteq Begun(T, c)
        BY <1>6, <2>1, <3>1 DEF Same, NoneFires, Begun, IsHead
      <3> QED
        BY <3>1, <3>2, SameHanded
    <2>2. CASE tasks' = SyncChildren(T, t, outs, Len(outs), "READY") /\ RunWith(t, <<>>)
      <3>1. Grown(T, tasks', t, {"READY"})
        BY <1>1, <1>2, <1>5, <2>2, SyncChildrenTree, MasksTyped DEF Gapped
      <3>2. ASSUME NEW a \in DOMAIN tasks', a = t \/ tasks'[a].state = "COMPLETED"
            PROVE  a \in DOMAIN T /\ (a = t \/ T[a].state = "COMPLETED")
        BY <1>2, <3>1, <3>2 DEF Grown
      <3>3. \A a \in DOMAIN T \intersect DOMAIN tasks' : IsHead(tasks', a) => IsHead(T, a)
        BY <3>1 DEF Grown, IsHead
      <3>4. Begun(tasks', calls') \subseteq Begun(T, c)
        BY <1>6, <3>2, <3>3 DEF Begun
      <3> QED
        BY <3>1, <3>4, GrownHanded
    <2> QED
      BY <1>4, <2>1, <2>2
  <1>9. threads + 1 \in Nat
    BY <1>1
  <1>10. Threaded(tasks', threads + 1) /\ Begun(tasks', calls') \subseteq Owners(tasks')
    BY <1>1, <1>2, <1>3, <1>7, <1>8, <1>9, KeepsThreads
  <1> QED
    BY <1>1, <1>10 DEF ThreadInv

LEMMA RunCancelGently ==
  ASSUME IInv, IInv', ReachInv, NEW t \in DOMAIN tasks, RunCancel(t) \/ RunCancelTask(t)
  PROVE  RunsGently(t)
  <1>1. Tree(tasks, Specs) /\ <<>> \in Seq(FrameType) /\ Quiet(<<>>)
    BY IInvSplit DEF Quiet
  <1>2. CASE RunCancel(t)
    <2>1. Running(t, {"Cancel"}) /\ RunWith(t, <<>>) /\ UNCHANGED threads
      BY <1>2 DEF RunCancel
    <2>2. Same(tasks, tasks')
      BY <1>1, <1>2, CancelBranchShrunk, ShrunkSame DEF RunCancel
    <2> QED
      BY <1>1, <2>1, <2>2, SameGentle, RunWithGently
  <1>3. CASE RunCancelTask(t)
    <2> DEFINE context == Net[tasks[t].spec].context
               frames  == [i \in DOMAIN context |-> Frame("cancel", t, OfSpec(tasks, context[i]))]
    <2>1. Running(t, {"CancelTask"}) /\ RunWith(t, frames) /\ UNCHANGED <<tasks, threads>>
      BY <1>3 DEF RunCancelTask
    <2>2. frames \in Seq(FrameType) /\ \A i \in DOMAIN frames : frames[i].op = "cancel"
      BY <1>1, ContextFrames
    <2> HIDE DEF frames
    <2>3. Quiet(frames)
      BY <2>2 DEF Quiet
    <2> QED
      BY <2>1, <2>2, <2>3, UnchangedSame, SameGentle, RunWithGently
  <1> QED
    BY <1>2, <1>3

LEMMA RunGently ==
  ASSUME IInv, IInv', ReachInv, NEW t \in DOMAIN tasks, RunTask(t)
  PROVE  RunsGently(t) \/ RunThreadStart(t)
  <1>1. <<>> \in Seq(FrameType) /\ Quiet(<<>>)
    BY DEF Quiet
  <1>2. CASE RunFails(t)
    BY <1>2, RunRaisesGently DEF RunFails, Plain
  <1>3. CASE RunReleaseMutex(t)
    <2>1. /\ Running(t, {"ReleaseMutex"}) /\ UNCHANGED threads
          /\ RunRaises(t) \/ (RunWith(t, <<>>) /\ UNCHANGED tasks)
      BY <1>3 DEF RunReleaseMutex
    <2> QED
      BY <1>1, <2>1, UnchangedSame, SameGentle, RunWithGently, RunRaisesGently
  <1> QED
    BY <1>2, <1>3, RunSimpleGently, RunChoiceGently, RunThreadSplitGently, RunCancelGently
    DEF RunTask

LEMMA RunThreads == ASSUME IInv, IInv', ReachInv, ThreadInv, Run PROVE ThreadInv'
  BY RunGently, GentleRunThreads, RunThreadStartThreads DEF Run

LEMMA MethodsGently ==
  ASSUME IInv, UpdateWaitingTasks \/ Cancel
  PROVE  Gently
  <1>1. Tree(tasks, Specs) /\ UNCHANGED threads
    BY IInvSplit DEF UpdateWaitingTasks, Cancel
  <1>2. Same(tasks, tasks')
    BY <1>1, UnchangedSame, CancelBranchShrunk, ShrunkSame DEF UpdateWaitingTasks, Cancel
  <1>3. Completing(calls') \subseteq Completing(calls)
    <2>1. CASE UpdateWaitingTasks
      <3>1. calls' = <<Frame("visit", Root, {Root})>>
        BY <2>1 DEF UpdateWaitingTasks
      <3> QED
        BY <3>1 DEF Completing, Frame
    <2>2. CASE Cancel
      BY <2>2 DEF Cancel
    <2> QED
      BY <2>1, <2>2
  <1> QED
    BY <1>1, <1>2, <1>3, SameGentle DEF Gently

LEMMA ResetGently == ASSUME IInv, IInv', OrderlyReset PROVE Gently
  <1>1. PICK t \in DOMAIN tasks : GoBack(t)
    BY OrderlyResetGoesBack
  <1> DEFINE pruned == RemoveBranches(tasks, Children(tasks, t))
             bare   == SetState(pruned, {t}, "FUTURE")
  <1>2. /\ Tree(tasks, Specs) /\ Tree(tasks', Specs) /\ threads \in Nat
        /\ calls = <<>> /\ UNCHANGED threads
    BY <1>1, IInvSplit, IInvSplitPrime DEF OthersTyped, GoBack, MayReset, Quiescent
  <1>3. /\ Tree(pruned, Specs) /\ Shrunk(tasks, pruned)
        /\ Tree(bare, Specs) /\ t \in DOMAIN bare /\ bare[t].state = "FUTURE"
    BY <1>1, ResetParts
  <1>4. PICK n \in Nat : tasks' = PredictHook(bare, t, n)
    BY <1>1, ResetParts
  <1> HIDE DEF pruned
  <1>5. Same(tasks, bare)
    <2>1. Same(tasks, pruned)
      BY <1>3, ShrunkSame
    <2>2. Same(pruned, bare)
      BY <1>3, SetSame
    <2> QED
      BY <2>1, <2>2, SameTwice
  <1> HIDE DEF bare
  <1>6. Completing(calls') = {}
    <2> DEFINE mask == PREDICTED \union {"FUTURE"}
               next == PredictNext(tasks', t, 0, mask)
               f    == PredictFrame(t, next, 1, mask)
               g    == Frame("hook", t, {})
    <2>1. calls' = <<f>> \o <<g>>
      BY <1>1 DEF GoBack, ResetBranch
    <2>2. next \in SUBSET Path /\ t \in Path /\ mask \in SUBSET ANY
      BY <1>2, PredictNextTyped, StateTyped, MasksTyped
    <2> HIDE DEF next, mask
    <2>3. f \in FrameType /\ g \in FrameType /\ f.op = "predict" /\ g.op = "hook"
      BY <2>2, PredictFrameTyped, FrameTyped DEF PredictFrame, Frame, Ops
    <2> HIDE DEF f, g
    <2>4. <<f>> \in Seq(FrameType) /\ Quiet(<<f>>) /\ <<g>> \in Seq(FrameType) /\ Quiet(<<g>>)
      BY <2>3 DEF Quiet
    <2> QED
      BY <2>1, <2>4, CompletingConcat, QuietCompleting
  <1>7. PICK states : Grown(bare, tasks', t, states) /\ Foresees(bare, t, states)
    BY <1>3, <1>4, PredictHookGrown DEF EXPECTED
  <1>8. Gentle(bare, tasks')
    <2>1. states \intersect {"READY", "COMPLETED"} = {}
      BY <1>7, StatesDiffer DEF Foresees
    <2> QED
      BY <1>2, <1>3, <1>7, <2>1, GrownGentle
  \* What the reset has removed does not come back.
  <1>9. ASSUME NEW p \in Path, Known(tasks, p), p \in DOMAIN tasks'
        PROVE  p \in DOMAIN bare /\ p \in DOMAIN tasks
    <2>1. Known(pruned, p)
      BY <1>3, <1>9, ShrunkKnown
    <2>2. DOMAIN bare = DOMAIN pruned /\ \A d \in DOMAIN pruned : bare[d].born = pruned[d].born
      BY <1>3, SetStateEffect DEF bare
    <2>3. Known(bare, p)
      BY <2>1, <2>2 DEF Known
    <2> QED
      BY <1>5, <1>8, <1>9, <2>3 DEF Gentle, Same
  <1>10. \A d \in DOMAIN tasks \intersect DOMAIN tasks' : d \in DOMAIN bare
    BY <1>2, <1>9, LiveIsKnown, StateTyped
  <1>11. Handed(tasks, tasks') /\ NoneFires(tasks, tasks')
    BY <1>5, <1>8, <1>10 DEF Gentle, Handed, Same, NoneFires
  <1> QED
    BY <1>2, <1>6, <1>9, <1>11 DEF Gently, Gentle
-----------------------------------------------------------------------------
(* The theorem *)

LEMMA InitThreads == ASSUME Init PROVE ThreadInv
  <1>1. /\ DOMAIN tasks = {Root} /\ tasks[Root].thread = 0 /\ tasks[Root].state = "FUTURE"
        /\ threads = 0
    BY DEF Init
  <1>2. Completing(calls) = {}
    <2> DEFINE f == PredictFrame(Root, {Root}, 0, NOT_FINISHED)
               g == Frame("hook", Root, {})
    <2>1. calls = <<f, g>> /\ f.op = "predict" /\ g.op = "hook"
      BY DEF Init, PredictFrame, Frame
    <2> HIDE DEF f, g
    <2> QED
      BY <2>1 DEF Completing
  <1> QED
    BY <1>1, <1>2 DEF ThreadInv, Threaded, Owners, Given, Begun

LEMMA NextThreads == ASSUME IInv, ReachInv, ThreadInv, [OrderlyNext]_vars PROVE ThreadInv'
  <1>1. IInv'
    BY OrderlyIInv
  <1>2. CASE OrderlyNext
    BY <1>1, <1>2, StepThreads, RunThreads, MethodsGently, ResetGently, GentleThreads DEF OrderlyNext
  <1>3. CASE UNCHANGED vars
    <2>1. UNCHANGED <<tasks, calls, threads>>
      BY <1>3 DEF vars
    <2> QED
      BY <2>1 DEF ThreadInv
  <1> QED
    BY <1>2, <1>3

\* A task is in the thread of the nearest task before it that has one of its own.
LEMMA NearestOwner ==
  ASSUME NEW T, Tree(T, Specs), NEW a \in DOMAIN T, NEW d \in Below(T, a),
         \A b \in Owners(T) : Above(a, b) => d \notin Branch(T, b)
  PROVE  T[d].thread = T[a].thread
  <1> DEFINE S == {e \in Branch(T, a) : d \in Branch(T, e) /\ T[e].thread # T[a].thread}
  <1> SUFFICES ASSUME S # {} PROVE FALSE
    BY DEF Branch, Below
  <1>1. S \in SUBSET Path /\ a \in Path /\ d \in Path
    BY StateTyped DEF Branch, Below
  <1>2. PICK e \in S : \A u \in S : ~Above(u, e)
    <2> HIDE DEF S
    <2> QED
      BY <1>1, TopmostExists
  <1>3. e \in DOMAIN T /\ e # a /\ Above(a, e) /\ d \in Branch(T, e)
    BY <1>2 DEF Branch, Below
  <1>4. e # Root /\ e \in Path
    BY <1>1, <1>2, <1>3, NothingAboveRoot
  <1>5. /\ Parent(e) \in DOMAIN T /\ Parent(e) \in Path
        /\ Parent(e) \in Branch(T, a) /\ Above(Parent(e), e)
    BY <1>3, <1>4, ParentLive, BranchChild, AboveParent DEF Branch, Below
  <1>6. d \in Branch(T, Parent(e))
    BY <1>1, <1>3, <1>4, <1>5, AboveTransitive DEF Branch, Below
  <1>7. T[Parent(e)].thread = T[a].thread
    BY <1>2, <1>5, <1>6
  <1>8. e \in Owners(T)
    BY <1>2, <1>3, <1>4, <1>7 DEF Owners, Given
  <1> QED
    BY <1>3, <1>8

\* The threads of ThreadStarts that have run are separate, whatever the net: with
\* any number of instances, ThreadStarts within the thread of others, and branches
\* that are cancelled, joined or reset.  A reset ThreadStart keeps its thread until it
\* is run again, and a join never meets a task of a thread that is not its own.
THEOREM ThreadsAlwaysSeparate == OrderlySpec => []ThreadsSeparate
  <1>1. IInv /\ ThreadInv => ThreadsSeparate
    <2> SUFFICES ASSUME IInv, ThreadInv PROVE ThreadsSeparate
      OBVIOUS
    <2>1. Tree(tasks, Specs)
      BY IInvSplit
    <2>2. \A a \in DOMAIN tasks :
             Kind(tasks[a].spec) = "ThreadStart" /\ a \in InState(tasks, {"COMPLETED"})
                => a \in Owners(tasks)
      BY DEF ThreadInv, Begun, IsHead, InState
    <2>3. \A b \in Owners(tasks) : b \in DOMAIN tasks /\ Kind(tasks[b].spec) = "ThreadStart"
      BY DEF ThreadInv, Threaded, IsHead, Owners
    <2>4. \A a, b \in Owners(tasks) : tasks[a].thread = tasks[b].thread => a = b
      BY DEF ThreadInv, Threaded
    <2> QED
      BY <2>1, <2>2, <2>3, <2>4, NearestOwner DEF ThreadsSeparate
  <1>2. Init => ThreadInv
    BY InitThreads
  <1>3. IInv /\ ReachInv /\ ThreadInv /\ [OrderlyNext]_vars => ThreadInv'
    BY NextThreads
  <1> QED
    BY <1>1, <1>2, <1>3, ReachAlways, PTL DEF OrderlySpec
=============================================================================
