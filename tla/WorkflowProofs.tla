--------------------------- MODULE WorkflowProofs ---------------------------
(***************************************************************************)
(* Proofs about the engine of Workflow.tla, for every net and all bounds.  *)
(* The inductive invariant is TypeOK together with TreeClosed: a step of   *)
(* the engine adds children to a task and takes branches out of the tree,  *)
(* and neither is well typed unless parents are there and have counted     *)
(* their children.  What is proved of cancelling rests on it too.  Before  *)
(* that come facts about paths, and that every operation of TaskTree.tla   *)
(* turns a tree into a tree.                                               *)
(***************************************************************************)
EXTENDS WorkflowProperties, SequenceTheorems, FiniteSetTheorems, WellFoundedInduction, TLAPS

\* A tree whose parents are all there; specs is the set of spec names.
Tree(T, specs) == IsTree(T, specs) /\ Closed(T)

-----------------------------------------------------------------------------
(* Paths *)

LEMMA RootPath == Root \in Path /\ Len(Root) = 0
  BY DEF Root, Path

LEMMA PathLength == ASSUME NEW t \in Path PROVE Len(t) \in Nat
  BY DEF Path

LEMMA ParentPath ==
  ASSUME NEW t \in Path, t # Root
  PROVE  /\ Parent(t) \in Path
         /\ Len(Parent(t)) = Len(t) - 1
         /\ \A i \in 1..Len(Parent(t)) : Parent(t)[i] = t[i]
         /\ Slot(t) \in Nat
  <1>1. t \in Seq(Nat) /\ Len(t) \in Nat \ {0}
    BY EmptySeq DEF Path, Root
  <1>2. \A i \in 1..Len(t) : t[i] \in Nat
    BY <1>1, ElementOfSeq
  <1>3. /\ Parent(t) \in Path
        /\ Len(Parent(t)) = Len(t) - 1
        /\ \A i \in 1..(Len(t) - 1) : Parent(t)[i] = t[i]
    <2> DEFINE m == Len(t) - 1
    <2>1. m \in Int /\ 1 \in Int /\ \A i \in 1..m : t[i] \in Nat
      BY <1>1, <1>2
    <2>3. m \in Nat /\ (m - 1) + 1 = m /\ (m = 0 \/ m >= 1)
      <3>1. \A k \in Nat \ {0} : k - 1 \in Nat
        OBVIOUS
      <3>2. \A k \in Nat : (k - 1) + 1 = k /\ (k = 0 \/ k >= 1)
        OBVIOUS
      <3> QED
        BY <1>1, <3>1, <3>2
    <2> HIDE DEF m
    <2>2. /\ SubSeq(t, 1, m) \in Seq(Nat)
          /\ Len(SubSeq(t, 1, m)) = IF 1 <= m THEN m - 1 + 1 ELSE 0
          /\ \A i \in 1..(m - 1 + 1) : SubSeq(t, 1, m)[i] = t[1 + i - 1]
      BY <2>1, SubSeqProperties
    <2>4. Parent(t) = SubSeq(t, 1, m)
      BY DEF Parent, m
    <2>5. Parent(t) \in Path /\ Len(Parent(t)) = m
      BY <2>2, <2>3, <2>4 DEF Path
    <2>6. ASSUME NEW i \in 1..m PROVE Parent(t)[i] = t[i]
      <3>1. 1 + i - 1 = i
        OBVIOUS
      <3> QED
        BY <2>2, <2>3, <2>4, <3>1
    <2> QED
      BY <2>5, <2>6 DEF m
  <1>4. Slot(t) \in Nat
    BY <1>1, <1>2 DEF Slot
  <1> QED
    BY <1>3, <1>4

LEMMA AppendPath ==
  ASSUME NEW t \in Path, NEW n \in Nat
  PROVE  /\ Append(t, n) \in Path
         /\ Append(t, n) # t
         /\ Append(t, n) # Root
         /\ Parent(Append(t, n)) = t
         /\ Slot(Append(t, n)) = n
  BY DEF Path, Root, Parent, Slot

\* A path that is above the parent of t is above t, and so is the parent.
LEMMA AboveParent ==
  ASSUME NEW t \in Path, t # Root, NEW r \in Path,
         r = Parent(t) \/ Above(r, Parent(t))
  PROVE  Above(r, t)
  <1>1. Len(t) \in Nat /\ Len(r) \in Nat
    BY PathLength
  <1>2. Len(Parent(t)) = Len(t) - 1 /\ \A i \in 1..Len(Parent(t)) : Parent(t)[i] = t[i]
    BY ParentPath
  <1>3. CASE r = Parent(t)
    BY <1>1, <1>2, <1>3 DEF Above
  <1>4. CASE Above(r, Parent(t))
    BY <1>1, <1>2, <1>4 DEF Above
  <1> QED
    BY <1>3, <1>4

LEMMA NothingAboveRoot == ASSUME NEW r \in Path PROVE ~Above(r, Root)
  BY RootPath, PathLength DEF Above

\* A child lies strictly deeper than its parent.
LEMMA ChildDeeper ==
  ASSUME NEW T, NEW specs, IsTree(T, specs), NEW t \in Path, NEW c \in Children(T, t)
  PROVE  c \in Path /\ c # Root /\ c # t /\ ~Above(c, t)
  <1>1. c \in Path /\ c # Root /\ Parent(c) = t
    BY DEF Children, IsTree
  <1>2. Len(t) = Len(c) - 1 /\ Len(c) \in Nat
    BY <1>1, ParentPath, PathLength
  <1> QED
    BY <1>1, <1>2 DEF Above
-----------------------------------------------------------------------------
(* The operations that only change records *)

LEMMA SetStateTree ==
  ASSUME NEW T, NEW specs, Tree(T, specs), NEW S, NEW state \in ANY
  PROVE  /\ Tree(SetState(T, S, state), specs)
         /\ DOMAIN SetState(T, S, state) = DOMAIN T
  <1> DEFINE U == SetState(T, S, state)
  <1>1. DOMAIN U = DOMAIN T
    BY DEF SetState
  <1>2. \A t \in DOMAIN T : U[t] \in TaskType(specs) /\ U[t].born = T[t].born
    BY DEF SetState, Tree, IsTree, TaskType
  <1> HIDE DEF U
  <1>3. IsTree(U, specs)
    BY <1>1, <1>2 DEF Tree, IsTree
  <1>4. Closed(U)
    BY <1>1, <1>2 DEF Tree, Closed
  <1> QED
    BY <1>1, <1>3, <1>4 DEF Tree, U

LEMMA SetStateEffect ==
  ASSUME NEW T, NEW specs, Tree(T, specs), NEW S, NEW state
  PROVE  /\ DOMAIN SetState(T, S, state) = DOMAIN T
         /\ \A d \in DOMAIN T :
               /\ SetState(T, S, state)[d].spec = T[d].spec
               /\ SetState(T, S, state)[d].born = T[d].born
               /\ SetState(T, S, state)[d].thread = T[d].thread
               /\ SetState(T, S, state)[d].state = IF d \in S THEN state ELSE T[d].state
  BY DEF SetState, Tree, IsTree, TaskType

LEMMA AssignThreadTree ==
  ASSUME NEW T, NEW specs, Tree(T, specs), NEW t, NEW id \in Nat
  PROVE  /\ Tree(AssignThread(T, t, id), specs)
         /\ DOMAIN AssignThread(T, t, id) = DOMAIN T
         /\ \A d \in DOMAIN T : /\ AssignThread(T, t, id)[d].state = T[d].state
                                /\ AssignThread(T, t, id)[d].spec = T[d].spec
                                /\ AssignThread(T, t, id)[d].born = T[d].born
                                /\ AssignThread(T, t, id)[d].thread =
                                      IF d \in Branch(T, t) THEN id ELSE T[d].thread
  <1> DEFINE U == AssignThread(T, t, id)
  <1>1. DOMAIN U = DOMAIN T
    BY DEF AssignThread
  <1>2. \A d \in DOMAIN T : /\ U[d] \in TaskType(specs) /\ U[d].born = T[d].born
                           /\ U[d].state = T[d].state /\ U[d].spec = T[d].spec
                           /\ U[d].thread = IF d \in Branch(T, t) THEN id ELSE T[d].thread
    BY DEF AssignThread, Tree, IsTree, TaskType
  <1> HIDE DEF U
  <1>3. IsTree(U, specs)
    BY <1>1, <1>2 DEF Tree, IsTree
  <1>4. Closed(U)
    BY <1>1, <1>2 DEF Tree, Closed
  <1> QED
    BY <1>1, <1>2, <1>3, <1>4 DEF Tree, U

LEMMA ReadyTree ==
  ASSUME NEW T, NEW specs, Tree(T, specs), NEW t
  PROVE  Tree(Ready(T, t), specs)
  BY SetStateTree DEF Ready, ANY, NOT_FINISHED, DEFINITE

-----------------------------------------------------------------------------
(* The operations that remove tasks *)

LEMMA RemoveBranchesTree ==
  ASSUME NEW T, NEW specs, Tree(T, specs), NEW S \in SUBSET Path, Root \notin S
  PROVE  /\ Tree(RemoveBranches(T, S), specs)
         /\ DOMAIN RemoveBranches(T, S) \subseteq DOMAIN T
         /\ \A d \in DOMAIN T : (\A r \in S : r # d /\ ~Above(r, d)) =>
               d \in DOMAIN RemoveBranches(T, S)
         /\ \A d \in DOMAIN RemoveBranches(T, S) : RemoveBranches(T, S)[d] = T[d]
  <1> DEFINE U == RemoveBranches(T, S)
  <1>1. /\ DOMAIN U = {d \in DOMAIN T : ~\E r \in S : r = d \/ Above(r, d)}
        /\ \A d \in DOMAIN U : U[d] = T[d]
    BY DEF RemoveBranches
  <1> HIDE DEF U
  <1>2. IsTree(U, specs)
    BY <1>1 DEF Tree, IsTree
  <1>3. Root \in DOMAIN U
    BY <1>1, NothingAboveRoot DEF Tree, Closed
  <1>4. ASSUME NEW d \in DOMAIN U \ {Root}
        PROVE  Parent(d) \in DOMAIN U /\ Slot(d) \in 1..U[Parent(d)].born
    <2>1. d \in DOMAIN T \ {Root} /\ d \in Path
      BY <1>1, <1>4 DEF Tree, IsTree
    <2>2. Parent(d) \in DOMAIN T /\ Slot(d) \in 1..T[Parent(d)].born
      BY <2>1 DEF Tree, Closed
    <2>3. ~\E r \in S : r = Parent(d) \/ Above(r, Parent(d))
      BY <1>1, <1>4, <2>1, AboveParent
    <2> QED
      BY <1>1, <2>2, <2>3
  <1> QED
    BY <1>1, <1>2, <1>3, <1>4 DEF Tree, Closed, U

LEMMA DropChildrenTree ==
  ASSUME NEW T, NEW specs, Tree(T, specs), NEW S \in SUBSET Path
  PROVE  Tree(DropChildren(T, S), specs)
  <1> DEFINE dropped == {d \in InState(T, NOT_FINISHED) : \E t \in S : Above(t, d)}
  <1>1. dropped \in SUBSET Path
    BY DEF InState, Tree, IsTree
  <1>2. Root \notin dropped
    BY NothingAboveRoot
  <1> HIDE DEF dropped
  <1>3. Tree(RemoveBranches(T, dropped), specs)
    BY <1>1, <1>2, RemoveBranchesTree
  <1> QED
    BY <1>3 DEF DropChildren, dropped

LEMMA CancelBranchTree ==
  ASSUME NEW T, NEW specs, Tree(T, specs), NEW t
  PROVE  Tree(CancelBranch(T, t), specs)
  <1> DEFINE open == Branch(T, t) \intersect InState(T, NOT_FINISHED)
             top  == {d \in open : ~\E e \in open : Above(e, d)}
  <1>1. top \in SUBSET Path
    BY DEF InState, Tree, IsTree
  <1> HIDE DEF open, top
  <1>2. "CANCELLED" \in ANY
    BY DEF ANY, FINISHED
  <1>3. Tree(SetState(T, top, "CANCELLED"), specs)
    BY <1>2, SetStateTree
  <1>4. Tree(DropChildren(SetState(T, top, "CANCELLED"), top), specs)
    BY <1>1, <1>3, DropChildrenTree
  <1> QED
    BY <1>4 DEF CancelBranch, open, top

-----------------------------------------------------------------------------
(* The operations that add tasks *)

\* U is T after children have been appended to t and others removed: the children
\* that are new, or were unfinished, are in one of some states.
Grown(T, U, t, states) ==
    /\ t \in DOMAIN T /\ t \in DOMAIN U /\ U[t].state = T[t].state
    /\ \A d \in DOMAIN T \intersect DOMAIN U :
          /\ U[d].spec = T[d].spec /\ U[d].thread = T[d].thread
          /\ U[d].born >= T[d].born
          /\ \/ U[d].state = T[d].state
             \/ /\ d # Root /\ Parent(d) = t
                /\ T[d].state \in NOT_FINISHED /\ U[d].state \in states
    /\ \A d \in DOMAIN U \ DOMAIN T :
          /\ d # Root /\ Parent(d) = t /\ Slot(d) > T[t].born
          /\ U[d].state \in states /\ U[d].thread = T[t].thread

LEMMA AddChildrenTree ==
  ASSUME NEW T, NEW specs, Tree(T, specs), NEW t \in DOMAIN T, NEW n \in Nat,
         NEW new, DOMAIN new \subseteq 1..n, \A i \in DOMAIN new : new[i] \in specs,
         NEW state \in ANY
  PROVE  /\ Tree(AddChildren(T, t, new, n, state), specs)
         /\ DOMAIN T \subseteq DOMAIN AddChildren(T, t, new, n, state)
         /\ Grown(T, AddChildren(T, t, new, n, state), t, {state})
  <1> DEFINE added == {Append(t, T[t].born + i) : i \in DOMAIN new}
             U     == AddChildren(T, t, new, n, state)
  <1>1. t \in Path /\ T[t].born \in Nat /\ T[t].thread \in Nat
    BY DEF Tree, IsTree, TaskType
  <1>2. ASSUME NEW d \in added
        PROVE  /\ d \in Path /\ d # t /\ d # Root /\ Parent(d) = t
               /\ Slot(d) - T[t].born \in DOMAIN new
               /\ Slot(d) \in (T[t].born + 1)..(T[t].born + n)
    <2>1. PICK i \in DOMAIN new : d = Append(t, T[t].born + i)
      OBVIOUS
    <2>2. i \in 1..n /\ T[t].born + i \in Nat
      BY <1>1
    <2>3. /\ Append(t, T[t].born + i) \in Path
          /\ Append(t, T[t].born + i) # t
          /\ Append(t, T[t].born + i) # Root
          /\ Parent(Append(t, T[t].born + i)) = t
          /\ Slot(Append(t, T[t].born + i)) = T[t].born + i
      BY <1>1, <2>2, AppendPath
    <2> QED
      BY <1>1, <2>1, <2>2, <2>3
  <1> HIDE DEF added
  <1>3. DOMAIN U = DOMAIN T \union added
    BY DEF AddChildren, added
  <1>4. ASSUME NEW d \in added
        PROVE  U[d] = [spec |-> new[Slot(d) - T[t].born], state |-> state,
                       thread |-> T[t].thread, born |-> 0]
    BY <1>2 DEF AddChildren, added
  <1>5. t \notin added /\ U[t] = [T[t] EXCEPT !.born = @ + n]
    BY <1>2 DEF AddChildren, added
  <1>6. ASSUME NEW d \in DOMAIN T \ added, d # t
        PROVE  U[d] = T[d]
    BY <1>6 DEF AddChildren, added
  <1> HIDE DEF U
  <1>7. U[t].born = T[t].born + n /\ U[t] \in TaskType(specs)
    <2>1. T[t] \in TaskType(specs)
      BY DEF Tree, IsTree
    <2> QED
      BY <1>1, <1>5, <2>1 DEF TaskType
  <1>8. IsTree(U, specs)
    <2> SUFFICES ASSUME NEW d \in DOMAIN U
                 PROVE  d \in Path /\ U[d] \in TaskType(specs)
      BY DEF IsTree
    <2>1. CASE d \in added
      <3>1. d \in Path /\ Slot(d) - T[t].born \in DOMAIN new
        BY <1>2, <2>1
      <3>2. U[d] = [spec |-> new[Slot(d) - T[t].born], state |-> state,
                    thread |-> T[t].thread, born |-> 0]
        BY <1>4, <2>1
      <3> QED
        BY <1>1, <3>1, <3>2 DEF TaskType
    <2>2. CASE d = t
      BY <1>1, <1>7, <2>2
    <2>3. CASE d \in DOMAIN T \ added /\ d # t
      BY <1>6, <2>3 DEF Tree, IsTree
    <2> QED
      BY <1>3, <2>1, <2>2, <2>3
  <1>9. added \intersect DOMAIN T = {}
    <2> SUFFICES ASSUME NEW d \in added, d \in DOMAIN T PROVE FALSE
      OBVIOUS
    <2>1. d # Root /\ Parent(d) = t /\ Slot(d) \in (T[t].born + 1)..(T[t].born + n)
      BY <1>2
    <2>2. Slot(d) \in 1..T[t].born
      BY <2>1 DEF Tree, Closed
    <2> QED
      BY <1>1, <2>1, <2>2
  <1>10. \A d \in DOMAIN T : U[d].born \in Nat /\ U[d].born >= T[d].born
    <2> SUFFICES ASSUME NEW d \in DOMAIN T
                 PROVE  U[d].born \in Nat /\ U[d].born >= T[d].born
      OBVIOUS
    <2>1. T[d].born \in Nat
      BY DEF Tree, IsTree, TaskType
    <2> QED
      BY <1>1, <1>6, <1>7, <1>9, <2>1
  <1>11. Closed(U)
    <2>1. Root \in DOMAIN U
      BY <1>3 DEF Tree, Closed
    <2>2. ASSUME NEW d \in DOMAIN U \ {Root}
          PROVE  Parent(d) \in DOMAIN U /\ Slot(d) \in 1..U[Parent(d)].born
      <3>1. CASE d \in added
        BY <1>1, <1>2, <1>3, <1>7, <3>1
      <3>2. CASE d \in DOMAIN T
        <4>1. Parent(d) \in DOMAIN T /\ Slot(d) \in 1..T[Parent(d)].born
          BY <2>2, <3>2 DEF Tree, Closed
        <4>2. T[Parent(d)].born \in Nat
          BY <4>1 DEF Tree, IsTree, TaskType
        <4> QED
          BY <1>3, <1>10, <4>1, <4>2
      <3> QED
        BY <1>3, <2>2, <3>1, <3>2
    <2> QED
      BY <2>1, <2>2 DEF Closed
  <1>12. Grown(T, U, t, {state})
    <2>1. ASSUME NEW d \in DOMAIN T
          PROVE  /\ U[d].spec = T[d].spec /\ U[d].thread = T[d].thread
                 /\ U[d].state = T[d].state
                 /\ U[d].born >= T[d].born
      <3>1. d \notin added /\ T[d] \in TaskType(specs)
        BY <1>9 DEF Tree, IsTree
      <3> QED
        BY <1>5, <1>6, <1>10, <3>1 DEF TaskType
    <2>2. ASSUME NEW d \in DOMAIN U \ DOMAIN T
          PROVE  /\ d # Root /\ Parent(d) = t /\ Slot(d) > T[t].born
                 /\ U[d].state = state /\ U[d].thread = T[t].thread
      <3>1. d \in added
        BY <1>3
      <3>2. d # Root /\ Parent(d) = t /\ Slot(d) \in (T[t].born + 1)..(T[t].born + n)
        BY <1>2, <3>1
      <3>4. U[d] = [spec |-> new[Slot(d) - T[t].born], state |-> state,
                    thread |-> T[t].thread, born |-> 0]
        BY <1>4, <3>1
      <3>3. U[d].state = state /\ U[d].thread = T[t].thread
        BY <3>4
      <3> QED
        BY <1>1, <3>2, <3>3
    <2> QED
      BY <1>3, <1>5, <2>1, <2>2 DEF Grown
  <1> QED
    BY <1>3, <1>8, <1>11, <1>12 DEF Tree, U

\* _sync_children: outs is a list of specs, with gaps, of length n.
LEMMA SyncChildrenTree ==
  ASSUME NEW T, NEW specs, Tree(T, specs), NEW t \in DOMAIN T, NEW n \in Nat,
         NEW outs, DOMAIN outs \subseteq 1..n, \A i \in DOMAIN outs : outs[i] \in specs,
         NEW state \in ANY
  PROVE  /\ Tree(SyncChildren(T, t, outs, n, state), specs)
         /\ t \in DOMAIN SyncChildren(T, t, outs, n, state)
         /\ Grown(T, SyncChildren(T, t, outs, n, state), t, {state})
  <1> DEFINE kept == Kept(T, t, outs, n)
             gone == Children(T, t) \ kept
             set  == SetState(T, kept \intersect InState(T, NOT_FINISHED), state)
             old  == RemoveBranches(set, gone)
             new  == [i \in Missing(T, t, outs) |-> outs[i]]
  <1>1. t \in Path /\ \A c \in gone : c \in Path /\ c # Root /\ c # t /\ ~Above(c, t)
    BY ChildDeeper DEF Tree, IsTree
  <1>2. DOMAIN new \subseteq 1..n /\ \A i \in DOMAIN new : new[i] \in specs
    BY DEF Missing
  <1> HIDE DEF kept, gone, new
  <1>3. Tree(set, specs) /\ DOMAIN set = DOMAIN T
    BY SetStateTree
  <1>6. \A d \in DOMAIN T :
          /\ set[d].spec = T[d].spec /\ set[d].thread = T[d].thread /\ set[d].born = T[d].born
          /\ \/ set[d].state = T[d].state
             \/ /\ d # Root /\ Parent(d) = t /\ d # t
                /\ T[d].state \in NOT_FINISHED /\ set[d].state = state
    <2>1. \A d \in kept : d # Root /\ Parent(d) = t /\ d # t
      BY <1>1, ChildDeeper DEF kept, Kept, Children, Tree
    <2> QED
      BY <2>1, SetStateEffect DEF InState
  <1> HIDE DEF set
  <1>4. /\ Tree(old, specs) /\ t \in DOMAIN old /\ DOMAIN old \subseteq DOMAIN T
        /\ \A d \in DOMAIN old : old[d] = set[d]
    BY <1>1, <1>3, RemoveBranchesTree
  <1>7. /\ old[t] = set[t] /\ set[t].state = T[t].state
        /\ set[t].born = T[t].born /\ set[t].thread = T[t].thread
    <2>1. t = Root \/ Parent(t) # t
      BY <1>1, ParentPath, PathLength
    <2> QED
      BY <1>4, <1>6, <2>1
  <1>8. ASSUME NEW d \in DOMAIN set \ DOMAIN old
        PROVE  Slot(d) <= T[t].born \/ Parent(d) # t
    <2>1. d \in DOMAIN T /\ T[t].born \in Nat
      BY <1>3 DEF Tree, IsTree, TaskType
    <2>2. CASE d = Root
      BY <2>1, <2>2, <1>4 DEF Tree, Closed
    <2>3. CASE d # Root
      BY <2>1, <2>3 DEF Tree, Closed
    <2> QED
      BY <2>2, <2>3
  <1> HIDE DEF old
  <1> DEFINE U == AddChildren(old, t, new, n, state)
  <1>5. /\ Tree(U, specs)
        /\ DOMAIN old \subseteq DOMAIN U
        /\ Grown(old, U, t, {state})
    BY <1>2, <1>4, AddChildrenTree
  <1> HIDE DEF U
  <1>9. Grown(T, U, t, {state})
    <2>1. t \in DOMAIN U /\ U[t].state = T[t].state
      BY <1>4, <1>5, <1>7 DEF Grown
    <2>2. ASSUME NEW d \in DOMAIN U, d \notin DOMAIN old
          PROVE  /\ d \notin DOMAIN T
                 /\ d # Root /\ Parent(d) = t /\ Slot(d) > T[t].born
                 /\ U[d].state = state /\ U[d].thread = T[t].thread
      <3>1. d # Root /\ Parent(d) = t /\ Slot(d) > T[t].born
        BY <1>5, <1>7, <2>2 DEF Grown
      <3>2. U[d].state = state /\ U[d].thread = T[t].thread
        BY <1>5, <1>7, <2>2 DEF Grown
      <3>3. d \notin DOMAIN T
        <4>1. d \in Path /\ T[t].born \in Nat
          BY <1>5 DEF Tree, IsTree, TaskType
        <4>2. Slot(d) \in Nat
          BY <3>1, <4>1, ParentPath
        <4> QED
          BY <1>3, <1>8, <2>2, <3>1, <4>1, <4>2
      <3> QED
        BY <3>1, <3>2, <3>3
    <2>3. ASSUME NEW d \in DOMAIN old
          PROVE  /\ U[d].spec = T[d].spec /\ U[d].thread = T[d].thread
                 /\ U[d].born >= T[d].born
                 /\ \/ U[d].state = T[d].state
                    \/ /\ d # Root /\ Parent(d) = t
                       /\ T[d].state \in NOT_FINISHED /\ U[d].state = state
      <3>1. d \in DOMAIN T /\ d \in DOMAIN U /\ old[d] = set[d]
        BY <1>4, <1>5
      <3>2. U[d].spec = set[d].spec /\ U[d].thread = set[d].thread /\ U[d].born >= set[d].born
        BY <1>5, <3>1 DEF Grown
      <3>3. \/ U[d].state = set[d].state
            \/ /\ d # Root /\ Parent(d) = t
               /\ set[d].state \in NOT_FINISHED /\ U[d].state = state
        BY <1>5, <3>1 DEF Grown
      <3> QED
        BY <1>6, <3>1, <3>2, <3>3
    <2> QED
      BY <1>4, <1>5, <2>1, <2>2, <2>3 DEF Grown
  <1> QED
    BY <1>4, <1>5, <1>9 DEF SyncChildren, kept, gone, set, old, new, U

-----------------------------------------------------------------------------
(* Cancelling *)

LEMMA AboveTransitive ==
  ASSUME NEW a \in Path, NEW b \in Path, NEW c \in Path, Above(a, b), Above(b, c)
  PROVE  Above(a, c)
  BY PathLength DEF Above

LEMMA RootOnTop == ASSUME NEW t \in Path PROVE t = Root \/ Above(Root, t)
  <1>1. Len(t) \in Nat
    BY PathLength
  <1>2. CASE Len(t) = 0
    BY <1>2, EmptySeq DEF Root, Path
  <1>3. CASE Len(t) # 0
    BY <1>1, <1>3, RootPath DEF Above
  <1> QED
    BY <1>2, <1>3

\* Among some paths there is one that none of the others is above.
LEMMA TopmostExists ==
  ASSUME NEW S \in SUBSET Path, S # {}
  PROVE  \E t \in S : \A u \in S : ~Above(u, t)
  <1> DEFINE lengths == {Len(t) : t \in S}
             R       == {p \in Nat \X Nat : p[1] < p[2]}
  <1>1. lengths \subseteq Nat /\ lengths # {}
    BY PathLength
  <1>2. IsWellFoundedOn(R, Nat)
    BY NatLessThanWellFounded, Zenon DEF OpToRel
  <1> HIDE DEF R
  <1>3. PICK n \in lengths : \A m \in lengths : <<m, n>> \notin R
    <2> HIDE DEF lengths
    <2> QED
      BY <1>1, <1>2, WFMin
  <1>4. PICK t \in S : n = Len(t)
    OBVIOUS
  <1>5. ASSUME NEW u \in S PROVE ~Above(u, t)
    <2>1. Len(u) \in lengths /\ Len(u) \in Nat /\ Len(t) \in Nat
      BY <1>1
    <2>2. ~(Len(u) < Len(t))
      BY <1>3, <1>4, <2>1 DEF R
    <2> QED
      BY <2>2 DEF Above
  <1> QED
    BY <1>5

\* Task.cancel on the root leaves nothing unfinished: what is below a topmost
\* unfinished task is dropped, and every other unfinished task is such a top.
LEMMA CancelRootCompletes ==
  ASSUME NEW T, NEW specs, Tree(T, specs)
  PROVE  IsCompleted(CancelBranch(T, Root))
  <1> DEFINE open == Branch(T, Root) \intersect InState(T, NOT_FINISHED)
             top  == {d \in open : ~\E e \in open : Above(e, d)}
             V    == SetState(T, top, "CANCELLED")
             gone == {d \in InState(V, NOT_FINISHED) : \E t \in top : Above(t, d)}
             U    == RemoveBranches(V, gone)
  <1>1. DOMAIN T \subseteq Path
    BY DEF Tree, IsTree
  <1>2. open = InState(T, NOT_FINISHED)
    BY <1>1, RootOnTop DEF Branch, Below, InState, Tree, Closed
  <1>3. open \subseteq DOMAIN T
    BY DEF InState
  <1>4. /\ DOMAIN V = DOMAIN T
        /\ \A d \in top : d \in DOMAIN T => V[d].state = "CANCELLED"
        /\ \A d \in DOMAIN T \ top : V[d] = T[d]
    <2>1. \A d \in DOMAIN T : T[d] \in TaskType(specs)
      BY DEF Tree, IsTree
    <2> HIDE DEF top
    <2> QED
      BY <2>1 DEF SetState, TaskType
  <1>5. CancelBranch(T, Root) = U
    BY DEF CancelBranch, DropChildren
  <1>6. \A d \in DOMAIN U : d \in DOMAIN V /\ d \notin gone /\ U[d] = V[d]
    <2> HIDE DEF V, gone
    <2> QED
      BY DEF RemoveBranches
  <1> HIDE DEF U, V
  <1>7. SUFFICES ASSUME NEW d \in DOMAIN U, U[d].state \in NOT_FINISHED
                 PROVE  FALSE
    BY <1>5 DEF IsCompleted, InState
  <1>8. d \in DOMAIN T /\ d \in InState(V, NOT_FINISHED) /\ d \notin gone
    BY <1>4, <1>6, <1>7 DEF InState
  <1>9. d \notin top /\ T[d].state \in NOT_FINISHED
    <2>1. "CANCELLED" \notin NOT_FINISHED
      BY DEF NOT_FINISHED, PREDICTED, DEFINITE
    <2> HIDE DEF top
    <2> QED
      BY <1>4, <1>6, <1>7, <1>8, <2>1
  <1>10. d \in open
    BY <1>2, <1>8, <1>9 DEF InState
  <1> DEFINE over == {e \in open : Above(e, d)}
  <1>11. over # {} /\ over \in SUBSET Path
    <2> HIDE DEF open
    <2> QED
      BY <1>1, <1>3, <1>9, <1>10
  <1>12. PICK e \in over : \A f \in over : ~Above(f, e)
    <2> HIDE DEF over
    <2> QED
      BY <1>11, TopmostExists
  <1>13. e \in top
    <2> HIDE DEF open
    <2> SUFFICES ASSUME NEW f \in open, Above(f, e) PROVE FALSE
      OBVIOUS
    <2>1. f \in Path /\ e \in Path /\ d \in Path /\ Above(e, d)
      BY <1>1, <1>3, <1>10
    <2>2. Above(f, d)
      BY <2>1, AboveTransitive
    <2> QED
      BY <1>12, <2>2
  <1> HIDE DEF top
  <1> QED
    BY <1>8, <1>13
-----------------------------------------------------------------------------
(* No path is given out twice *)

\* The path p has been given out: whether it is live or removed, no task gets it.
Known(T, p) ==
    \A a \in DOMAIN T : Above(a, p) => p[Len(a) + 1] <= T[a].born

\* The parent of a task, seen from an ancestor.
LEMMA AncestorOrParent ==
  ASSUME NEW a \in Path, NEW p \in Path, Above(a, p)
  PROVE  /\ p # Root
         /\ \/ a = Parent(p) /\ p[Len(a) + 1] = Slot(p)
            \/ Above(a, Parent(p)) /\ p[Len(a) + 1] = Parent(p)[Len(a) + 1]
  <1>1. p # Root /\ Len(a) \in Nat /\ Len(p) \in Nat /\ Len(a) < Len(p)
    BY NothingAboveRoot, PathLength DEF Above
  <1>2. /\ Parent(p) \in Path /\ Len(Parent(p)) = Len(p) - 1
        /\ \A i \in 1..Len(Parent(p)) : Parent(p)[i] = p[i]
    BY <1>1, ParentPath
  <1>3. \A i \in 1..Len(a) : a[i] = p[i]
    BY DEF Above
  <1>4. CASE Len(a) = Len(p) - 1
    <2>1. a = Parent(p)
      BY <1>1, <1>2, <1>3, <1>4, SeqEqual DEF Path
    <2> QED
      BY <1>1, <1>4, <2>1 DEF Slot
  <1>5. CASE Len(a) < Len(p) - 1
    BY <1>1, <1>2, <1>3, <1>5 DEF Above
  <1> QED
    BY <1>1, <1>4, <1>5

LEMMA LiveIsKnown ==
  ASSUME NEW T, NEW specs, Tree(T, specs), NEW t \in DOMAIN T
  PROVE  Known(T, t)
  <1>1. DOMAIN T \subseteq Path
    BY DEF Tree, IsTree
  <1> SUFFICES ASSUME NEW a \in DOMAIN T, Above(a, t), ~(t[Len(a) + 1] <= T[a].born)
               PROVE  FALSE
    BY DEF Known
  <1> DEFINE S == {p \in DOMAIN T : Above(a, p) /\ ~(p[Len(a) + 1] <= T[a].born)}
  <1>2. S \in SUBSET Path /\ S # {}
    BY <1>1
  <1>3. PICK p \in S : \A u \in S : ~Above(u, p)
    <2> HIDE DEF S
    <2> QED
      BY <1>2, TopmostExists
  <1>4. p \in Path /\ a \in Path /\ p \in DOMAIN T /\ Above(a, p) /\ ~(p[Len(a) + 1] <= T[a].born)
    BY <1>1, <1>3
  <1>5. p # Root /\ Parent(p) \in DOMAIN T /\ Slot(p) \in 1..T[Parent(p)].born
    BY <1>4, AncestorOrParent DEF Tree, Closed
  <1>6. Parent(p) \in Path /\ Above(Parent(p), p)
    BY <1>4, <1>5, ParentPath, AboveParent
  <1>7. T[a].born \in Nat
    BY DEF Tree, IsTree, TaskType
  <1>8. CASE a = Parent(p) /\ p[Len(a) + 1] = Slot(p)
    BY <1>4, <1>5, <1>7, <1>8
  <1>9. CASE Above(a, Parent(p)) /\ p[Len(a) + 1] = Parent(p)[Len(a) + 1]
    BY <1>3, <1>4, <1>5, <1>6, <1>9
  <1> QED
    BY <1>4, <1>8, <1>9, AncestorOrParent

\* U is T without some of its tasks, and with some cancelled.
Shrunk(T, U) ==
    /\ DOMAIN U \subseteq DOMAIN T
    /\ \A d \in DOMAIN U : /\ U[d].spec = T[d].spec /\ U[d].thread = T[d].thread
                           /\ U[d].born = T[d].born
                           /\ U[d].state = T[d].state \/ U[d].state = "CANCELLED"

LEMMA ShrunkKnown ==
  ASSUME NEW T, NEW U, Shrunk(T, U), NEW p, Known(T, p)
  PROVE  Known(U, p)
  BY DEF Shrunk, Known

LEMMA GrownKnown ==
  ASSUME NEW T, NEW U, NEW specs, Tree(T, specs), Tree(U, specs), NEW t, NEW states,
         Grown(T, U, t, states), NEW p \in Path, Known(T, p)
  PROVE  /\ Known(U, p)
         /\ p \in DOMAIN U => p \in DOMAIN T
  <1>1. \A d \in DOMAIN U : d \in Path /\ U[d].born \in Nat
    BY DEF Tree, IsTree, TaskType
  <1>2. \A d \in DOMAIN T : d \in Path /\ T[d].born \in Nat
    BY DEF Tree, IsTree, TaskType
  \* No new task is on the way to p.
  <1>3. ASSUME NEW d \in DOMAIN U \ DOMAIN T PROVE d # p /\ ~Above(d, p)
    <2>1. d \in Path /\ d # Root /\ Parent(d) = t /\ Slot(d) > T[t].born /\ t \in DOMAIN T
      BY <1>1 DEF Grown
    <2>2. Above(t, d) /\ t \in Path /\ Len(t) = Len(d) - 1 /\ Len(d) \in Nat /\ Len(t) \in Nat
      BY <2>1, <1>2, ParentPath, PathLength, AboveParent
    <2>3. Slot(d) = d[Len(t) + 1] /\ Slot(d) \in Nat
      BY <2>1, <2>2, ParentPath DEF Slot
    <2> SUFFICES ASSUME d = p \/ Above(d, p) PROVE FALSE
      OBVIOUS
    <2>4. Above(t, p) /\ p[Len(t) + 1] = d[Len(t) + 1]
      <3>1. CASE d = p
        BY <2>2, <3>1
      <3>2. CASE Above(d, p)
        BY <2>1, <2>2, <3>2, AboveTransitive DEF Above
      <3> QED
        BY <3>1, <3>2
    <2>5. p[Len(t) + 1] <= T[t].born
      BY <2>1, <2>4 DEF Known
    <2> QED
      BY <1>2, <2>1, <2>3, <2>4, <2>5
  <1>4. ASSUME NEW a \in DOMAIN U, Above(a, p) PROVE p[Len(a) + 1] <= U[a].born
    <2>1. a \in DOMAIN T
      BY <1>3, <1>4
    <2>2. p[Len(a) + 1] <= T[a].born /\ U[a].born >= T[a].born
      BY <1>4, <2>1 DEF Known, Grown
    <2>3. p[Len(a) + 1] \in Nat
      <3>1. Len(a) \in Nat /\ Len(p) \in Nat /\ Len(a) < Len(p)
        BY <1>1, <1>4, PathLength DEF Above
      <3>2. Len(a) + 1 \in 1..Len(p)
        BY <3>1
      <3> QED
        BY <3>2, ElementOfSeq DEF Path
    <2> QED
      BY <1>1, <1>2, <2>1, <2>2, <2>3
  <1> QED
    BY <1>3, <1>4 DEF Known

LEMMA CancelBranchShrunk ==
  ASSUME NEW T, NEW specs, Tree(T, specs), NEW t
  PROVE  Shrunk(T, CancelBranch(T, t))
  <1> DEFINE open == Branch(T, t) \intersect InState(T, NOT_FINISHED)
             top  == {d \in open : ~\E e \in open : Above(e, d)}
             V    == SetState(T, top, "CANCELLED")
             gone == {d \in InState(V, NOT_FINISHED) : \E u \in top : Above(u, d)}
             U    == RemoveBranches(V, gone)
  <1> HIDE DEF open, top
  <1>1. /\ DOMAIN V = DOMAIN T
        /\ \A d \in DOMAIN T : /\ V[d].spec = T[d].spec /\ V[d].thread = T[d].thread
                               /\ V[d].born = T[d].born
                               /\ V[d].state = T[d].state \/ V[d].state = "CANCELLED"
    BY SetStateEffect
  <1> HIDE DEF V, gone
  <1>2. DOMAIN U \subseteq DOMAIN V /\ \A d \in DOMAIN U : U[d] = V[d]
    BY DEF RemoveBranches
  <1>3. U = CancelBranch(T, t)
    BY DEF CancelBranch, DropChildren, U, gone, V, top, open
  <1> HIDE DEF U
  <1> QED
    BY <1>1, <1>2, <1>3 DEF Shrunk

LEMMA DropChildrenShrunk ==
  ASSUME NEW T, NEW S
  PROVE  /\ Shrunk(T, DropChildren(T, S))
         /\ \A d \in DOMAIN DropChildren(T, S) : DropChildren(T, S)[d] = T[d]
  <1> DEFINE gone == {d \in InState(T, NOT_FINISHED) : \E t \in S : Above(t, d)}
  <1> HIDE DEF gone
  <1>1. /\ DOMAIN RemoveBranches(T, gone) \subseteq DOMAIN T
        /\ \A d \in DOMAIN RemoveBranches(T, gone) : RemoveBranches(T, gone)[d] = T[d]
    BY DEF RemoveBranches
  <1> QED
    BY <1>1 DEF DropChildren, Shrunk, gone

-----------------------------------------------------------------------------
(* The invariant of the engine *)

IInv == TypeOK /\ TreeClosed

\* What the most actions leave alone.
OthersTyped ==
    /\ locks \in SUBSET Mutexes
    /\ threads \in Nat /\ completions \in Nat
    /\ last \in Path
    /\ success \in BOOLEAN
    /\ resets \in 0..MaxResets /\ cancels \in 0..MaxCancels /\ faults \in 0..MaxFaults

LEMMA IInvSplit == IInv <=> Tree(tasks, Specs) /\ calls \in Seq(FrameType) /\ OthersTyped
  BY DEF IInv, TypeOK, TreeClosed, Tree, OthersTyped

LEMMA IInvSplitPrime ==
  IInv' <=> Tree(tasks', Specs) /\ (calls \in Seq(FrameType))' /\ OthersTyped'
  BY DEF IInv, TypeOK, TreeClosed, Tree, OthersTyped

others == <<locks, threads, last, success, completions, counters>>

LEMMA OthersUnchanged == OthersTyped /\ UNCHANGED others => OthersTyped'
  BY DEF OthersTyped, others, counters

-----------------------------------------------------------------------------
(* Frames and the stack *)

LEMMA FrameTyped ==
  ASSUME NEW op \in Ops, NEW t \in Path, NEW S \in SUBSET Path
  PROVE  Frame(op, t, S) \in FrameType
  BY DEF Frame, FrameType

LEMMA PredictFrameTyped ==
  ASSUME NEW t \in Path, NEW S \in SUBSET Path, NEW k \in Nat, NEW mask \in SUBSET ANY
  PROVE  PredictFrame(t, S, k, mask) \in FrameType
  BY DEF PredictFrame, FrameType, Ops

LEMMA ConcatTyped ==
  ASSUME NEW S, NEW a \in Seq(S), NEW b \in Seq(S)
  PROVE  a \o b \in Seq(S)
  BY ConcatProperties

\* The top frame of a call in progress, and what is below it.
LEMMA StackTyped ==
  ASSUME calls \in Seq(FrameType), calls # <<>>
  PROVE  /\ Top \in FrameType
         /\ Tail(calls) \in Seq(FrameType)
         /\ Top.task \in Path /\ Top.todo \in SUBSET Path
         /\ Top.looked \in Nat /\ Top.mask \in SUBSET ANY
  <1>1. Top \in FrameType /\ Tail(calls) \in Seq(FrameType)
    BY HeadTailProperties DEF Top
  <1> QED
    BY <1>1 DEF FrameType

LEMMA ReturnToTyped ==
  ASSUME calls \in Seq(FrameType), calls # <<>>,
         NEW frames \in Seq(FrameType), ReturnTo(frames)
  PROVE  calls' \in Seq(FrameType)
  BY StackTyped, ConcatTyped DEF ReturnTo

LEMMA CallWithTyped ==
  ASSUME calls \in Seq(FrameType), calls # <<>>,
         NEW frames \in Seq(FrameType), NEW S \in SUBSET Path, CallWith(frames, S)
  PROVE  calls' \in Seq(FrameType)
  <1> DEFINE again == IF S = {} THEN <<>> ELSE <<[Top EXCEPT !.todo = S]>>
  <1>1. [Top EXCEPT !.todo = S] \in FrameType
    BY StackTyped DEF FrameType
  <1>2. again \in Seq(FrameType)
    BY <1>1
  <1>3. calls' = frames \o again \o Tail(calls)
    BY DEF CallWith
  <1> HIDE DEF again
  <1> QED
    BY <1>2, <1>3, StackTyped, ConcatTyped

LEMMA MasksTyped ==
  /\ PREDICTED \in SUBSET ANY /\ NOT_FINISHED \in SUBSET ANY
  /\ PREDICTED \union {"FUTURE"} \in SUBSET ANY
  /\ {"FUTURE", "WAITING", "READY", "COMPLETED", "ERROR", "CANCELLED"} \subseteq ANY
  BY DEF ANY, NOT_FINISHED, FINISHED, PREDICTED, DEFINITE

LEMMA ChildrenTyped ==
  ASSUME NEW T, Tree(T, Specs), NEW t
  PROVE  Children(T, t) \in SUBSET Path /\ Children(T, t) \subseteq DOMAIN T
  BY DEF Tree, IsTree, Children

LEMMA UpdateFramesTyped ==
  ASSUME NEW t \in Path
  PROVE  UpdateFrames(t) \in Seq(FrameType)
  <1>1. PredictFrame(t, {t}, 0, PREDICTED) \in FrameType
    BY PredictFrameTyped, MasksTyped
  <1>2. Frame("hook", t, {}) \in FrameType
    BY FrameTyped DEF Ops
  <1>3. <<Frame("hook", t, {})>> \in Seq(FrameType)
    BY <1>2
  <1>4. (IF In(tasks, t, PREDICTED) THEN <<PredictFrame(t, {t}, 0, PREDICTED)>> ELSE <<>>)
          \in Seq(FrameType)
    BY <1>1
  <1> QED
    BY <1>3, <1>4, ConcatTyped DEF UpdateFrames

-----------------------------------------------------------------------------
(* The lists of specs that are synchronized with children *)

\* outs is a list of specs, with gaps, of length n.
Gapped(outs, n) == /\ n \in Nat
                   /\ DOMAIN outs \subseteq 1..n
                   /\ \A i \in DOMAIN outs : outs[i] \in Specs

LEMMA NetTyped ==
  ASSUME NEW s \in Specs
  PROVE  /\ Outputs(s) \in Seq(Specs) /\ Inputs(s) \in Seq(Specs)
         /\ Net[s].context \in Seq(Specs)
         /\ Net[s].cond \in SUBSET Specs
         /\ Net[s].times \in SUBSET Nat
         /\ Net[s].cancel \in BOOLEAN
         /\ Net[s].mutex \in Mutexes \union {None}
         /\ Kind(s) = "ExclusiveChoice" => Net[s].default \in Specs
         /\ Kind(s) \in {"AcquireMutex", "ReleaseMutex"} => Net[s].mutex \in Mutexes
  BY NetAssumption DEF SpecRecord, Outputs, Inputs, Kind, Mutexes

LEMMA PredictedTimesTyped ==
  ASSUME NEW s \in Specs
  PROVE  PredictedTimes(s) \in Nat
  <1>1. Net[s].times \in SUBSET Nat
    BY NetTyped
  <1>2. Cardinality(Net[s].times) = 1 => Net[s].times # {}
    BY FS_EmptySet
  <1> QED
    BY <1>1, <1>2 DEF PredictedTimes

LEMMA OutputsGapped ==
  ASSUME NEW s \in Specs
  PROVE  Gapped(Outputs(s), Len(Outputs(s)))
  BY NetTyped DEF Gapped

LEMMA PickGapped ==
  ASSUME NEW s \in Specs, NEW S
  PROVE  Gapped(Pick(Outputs(s), S), Len(Outputs(s)))
  BY NetTyped DEF Gapped, Pick

LEMMA RepeatGapped ==
  ASSUME NEW s \in Specs, NEW n \in Nat
  PROVE  Gapped(Repeat(Outputs(s), n), n * Len(Outputs(s)))
  <1> DEFINE outs == Outputs(s)
             k    == Len(outs)
  <1>1. outs \in Seq(Specs) /\ k \in Nat /\ DOMAIN outs = 1..k
    BY NetTyped
  <1>2. \A i \in 1..k : outs[i] \in Specs
    BY <1>1
  <1> HIDE DEF outs, k
  <1>3. n * k \in Nat
    BY <1>1
  <1>4. ASSUME NEW i \in 1..(n * k) PROVE outs[((i - 1) % k) + 1] \in Specs
    <2>1. k # 0
      <3> SUFFICES ASSUME k = 0 PROVE FALSE
        OBVIOUS
      <3>1. n * k = 0
        OBVIOUS
      <3> QED
        BY <3>1
    <2>2. i - 1 \in Nat
      OBVIOUS
    <2>3. (i - 1) % k \in 0..(k - 1)
      BY <1>1, <2>1, <2>2
    <2>4. ((i - 1) % k) + 1 \in 1..k
      BY <1>1, <2>3
    <2> QED
      BY <1>2, <2>4
  <1> QED
    BY <1>3, <1>4 DEF Repeat, Gapped, outs, k

LEMMA PredictedOutputsGapped ==
  ASSUME NEW s \in Specs, NEW n \in Nat
  PROVE  Gapped(PredictedOutputs(s, n), OutputCount(s, n))
  <1>1. OutputCount(s, n) = IF IsMultiple(s) THEN n * Len(Outputs(s)) ELSE Len(Outputs(s))
    BY NetTyped DEF OutputCount
  <1>2. IsChoice(s) => ~IsMultiple(s)
    BY DEF IsChoice, IsMultiple
  <1> QED
    BY <1>1, <1>2, OutputsGapped, PickGapped, RepeatGapped DEF PredictedOutputs, Unconditional

LEMMA SyncTyped ==
  ASSUME NEW T, Tree(T, Specs), NEW t \in DOMAIN T, NEW outs, NEW n, Gapped(outs, n),
         NEW state \in ANY
  PROVE  /\ Tree(SyncChildren(T, t, outs, n, state), Specs)
         /\ t \in DOMAIN SyncChildren(T, t, outs, n, state)
  BY SyncChildrenTree DEF Gapped

LEMMA PredictedStateTyped ==
  ASSUME NEW T, Tree(T, Specs), NEW t \in DOMAIN T
  PROVE  PredictedState(T, t) \in ANY
  <1>1. T[t].state \in ANY
    BY DEF Tree, IsTree, TaskType
  <1>2. "MAYBE" \in ANY /\ "LIKELY" \in ANY /\ "FUTURE" \in ANY
    BY DEF ANY, NOT_FINISHED, PREDICTED, DEFINITE
  <1> QED
    BY <1>1, <1>2 DEF PredictedState

LEMMA PredictHookTree ==
  ASSUME NEW T, Tree(T, Specs), NEW t \in DOMAIN T, NEW n \in Nat
  PROVE  Tree(PredictHook(T, t, n), Specs)
  <1> DEFINE s      == T[t].spec
             synced == SyncChildren(T, t, PredictedOutputs(s, n), OutputCount(s, n),
                                    PredictedState(T, t))
  <1>1. s \in Specs
    BY DEF Tree, IsTree, TaskType
  <1>2. Tree(synced, Specs) /\ t \in DOMAIN synced
    BY <1>1, PredictedOutputsGapped, PredictedStateTyped, SyncTyped
  <1>3. Gapped(Conditional(s), Len(Outputs(s)))
    BY <1>1, PickGapped DEF Conditional
  <1>4. "MAYBE" \in ANY
    BY DEF ANY, NOT_FINISHED, PREDICTED
  <1> HIDE DEF synced
  <1>5. Tree(AddChildren(synced, t, Conditional(s), Len(Outputs(s)), "MAYBE"), Specs)
    BY <1>2, <1>3, <1>4, AddChildrenTree DEF Gapped
  <1> QED
    BY <1>2, <1>5 DEF PredictHook, synced

\* The children that a prediction goes on with.
LEMMA PredictNextTyped ==
  ASSUME NEW T, Tree(T, Specs), NEW t, NEW k, NEW mask
  PROVE  PredictNext(T, t, k, mask) \in SUBSET Path
  BY ChildrenTyped DEF PredictNext

-----------------------------------------------------------------------------
(* Exceptions, and the state changes of update hooks *)

LEMMA RaiseTyped ==
  ASSUME Tree(tasks, Specs), Raise
  PROVE  Tree(tasks', Specs) /\ calls' \in Seq(FrameType)
  BY SetStateTree, MasksTyped DEF Raise

LEMMA ReturnTyped ==
  ASSUME calls \in Seq(FrameType), calls # <<>>, Return
  PROVE  calls' \in Seq(FrameType)
  BY StackTyped DEF Return

LEMMA SetReadyTyped ==
  ASSUME IInv, calls # <<>>, NEW t, SetReady(t)
  PROVE  Tree(tasks', Specs) /\ calls' \in Seq(FrameType)
  BY IInvSplit, ReadyTree, ReturnTyped DEF SetReady

LEMMA SetWaitingTyped ==
  ASSUME IInv, calls # <<>>, NEW t, SetWaiting(t)
  PROVE  Tree(tasks', Specs) /\ calls' \in Seq(FrameType)
  BY IInvSplit, SetStateTree, MasksTyped, ReturnTyped DEF SetWaiting

-----------------------------------------------------------------------------
(* The steps of a call *)

LEMMA PredictPreserves == ASSUME IInv, Predict PROVE IInv'
  <1>1. /\ calls # <<>> /\ calls \in Seq(FrameType) /\ Tree(tasks, Specs) /\ OthersTyped
    BY IInvSplit DEF Predict, Doing
  <1>2. OthersTyped'
    BY <1>1, OthersUnchanged DEF Predict, others
  <1>3. CASE Top.todo = {}
    BY <1>1, <1>2, <1>3, ReturnTyped, IInvSplitPrime DEF Predict
  <1>4. CASE Top.todo # {}
    <2> DEFINE n(t)    == PredictedTimes(tasks[t].spec)
               T(t)    == IF In(tasks, t, Top.mask) THEN PredictHook(tasks, t, n(t)) ELSE tasks
               next(t) == PredictNext(T(t), t, Top.looked, Top.mask)
    <2>1. PICK t \in Top.todo :
            /\ t \in DOMAIN tasks
            /\ \/ Raise
               \/ /\ tasks' = T(t)
                  /\ CallWith(IF next(t) = {} THEN <<>>
                              ELSE <<PredictFrame(t, next(t), Top.looked + 1, Top.mask)>>,
                              Top.todo \ {t})
      BY <1>4 DEF Predict
    <2>2. tasks[t].spec \in Specs /\ t \in Path
      BY <1>1, <2>1 DEF Tree, IsTree, TaskType
    <2>3. n(t) \in Nat
      BY <2>2, PredictedTimesTyped
    <2>4. Tree(T(t), Specs)
      BY <1>1, <2>1, <2>3, PredictHookTree
    <2>5. next(t) \in SUBSET Path
      BY <2>4, PredictNextTyped
    <2> HIDE DEF n, T, next
    <2>6. PredictFrame(t, next(t), Top.looked + 1, Top.mask) \in FrameType
      BY <1>1, <2>2, <2>5, StackTyped, PredictFrameTyped
    <2>7. (IF next(t) = {} THEN <<>>
           ELSE <<PredictFrame(t, next(t), Top.looked + 1, Top.mask)>>) \in Seq(FrameType)
      BY <2>6
    <2>8. Top.todo \ {t} \in SUBSET Path
      BY <1>1, StackTyped
    <2>9. Tree(tasks', Specs) /\ calls' \in Seq(FrameType)
      BY <1>1, <2>1, <2>4, <2>7, <2>8, RaiseTyped, CallWithTyped
    <2> QED
      BY <1>2, <2>9, IInvSplitPrime
  <1> QED
    BY <1>3, <1>4

LEMMA UpdateSimplePreserves == ASSUME IInv, UpdateSimple PROVE IInv'
  <1>1. Tree(tasks', Specs) /\ calls' \in Seq(FrameType)
    BY SetReadyTyped DEF UpdateSimple, Hook, Doing
  <1> QED
    BY <1>1, IInvSplit, IInvSplitPrime, OthersUnchanged DEF UpdateSimple, others

LEMMA UpdateFailsPreserves == ASSUME IInv, UpdateFails PROVE IInv'
  <1>1. Tree(tasks', Specs) /\ calls' \in Seq(FrameType)
    BY IInvSplit, RaiseTyped DEF UpdateFails
  <1>2. OthersTyped'
    BY IInvSplit, BoundsAssumption DEF UpdateFails, OthersTyped
  <1> QED
    BY <1>1, <1>2, IInvSplitPrime

LEMMA UpdateExecutePreserves == ASSUME IInv, UpdateExecute PROVE IInv'
  <1>1. Tree(tasks', Specs) /\ calls' \in Seq(FrameType)
    BY SetReadyTyped, SetWaitingTyped DEF UpdateExecute, Hook, Doing
  <1> QED
    BY <1>1, IInvSplit, IInvSplitPrime, OthersUnchanged DEF UpdateExecute, others

LEMMA UpdateGatePreserves == ASSUME IInv, UpdateGate PROVE IInv'
  <1>1. Tree(tasks', Specs) /\ calls' \in Seq(FrameType)
    BY SetReadyTyped, SetWaitingTyped DEF UpdateGate, Hook, Doing
  <1> QED
    BY <1>1, IInvSplit, IInvSplitPrime, OthersUnchanged DEF UpdateGate, others

LEMMA UpdateAcquirePreserves == ASSUME IInv, UpdateAcquire PROVE IInv'
  <1>1. Tree(tasks', Specs) /\ calls' \in Seq(FrameType)
    BY SetReadyTyped, SetWaitingTyped DEF UpdateAcquire, Hook, Doing
  <1>2. Top.task \in DOMAIN tasks /\ Kind(tasks[Top.task].spec) = "AcquireMutex"
    BY DEF UpdateAcquire, Hook
  <1>3. tasks[Top.task].spec \in Specs
    BY <1>2, IInvSplit DEF Tree, IsTree, TaskType
  <1>4. Net[tasks[Top.task].spec].mutex \in Mutexes
    BY <1>2, <1>3, NetTyped
  <1>5. OthersTyped'
    BY <1>4, IInvSplit DEF UpdateAcquire, OthersTyped, counters
  <1> QED
    BY <1>1, <1>5, IInvSplitPrime

LEMMA CancelNextPreserves == ASSUME IInv, CancelNext PROVE IInv'
  <1>1. calls # <<>> /\ calls \in Seq(FrameType) /\ Tree(tasks, Specs)
    BY IInvSplit DEF CancelNext, Doing
  <1>2. CASE Top.todo = {}
    <2>1. UNCHANGED tasks /\ Return
      BY <1>2 DEF CancelNext
    <2> QED
      BY <1>1, <2>1, ReturnTyped, IInvSplit, IInvSplitPrime, OthersUnchanged
         DEF CancelNext, others
  <1>3. CASE Top.todo # {}
    <2>1. PICK t \in Top.todo :
            /\ CallWith(<<>>, Top.todo \ {t})
            /\ tasks' = IF t \in DOMAIN tasks THEN CancelBranch(tasks, t) ELSE tasks
      BY <1>3 DEF CancelNext
    <2>2. Tree(tasks', Specs)
      BY <1>1, <2>1, CancelBranchTree
    <2>3. <<>> \in Seq(FrameType) /\ Top.todo \ {t} \in SUBSET Path
      BY <1>1, StackTyped
    <2>4. calls' \in Seq(FrameType)
      BY <1>1, <2>1, <2>3, CallWithTyped
    <2> QED
      BY <2>2, <2>4, IInvSplit, IInvSplitPrime, OthersUnchanged DEF CancelNext, others
  <1> QED
    BY <1>2, <1>3

LEMMA JoinFiresPreserves == ASSUME IInv, JoinFires PROVE IInv'
  <1>1. calls # <<>> /\ calls \in Seq(FrameType) /\ Tree(tasks, Specs)
    BY IInvSplit DEF JoinFires, Doing
  <1> DEFINE found == OtherInstances(tasks, Top.task)
  <1>2. found \in SUBSET Path
    BY <1>1 DEF OtherInstances, Instances, OfSpec, Tree, IsTree
  <1>3. tasks' = Ready(DoJoin(tasks, found), Top.task)
    BY DEF JoinFires
  <1> HIDE DEF found
  <1>4. Tree(DropChildren(tasks, found), Specs)
    BY <1>1, <1>2, DropChildrenTree
  <1>5. Tree(DoJoin(tasks, found), Specs)
    BY <1>4, SetStateTree, MasksTyped DEF DoJoin
  <1>6. Tree(tasks', Specs)
    BY <1>3, <1>5, ReadyTree
  <1>7. calls' \in Seq(FrameType)
    BY <1>1, ReturnTyped DEF JoinFires
  <1> QED
    BY <1>6, <1>7, IInvSplit, IInvSplitPrime, OthersUnchanged DEF JoinFires, others
LEMMA UpdateJoinPreserves == ASSUME IInv, UpdateJoin PROVE IInv'
  <1>1. calls # <<>> /\ calls \in Seq(FrameType) /\ Tree(tasks, Specs)
    BY IInvSplit DEF UpdateJoin, Hook, Doing
  <1>2. Top.task \in DOMAIN tasks
    BY DEF UpdateJoin, Hook
  <1> DEFINE j       == Top.task
             s       == tasks[j].spec
             waiting == WaitingTasks(tasks, j)
             cancels1 == IF Net[s].cancel
                         THEN [i \in DOMAIN waiting |-> Frame("cancel", j, waiting[i])]
                         ELSE <<>>
             fire    == <<Frame("join", j, {})>>
  <1>3. j \in Path /\ s \in Specs
    BY <1>1, <1>2 DEF Tree, IsTree, TaskType
  <1>4. fire \in Seq(FrameType)
    BY <1>3, FrameTyped DEF Ops
  <1>5. cancels1 \in Seq(FrameType)
    <2>1. \E k \in Nat : DOMAIN waiting = 1..k
      <3>1. Inputs(s) \in Seq(Specs)
        BY <1>3, NetTyped
      <3>2. Len(Inputs(s)) \in Nat /\ DOMAIN Inputs(s) = 1..Len(Inputs(s))
        BY <3>1, LenProperties
      <3>3. DOMAIN waiting = 1..Len(Inputs(s)) \/ DOMAIN waiting = 1..1
        BY <3>2 DEF WaitingTasks
      <3> QED
        BY <3>2, <3>3
    <2>2. \A i \in DOMAIN waiting : waiting[i] \in SUBSET Path
      BY <1>1, ChildrenTyped DEF WaitingTasks, Instances, OfSpec, ActivatedTasks, Tree, IsTree
    <2> HIDE DEF waiting
    <2>3. \A i \in DOMAIN waiting : Frame("cancel", j, waiting[i]) \in FrameType
      BY <1>3, <2>2, FrameTyped DEF Ops
    <2>4. [i \in DOMAIN waiting |-> Frame("cancel", j, waiting[i])] \in Seq(FrameType)
      <3>1. PICK k \in Nat : DOMAIN waiting = 1..k
        BY <2>1
      <3> QED
        BY <2>3, <3>1, IsASeq
    <2> QED
      BY <2>4
  <1>6. /\ UNCHANGED others
        /\ \/ Return /\ UNCHANGED tasks
           \/ Raise
           \/ ReturnTo(fire) /\ UNCHANGED tasks
           \/ SetWaiting(j)
           \/ ReturnTo(cancels1 \o fire) /\ UNCHANGED tasks
    BY DEF UpdateJoin, others
  <1> HIDE DEF j, s, waiting, cancels1, fire
  <1>7. cancels1 \o fire \in Seq(FrameType)
    BY <1>4, <1>5, ConcatTyped
  <1>8. Tree(tasks', Specs) /\ calls' \in Seq(FrameType)
    BY <1>1, <1>4, <1>6, <1>7, ReturnTyped, RaiseTyped, ReturnToTyped, SetWaitingTyped
  <1> QED
    BY <1>6, <1>8, IInvSplit, IInvSplitPrime, OthersUnchanged

LEMMA CompleteTaskPreserves == ASSUME IInv, CompleteTask PROVE IInv'
  <1>1. calls # <<>> /\ calls \in Seq(FrameType) /\ Tree(tasks, Specs)
    BY IInvSplit DEF CompleteTask, Doing
  <1> DEFINE t == Top.task
  <1>2. t \in Path /\ Children(tasks, t) \in SUBSET Path /\ {Root} \in SUBSET Path
    BY <1>1, StackTyped, ChildrenTyped, RootPath
  <1>3. /\ Frame("children", t, Children(tasks, t)) \in FrameType
        /\ Frame("visit", t, {Root}) \in FrameType
        /\ Frame("finish", t, {}) \in FrameType
    BY <1>2, FrameTyped DEF Ops
  <1>4. calls' \in Seq(FrameType)
    <2> DEFINE frames == <<Frame("children", t, Children(tasks, t)),
                           Frame("visit", t, {Root}),
                           Frame("finish", t, {})>>
    <2>1. frames \in Seq(FrameType)
      BY <1>3
    <2>2. ReturnTo(frames)
      BY DEF CompleteTask
    <2> HIDE DEF frames
    <2> QED
      BY <1>1, <2>1, <2>2, ReturnToTyped
  <1>5. Tree(tasks', Specs)
    BY <1>1, SetStateTree, MasksTyped DEF CompleteTask
  <1> QED
    BY <1>4, <1>5, IInvSplit, IInvSplitPrime, OthersUnchanged DEF CompleteTask, others

LEMMA ChildrenNextPreserves == ASSUME IInv, ChildrenNext PROVE IInv'
  <1>1. calls # <<>> /\ calls \in Seq(FrameType) /\ Tree(tasks, Specs)
    BY IInvSplit DEF ChildrenNext, Doing
  <1>2. CASE Top.todo = {}
    BY <1>1, <1>2, ReturnTyped, IInvSplit, IInvSplitPrime, OthersUnchanged
       DEF ChildrenNext, others
  <1>3. CASE Top.todo # {}
    <2>1. PICK c \in Top.todo : CallWith(IF In(tasks, c, FINISHED) THEN <<>> ELSE UpdateFrames(c),
                                         Top.todo \ {c})
      BY <1>3 DEF ChildrenNext
    <2>2. c \in Path /\ Top.todo \ {c} \in SUBSET Path
      BY <1>1, StackTyped
    <2>3. (IF In(tasks, c, FINISHED) THEN <<>> ELSE UpdateFrames(c)) \in Seq(FrameType)
      BY <2>2, UpdateFramesTyped
    <2>4. calls' \in Seq(FrameType)
      BY <1>1, <2>1, <2>2, <2>3, CallWithTyped
    <2> QED
      BY <2>4, IInvSplit, IInvSplitPrime, OthersUnchanged DEF ChildrenNext, others
  <1> QED
    BY <1>2, <1>3

LEMMA VisitNextPreserves == ASSUME IInv, VisitNext PROVE IInv'
  <1>1. calls # <<>> /\ calls \in Seq(FrameType) /\ Tree(tasks, Specs)
    BY IInvSplit DEF VisitNext, Doing
  <1>2. CASE Top.todo = {}
    BY <1>1, <1>2, ReturnTyped, IInvSplit, IInvSplitPrime, OthersUnchanged
       DEF VisitNext, others
  <1>3. CASE Top.todo # {}
    <2>1. PICK t \in Top.todo :
            \/ CallWith(IF In(tasks, t, {"WAITING"}) THEN UpdateFrames(t) ELSE <<>>,
                        (Top.todo \ {t}) \union (IF In(tasks, t, PREDICTED) THEN {}
                                                 ELSE Children(tasks, t)))
            \/ CallWith(<<>>, Top.todo \ {t})
      BY <1>3 DEF VisitNext
    <2>2. t \in Path /\ Top.todo \ {t} \in SUBSET Path /\ Children(tasks, t) \in SUBSET Path
      BY <1>1, StackTyped, ChildrenTyped
    <2>3. (IF In(tasks, t, {"WAITING"}) THEN UpdateFrames(t) ELSE <<>>) \in Seq(FrameType)
      BY <2>2, UpdateFramesTyped
    <2>4. (Top.todo \ {t}) \union (IF In(tasks, t, PREDICTED) THEN {} ELSE Children(tasks, t))
            \in SUBSET Path
      BY <2>2
    <2>5. <<>> \in Seq(FrameType)
      OBVIOUS
    <2>6. calls' \in Seq(FrameType)
      BY <1>1, <2>1, <2>2, <2>3, <2>4, <2>5, CallWithTyped
    <2> QED
      BY <2>6, IInvSplit, IInvSplitPrime, OthersUnchanged DEF VisitNext, others
  <1> QED
    BY <1>2, <1>3

LEMMA FinishPreserves == ASSUME IInv, Finish PROVE IInv'
  <1>1. calls # <<>> /\ calls \in Seq(FrameType) /\ Tree(tasks, Specs) /\ OthersTyped
    BY IInvSplit DEF Finish, Doing
  <1>2. last' \in Path /\ completions' \in Nat
    BY <1>1, StackTyped DEF Finish, OthersTyped
  <1>3. OthersTyped'
    BY <1>1, <1>2 DEF Finish, OthersTyped, counters
  <1>4. calls' \in Seq(FrameType) /\ UNCHANGED tasks
    BY <1>1, ReturnTyped DEF Finish
  <1> QED
    BY <1>1, <1>3, <1>4, IInvSplitPrime

LEMMA StepPreserves == ASSUME IInv, Step PROVE IInv'
  BY PredictPreserves, UpdateSimplePreserves, UpdateFailsPreserves, UpdateExecutePreserves,
     UpdateGatePreserves, UpdateAcquirePreserves, UpdateJoinPreserves, CancelNextPreserves,
     JoinFiresPreserves, CompleteTaskPreserves, ChildrenNextPreserves, VisitNextPreserves,
     FinishPreserves DEF Step

-----------------------------------------------------------------------------
(* Task.run *)

\* The task that is run, and its spec.
LEMMA RunningTyped ==
  ASSUME IInv, NEW t, NEW kinds, Running(t, kinds)
  PROVE  /\ t \in DOMAIN tasks /\ t \in Path /\ tasks[t].spec \in Specs
         /\ Kind(tasks[t].spec) \in kinds
         /\ Tree(tasks, Specs) /\ calls \in Seq(FrameType) /\ OthersTyped
  BY IInvSplit DEF Running, InState, Tree, IsTree, TaskType

LEMMA RunWithTyped ==
  ASSUME NEW t \in Path, NEW frames \in Seq(FrameType), RunWith(t, frames)
  PROVE  calls' \in Seq(FrameType)
  <1>1. <<Frame("complete", t, {})>> \in Seq(FrameType)
    BY FrameTyped DEF Ops
  <1> QED
    BY <1>1, ConcatTyped DEF RunWith

LEMMA RunRaisesTyped ==
  ASSUME IInv, NEW t, RunRaises(t)
  PROVE  Tree(tasks', Specs) /\ calls' \in Seq(FrameType)
  BY IInvSplit, SetStateTree, MasksTyped DEF RunRaises

LEMMA RunSplitTyped ==
  ASSUME IInv, NEW t \in DOMAIN tasks, NEW outs, NEW n, Gapped(outs, n), NEW looked \in Nat,
         RunSplit(t, outs, n, looked)
  PROVE  Tree(tasks', Specs) /\ calls' \in Seq(FrameType)
  <1>1. Tree(tasks, Specs) /\ t \in Path
    BY IInvSplit DEF Tree, IsTree
  <1>2. CASE SyncRaises(tasks, t, outs, n)
    BY <1>2, RunRaisesTyped DEF RunSplit
  <1>3. CASE ~SyncRaises(tasks, t, outs, n)
    <2> DEFINE todo == InState(tasks', PREDICTED \union {"FUTURE"}) \intersect Children(tasks', t)
    <2>1. /\ tasks' = SyncChildren(tasks, t, outs, n, "FUTURE")
          /\ RunWith(t, <<PredictFrame(t, todo, looked, PREDICTED \union {"FUTURE"})>>)
      BY <1>3 DEF RunSplit
    <2>2. Tree(tasks', Specs)
      BY <1>1, <2>1, SyncTyped, MasksTyped
    <2>3. todo \in SUBSET Path
      BY <2>2, ChildrenTyped
    <2> HIDE DEF todo
    <2>4. <<PredictFrame(t, todo, looked, PREDICTED \union {"FUTURE"})>> \in Seq(FrameType)
      BY <1>1, <2>3, PredictFrameTyped, MasksTyped
    <2> QED
      BY <1>1, <2>1, <2>2, <2>4, RunWithTyped
  <1> QED
    BY <1>2, <1>3

LEMMA RunSimplePreserves == ASSUME IInv, NEW t, RunSimple(t) PROVE IInv'
  <1>1. t \in Path
    BY RunningTyped DEF RunSimple
  <1>2. <<>> \in Seq(FrameType)
    OBVIOUS
  <1>3. calls' \in Seq(FrameType)
    BY <1>1, <1>2, RunWithTyped DEF RunSimple
  <1> QED
    BY <1>3, IInvSplit, IInvSplitPrime, OthersUnchanged DEF RunSimple, others

LEMMA RunFailsPreserves == ASSUME IInv, NEW t, RunFails(t) PROVE IInv'
  <1>1. Tree(tasks', Specs) /\ calls' \in Seq(FrameType)
    BY RunRaisesTyped DEF RunFails
  <1>2. OthersTyped'
    BY IInvSplit, BoundsAssumption DEF RunFails, OthersTyped
  <1> QED
    BY <1>1, <1>2, IInvSplitPrime

LEMMA RunMultiChoicePreserves == ASSUME IInv, NEW t, RunMultiChoice(t) PROVE IInv'
  <1> DEFINE s == tasks[t].spec
  <1>1. t \in DOMAIN tasks /\ s \in Specs
    BY RunningTyped DEF RunMultiChoice
  <1>2. PICK matching \in SUBSET Net[s].cond :
           RunSplit(t, Pick(Outputs(s), (Specs \ Net[s].cond) \union matching), Len(Outputs(s)), 0)
    BY DEF RunMultiChoice
  <1>3. Gapped(Pick(Outputs(s), (Specs \ Net[s].cond) \union matching), Len(Outputs(s)))
    BY <1>1, PickGapped
  <1>4. Tree(tasks', Specs) /\ calls' \in Seq(FrameType)
    BY <1>1, <1>2, <1>3, RunSplitTyped
  <1> QED
    BY <1>4, IInvSplit, IInvSplitPrime, OthersUnchanged DEF RunMultiChoice, others

LEMMA RunExclusiveChoicePreserves == ASSUME IInv, NEW t, RunExclusiveChoice(t) PROVE IInv'
  <1> DEFINE s == tasks[t].spec
  <1>1. t \in DOMAIN tasks /\ s \in Specs /\ Kind(s) = "ExclusiveChoice"
    BY RunningTyped DEF RunExclusiveChoice
  <1>2. PICK output \in Net[s].cond \union {Net[s].default} : RunSplit(t, <<output>>, 1, 0)
    BY DEF RunExclusiveChoice
  <1>3. output \in Specs
    BY <1>1, NetTyped
  <1>4. Gapped(<<output>>, 1)
    BY <1>3 DEF Gapped
  <1>5. Tree(tasks', Specs) /\ calls' \in Seq(FrameType)
    BY <1>1, <1>2, <1>4, RunSplitTyped
  <1> QED
    BY <1>5, IInvSplit, IInvSplitPrime, OthersUnchanged DEF RunExclusiveChoice, others

LEMMA RunMultiInstancePreserves == ASSUME IInv, NEW t, RunMultiInstance(t) PROVE IInv'
  <1> DEFINE s == tasks[t].spec
  <1>1. t \in DOMAIN tasks /\ s \in Specs
    BY RunningTyped DEF RunMultiInstance
  <1>2. PICK n \in Net[s].times : RunSplit(t, PredictedOutputs(s, n), OutputCount(s, n), 1)
    BY DEF RunMultiInstance
  <1>3. Gapped(PredictedOutputs(s, n), OutputCount(s, n))
    BY <1>1, NetTyped, PredictedOutputsGapped
  <1>4. Tree(tasks', Specs) /\ calls' \in Seq(FrameType)
    BY <1>1, <1>2, <1>3, RunSplitTyped
  <1> QED
    BY <1>4, IInvSplit, IInvSplitPrime, OthersUnchanged DEF RunMultiInstance, others

LEMMA RunThreadSplitPreserves == ASSUME IInv, NEW t, RunThreadSplit(t) PROVE IInv'
  <1> DEFINE s == tasks[t].spec
  <1>1. t \in DOMAIN tasks /\ t \in Path /\ s \in Specs /\ Tree(tasks, Specs)
    BY RunningTyped DEF RunThreadSplit
  <1>2. PICK n \in Net[s].times :
           \/ RunRaises(t)
           \/ /\ tasks' = SyncChildren(tasks, t, PredictedOutputs(s, n), OutputCount(s, n), "FUTURE")
              /\ RunWith(t, <<>>)
    BY DEF RunThreadSplit
  <1>3. Gapped(PredictedOutputs(s, n), OutputCount(s, n))
    BY <1>1, NetTyped, PredictedOutputsGapped
  <1>4. Tree(SyncChildren(tasks, t, PredictedOutputs(s, n), OutputCount(s, n), "FUTURE"), Specs)
    BY <1>1, <1>3, SyncTyped, MasksTyped
  <1>5. <<>> \in Seq(FrameType)
    OBVIOUS
  <1>6. Tree(tasks', Specs) /\ calls' \in Seq(FrameType)
    BY <1>1, <1>2, <1>4, <1>5, RunRaisesTyped, RunWithTyped
  <1> QED
    BY <1>6, IInvSplit, IInvSplitPrime, OthersUnchanged DEF RunThreadSplit, others

LEMMA RunThreadStartPreserves == ASSUME IInv, NEW t, RunThreadStart(t) PROVE IInv'
  <1> DEFINE T    == AssignThread(tasks, t, threads + 1)
             outs == Outputs(tasks[t].spec)
  <1>1. /\ t \in DOMAIN tasks /\ t \in Path /\ tasks[t].spec \in Specs
        /\ Tree(tasks, Specs) /\ calls \in Seq(FrameType) /\ OthersTyped
    BY RunningTyped DEF RunThreadStart
  <1>2. threads + 1 \in Nat
    BY <1>1 DEF OthersTyped
  <1>3. Tree(T, Specs) /\ t \in DOMAIN T
    BY <1>1, <1>2, AssignThreadTree
  <1>4. \/ tasks' = SetState(T, {t}, "ERROR") /\ UNCHANGED calls
        \/ tasks' = SyncChildren(T, t, outs, Len(outs), "READY") /\ RunWith(t, <<>>)
    BY DEF RunThreadStart
  <1>5. Gapped(outs, Len(outs))
    BY <1>1, OutputsGapped
  <1> HIDE DEF T, outs
  <1>6. Tree(SetState(T, {t}, "ERROR"), Specs)
    BY <1>3, SetStateTree, MasksTyped
  <1>7. Tree(SyncChildren(T, t, outs, Len(outs), "READY"), Specs)
    BY <1>3, <1>5, SyncTyped, MasksTyped
  <1>8. <<>> \in Seq(FrameType)
    OBVIOUS
  <1>9. Tree(tasks', Specs) /\ calls' \in Seq(FrameType)
    BY <1>1, <1>4, <1>6, <1>7, <1>8, RunWithTyped
  <1>10. OthersTyped'
    BY <1>1, <1>2 DEF RunThreadStart, OthersTyped, counters
  <1> QED
    BY <1>9, <1>10, IInvSplitPrime

LEMMA RunReleaseMutexPreserves == ASSUME IInv, NEW t, RunReleaseMutex(t) PROVE IInv'
  <1>1. t \in Path /\ Tree(tasks, Specs) /\ OthersTyped
    BY RunningTyped DEF RunReleaseMutex
  <1>2. <<>> \in Seq(FrameType)
    OBVIOUS
  <1>3. Tree(tasks', Specs) /\ calls' \in Seq(FrameType)
    BY <1>1, <1>2, RunWithTyped, RunRaisesTyped DEF RunReleaseMutex
  <1>4. OthersTyped'
    BY <1>1 DEF RunReleaseMutex, OthersTyped, counters
  <1> QED
    BY <1>3, <1>4, IInvSplitPrime

LEMMA RunCancelPreserves == ASSUME IInv, NEW t, RunCancel(t) PROVE IInv'
  <1>1. t \in Path /\ tasks[t].spec \in Specs /\ Tree(tasks, Specs) /\ OthersTyped
    BY RunningTyped DEF RunCancel
  <1>2. <<>> \in Seq(FrameType)
    OBVIOUS
  <1>3. Tree(tasks', Specs) /\ calls' \in Seq(FrameType)
    BY <1>1, <1>2, RunWithTyped, CancelBranchTree DEF RunCancel
  <1>4. OthersTyped'
    BY <1>1, NetTyped DEF RunCancel, OthersTyped, counters
  <1> QED
    BY <1>3, <1>4, IInvSplitPrime

LEMMA RunCancelTaskPreserves == ASSUME IInv, NEW t, RunCancelTask(t) PROVE IInv'
  <1> DEFINE context == Net[tasks[t].spec].context
             frames  == [i \in DOMAIN context |-> Frame("cancel", t, OfSpec(tasks, context[i]))]
  <1>1. t \in Path /\ tasks[t].spec \in Specs /\ Tree(tasks, Specs)
    BY RunningTyped DEF RunCancelTask
  <1>2. Len(context) \in Nat /\ DOMAIN context = 1..Len(context)
    BY <1>1, NetTyped, LenProperties
  <1>3. \A s : OfSpec(tasks, s) \in SUBSET Path
    BY <1>1 DEF OfSpec, Tree, IsTree
  <1>4. RunWith(t, frames) /\ UNCHANGED tasks /\ UNCHANGED others
    BY DEF RunCancelTask, others
  <1> HIDE DEF context
  <1>5. \A i \in DOMAIN context : Frame("cancel", t, OfSpec(tasks, context[i])) \in FrameType
    BY <1>1, <1>3, FrameTyped DEF Ops
  <1>6. frames \in Seq(FrameType)
    BY <1>2, <1>5, IsASeq
  <1> HIDE DEF frames
  <1>7. calls' \in Seq(FrameType)
    BY <1>1, <1>4, <1>6, RunWithTyped
  <1> QED
    BY <1>4, <1>7, IInvSplit, IInvSplitPrime, OthersUnchanged

LEMMA RunPreserves == ASSUME IInv, Run PROVE IInv'
  BY RunSimplePreserves, RunFailsPreserves, RunMultiChoicePreserves,
     RunExclusiveChoicePreserves, RunMultiInstancePreserves, RunThreadSplitPreserves,
     RunThreadStartPreserves, RunReleaseMutexPreserves, RunCancelPreserves,
     RunCancelTaskPreserves DEF Run, RunTask

-----------------------------------------------------------------------------
(* The other public methods *)

LEMMA UpdateWaitingTasksPreserves == ASSUME IInv, UpdateWaitingTasks PROVE IInv'
  <1>1. Frame("visit", Root, {Root}) \in FrameType
    BY RootPath, FrameTyped DEF Ops
  <1>2. calls' \in Seq(FrameType)
    BY <1>1 DEF UpdateWaitingTasks
  <1> QED
    BY <1>2, IInvSplit, IInvSplitPrime, OthersUnchanged DEF UpdateWaitingTasks, others

LEMMA CancelPreserves == ASSUME IInv, Cancel PROVE IInv'
  <1>1. Tree(tasks', Specs) /\ calls' \in Seq(FrameType)
    BY IInvSplit, CancelBranchTree DEF Cancel
  <1>2. OthersTyped'
    BY IInvSplit, BoundsAssumption DEF Cancel, OthersTyped
  <1> QED
    BY <1>1, <1>2, IInvSplitPrime

\* Everything below the task goes, and it is predicted again.
LEMMA ResetBranchTree ==
  ASSUME Tree(tasks, Specs), NEW t \in DOMAIN tasks, ResetBranch(t, <<Frame("hook", t, {})>>)
  PROVE  Tree(tasks', Specs) /\ calls' \in Seq(FrameType)
  <1>1. t \in Path /\ tasks[t].spec \in Specs
    BY DEF Tree, IsTree, TaskType
  <1> DEFINE pruned == RemoveBranches(tasks, Children(tasks, t))
             bare   == SetState(pruned, {t}, "FUTURE")
             mask   == PREDICTED \union {"FUTURE"}
             frames == <<Frame("hook", t, {})>>
  <1>2. Tree(pruned, Specs) /\ t \in DOMAIN pruned
    <2>1. Children(tasks, t) \in SUBSET Path
      BY ChildrenTyped
    <2>2. \A c \in Children(tasks, t) : c # Root /\ c # t /\ ~Above(c, t)
      BY <1>1, ChildDeeper DEF Tree
    <2> QED
      BY <2>1, <2>2, RemoveBranchesTree
  <1>3. Tree(bare, Specs) /\ t \in DOMAIN bare
    BY <1>2, SetStateTree, MasksTyped
  <1>4. \E n \in IF IsMultiple(tasks[t].spec) THEN Net[tasks[t].spec].times ELSE {1} :
           /\ tasks' = PredictHook(bare, t, n)
           /\ calls' = <<PredictFrame(t, PredictNext(tasks', t, 0, mask), 1, mask)>> \o frames
    BY DEF ResetBranch
  <1>5. PICK n \in Nat :
           /\ tasks' = PredictHook(bare, t, n)
           /\ calls' = <<PredictFrame(t, PredictNext(tasks', t, 0, mask), 1, mask)>> \o frames
    <2>1. (IF IsMultiple(tasks[t].spec) THEN Net[tasks[t].spec].times ELSE {1}) \subseteq Nat
      BY <1>1, NetTyped
    <2> QED
      BY <1>4, <2>1
  <1> HIDE DEF bare, pruned
  <1>6. Tree(tasks', Specs)
    BY <1>3, <1>5, PredictHookTree
  <1>7. PredictNext(tasks', t, 0, mask) \in SUBSET Path
    BY <1>6, PredictNextTyped
  <1>8. frames \in Seq(FrameType)
    BY <1>1, FrameTyped DEF Ops
  <1>9. mask \in SUBSET ANY
    BY MasksTyped
  <1> HIDE DEF mask, frames
  <1>10. <<PredictFrame(t, PredictNext(tasks', t, 0, mask), 1, mask)>> \in Seq(FrameType)
    BY <1>1, <1>7, <1>9, PredictFrameTyped
  <1> QED
    BY <1>5, <1>6, <1>8, <1>10, ConcatTyped

LEMMA ResetPreserves == ASSUME IInv, Reset PROVE IInv'
  <1>1. Tree(tasks, Specs) /\ calls \in Seq(FrameType) /\ OthersTyped
    BY IInvSplit
  <1>2. PICK t \in DOMAIN tasks : ResetFromTaskId(t)
    BY DEF Reset
  <1>3. Tree(tasks', Specs) /\ calls' \in Seq(FrameType)
    BY <1>1, <1>2, ResetBranchTree DEF ResetFromTaskId
  <1>4. t \in Path
    BY <1>1, <1>2 DEF Tree, IsTree
  <1>5. last' \in Path
    <2>1. NoTask \in Path
      BY DEF NoTask, Path
    <2> QED
      BY <1>2, <1>4, <2>1, ParentPath DEF ResetFromTaskId
  <1>6. OthersTyped'
    BY <1>1, <1>2, <1>5, BoundsAssumption DEF ResetFromTaskId, MayReset, OthersTyped
  <1> QED
    BY <1>3, <1>6, IInvSplitPrime

-----------------------------------------------------------------------------
(* The theorems *)

LEMMA InitIInv == ASSUME Init PROVE IInv
  <1>1. Root \in Path /\ {Root} \in SUBSET Path
    BY RootPath
  <1>2. Tree(tasks, Specs)
    <2>1. IsTree(tasks, Specs)
      BY <1>1, NetAssumption DEF Init, IsTree, TaskType, ANY, NOT_FINISHED, DEFINITE
    <2>2. Closed(tasks)
      BY DEF Init, Closed
    <2> QED
      BY <2>1, <2>2 DEF Tree
  <1>3. calls \in Seq(FrameType)
    <2>1. PredictFrame(Root, {Root}, 0, NOT_FINISHED) \in FrameType
      BY <1>1, PredictFrameTyped, MasksTyped
    <2>2. Frame("hook", Root, {}) \in FrameType
      BY <1>1, FrameTyped DEF Ops
    <2> QED
      BY <2>1, <2>2 DEF Init
  <1>4. OthersTyped
    <2>1. NoTask \in Path
      BY DEF NoTask, Path
    <2> QED
      BY <2>1, BoundsAssumption DEF Init, OthersTyped
  <1> QED
    BY <1>2, <1>3, <1>4, IInvSplit

LEMMA NextIInv == ASSUME IInv, [Next]_vars PROVE IInv'
  <1>1. CASE Next
    BY <1>1, StepPreserves, RunPreserves, UpdateWaitingTasksPreserves, CancelPreserves,
       ResetPreserves DEF Next
  <1>2. CASE UNCHANGED vars
    BY <1>2, IInvSplit, IInvSplitPrime, OthersUnchanged DEF vars, others, counters
  <1> QED
    BY <1>1, <1>2

LEMMA IInvAlways == Spec => []IInv
  BY InitIInv, NextIInv, PTL DEF Spec

\* Type correctness of the engine on every net: the stack of calls, the tree
\* and the counters have their types in every reachable state.
THEOREM TypeCorrect == Spec => []TypeOK
  <1>1. IInv => TypeOK
    BY DEF IInv
  <1> QED
    BY <1>1, IInvAlways, PTL

\* The task tree stays a tree, whatever is synchronized, dropped, cancelled or
\* reset: Task.parent is never None below the root.
THEOREM TreeAlwaysClosed == Spec => []TreeClosed
  <1>1. IInv => TreeClosed
    BY DEF IInv
  <1> QED
    BY <1>1, IInvAlways, PTL

-----------------------------------------------------------------------------
(* Cancelling is final.  After the call of Workflow.cancel nothing is      *)
(* unfinished, so nothing can be run, and the walks over the tree that     *)
(* update_waiting_tasks still makes find nothing to update.                *)

Walking == \A i \in DOMAIN calls : calls[i].op = "visit"

CancelInv == cancels > 0 /\ resets = 0 => IsCompleted(tasks) /\ Walking

LEMMA WalkingTail == ASSUME calls \in Seq(FrameType), calls # <<>>, Walking, Return
                     PROVE  Walking'
  BY HeadTailProperties DEF Walking, Return

\* No task is in a state that some action needs.
LEMMA NoneUnfinished ==
  ASSUME IsCompleted(tasks)
  PROVE  \A t \in DOMAIN tasks : /\ ~In(tasks, t, {"READY"})
                                 /\ ~In(tasks, t, {"WAITING"})
                                 /\ ~In(tasks, t, PREDICTED)
  BY DEF IsCompleted, InState, In, NOT_FINISHED, DEFINITE

LEMMA VisitWalks ==
  ASSUME IInv, VisitNext, IsCompleted(tasks), Walking
  PROVE  Walking'
  <1>1. calls # <<>> /\ calls \in Seq(FrameType)
    BY IInvSplit DEF VisitNext, Doing
  <1>2. CASE Top.todo = {}
    BY <1>1, <1>2, WalkingTail DEF VisitNext
  <1>3. CASE Top.todo # {}
    <2>1. \E S \in SUBSET Path : CallWith(<<>>, S)
      <3>1. PICK t \in Top.todo :
              IF t \in DOMAIN tasks
              THEN CallWith(IF In(tasks, t, {"WAITING"}) THEN UpdateFrames(t) ELSE <<>>,
                            (Top.todo \ {t})
                                \union (IF In(tasks, t, PREDICTED) THEN {}
                                        ELSE Children(tasks, t)))
              ELSE CallWith(<<>>, Top.todo \ {t})
        BY <1>3 DEF VisitNext
      <3>2. Top.todo \ {t} \in SUBSET Path /\ Children(tasks, t) \in SUBSET Path
        BY <1>1, StackTyped, IInvSplit, ChildrenTyped
      <3>3. CASE t \in DOMAIN tasks
        <4>1. CallWith(<<>>, (Top.todo \ {t}) \union Children(tasks, t))
          BY <3>1, <3>3, NoneUnfinished
        <4> QED
          BY <3>2, <4>1
      <3>4. CASE t \notin DOMAIN tasks
        BY <3>1, <3>2, <3>4
      <3> QED
        BY <3>3, <3>4
    <2>2. PICK S \in SUBSET Path : CallWith(<<>>, S)
      BY <2>1
    <2> DEFINE frame == [Top EXCEPT !.todo = S]
               again == IF S = {} THEN <<>> ELSE <<frame>>
    <2>3. frame \in FrameType /\ frame.op = Top.op
      BY <1>1, StackTyped DEF FrameType
    <2>4. Top.op = "visit"
      BY DEF VisitNext, Doing, Top
    <2> HIDE DEF frame
    <2>5. again \in Seq(FrameType) /\ \A i \in DOMAIN again : again[i].op = "visit"
      BY <2>3, <2>4
    <2>6. calls' = again \o Tail(calls)
      <3>1. calls' = <<>> \o again \o Tail(calls)
        BY <2>2 DEF CallWith, frame
      <3> QED
        BY <3>1, <2>5
    <2>7. Tail(calls) \in Seq(FrameType) /\ \A i \in DOMAIN Tail(calls) : Tail(calls)[i].op = "visit"
      BY <1>1, HeadTailProperties DEF Walking
    <2> HIDE DEF again
    <2>8. \A i \in DOMAIN (again \o Tail(calls)) : (again \o Tail(calls))[i].op = "visit"
      BY <2>5, <2>7
    <2> QED
      BY <2>6, <2>8 DEF Walking
  <1> QED
    BY <1>2, <1>3

\* Resets are never taken back.
LEMMA ResetsCount == [Next]_vars => resets' = resets \/ resets' = resets + 1
  BY DEF Next, vars, counters, Step, Predict, UpdateSimple, UpdateFails, UpdateExecute,
     UpdateGate, UpdateAcquire, UpdateJoin, CancelNext, JoinFires, CompleteTask, ChildrenNext,
     VisitNext, Finish, Run, RunTask, RunSimple, RunFails, RunMultiChoice,
     RunExclusiveChoice, RunMultiInstance, RunThreadSplit, RunThreadStart,
     RunReleaseMutex, RunCancel, RunCancelTask, UpdateWaitingTasks, Cancel, Reset,
     ResetFromTaskId

\* When nothing is unfinished and only walks are in progress, it stays so, and
\* nobody is told of it again.
LEMMA CompletedStays ==
  ASSUME IInv, IsCompleted(tasks), Walking, [Next]_vars, resets' = resets
  PROVE  IsCompleted(tasks') /\ Walking' /\ UNCHANGED completions
  <1>1. OthersTyped /\ Tree(tasks, Specs) /\ calls \in Seq(FrameType)
    BY IInvSplit
  <1>2. CASE Cancel
    <2>1. IsCompleted(tasks')
      BY <1>1, <1>2, CancelRootCompletes DEF Cancel
    <2>2. Walking' /\ UNCHANGED completions
      BY <1>2 DEF Cancel, Quiescent, Walking
    <2> QED
      BY <2>1, <2>2
  <1>3. CASE Reset
    <2>1. resets' = resets + 1
      BY <1>3 DEF Reset, ResetFromTaskId
    <2>2. resets \in Nat
      BY <1>1 DEF OthersTyped
    <2> QED
      BY <2>1, <2>2
  <1>4. CASE Step
    <2>1. ASSUME NEW op \in Ops \ {"visit"} PROVE ~Doing(op)
      <3>1. calls # <<>> => Head(calls) = calls[1] /\ 1 \in DOMAIN calls
        BY <1>1
      <3> QED
        BY <3>1 DEF Doing, Walking
    <2>2. /\ ~Doing("predict")  /\ ~Doing("hook") /\ ~Doing("cancel") /\ ~Doing("join")
          /\ ~Doing("complete") /\ ~Doing("children") /\ ~Doing("finish")
      BY <2>1 DEF Ops
    <2>3. VisitNext
      BY <1>4, <2>2 DEF Step, Predict, UpdateSimple, UpdateFails, UpdateExecute, UpdateGate,
         UpdateAcquire, UpdateJoin, CancelNext, JoinFires, CompleteTask, ChildrenNext, Finish,
         Hook
    <2>4. UNCHANGED <<tasks, completions>>
      BY <2>3 DEF VisitNext
    <2>5. Walking'
      BY <2>3, VisitWalks
    <2> QED
      BY <2>4, <2>5
  <1>5. CASE Run
    <2>1. PICK t \in DOMAIN tasks : RunTask(t)
      BY <1>5 DEF Run
    <2>2. In(tasks, t, {"READY"})
      BY <2>1 DEF RunTask, RunSimple, RunFails, RunMultiChoice, RunExclusiveChoice,
         RunMultiInstance, RunThreadSplit, RunThreadStart, RunReleaseMutex, RunCancel,
         RunCancelTask, Running, InState, In
    <2> QED
      BY <2>2, NoneUnfinished
  <1>6. CASE UpdateWaitingTasks
    BY <1>6 DEF UpdateWaitingTasks, Walking, Frame
  <1>7. CASE UNCHANGED vars
    BY <1>7 DEF vars, Walking
  <1> QED
    BY <1>2, <1>3, <1>4, <1>5, <1>6, <1>7 DEF Next

LEMMA NextCancelInv == ASSUME IInv, CancelInv, [Next]_vars PROVE CancelInv'
  <1> SUFFICES ASSUME cancels' > 0, resets' = 0
               PROVE  IsCompleted(tasks') /\ Walking'
    BY DEF CancelInv, IsCompleted, InState
  <1>1. OthersTyped /\ Tree(tasks, Specs)
    BY IInvSplit
  <1>2. CASE Cancel
    <2>1. IsCompleted(tasks')
      BY <1>1, <1>2, CancelRootCompletes DEF Cancel
    <2>2. Walking'
      BY <1>2 DEF Cancel, Quiescent, Walking
    <2> QED
      BY <2>1, <2>2
  <1>3. CASE ~Cancel
    <2>1. cancels' = cancels
      BY <1>3 DEF Next, vars, counters, Step, Predict, UpdateSimple, UpdateFails, UpdateExecute,
         UpdateGate, UpdateAcquire, UpdateJoin, CancelNext, JoinFires, CompleteTask,
         ChildrenNext, VisitNext, Finish, Run, RunTask, RunSimple, RunFails, RunMultiChoice,
         RunExclusiveChoice, RunMultiInstance, RunThreadSplit, RunThreadStart,
         RunReleaseMutex, RunCancel, RunCancelTask, UpdateWaitingTasks, Reset, ResetFromTaskId
    <2>2. resets' = resets
      BY <1>1, ResetsCount DEF OthersTyped
    <2> QED
      BY <2>1, <2>2, CompletedStays DEF CancelInv
  <1> QED
    BY <1>2, <1>3

\* Once Workflow.cancel has been called, every task is finished and stays so
\* unless a task is reset: Task.cancel reaches every branch, and no call brings
\* a finished task back.
THEOREM CancelledForGood == Spec => []CancelIsFinal
  <1>1. Init => CancelInv
    BY DEF Init, CancelInv
  <1>2. IInv /\ CancelInv /\ [Next]_vars => CancelInv'
    BY NextCancelInv
  <1>3. CancelInv => CancelIsFinal
    BY DEF CancelInv, CancelIsFinal
  <1> QED
    BY <1>1, <1>2, <1>3, IInvAlways, PTL DEF Spec
=============================================================================
