------------------------------ MODULE TaskTree ------------------------------
(***************************************************************************)
(* The task tree of a workflow, as a value.  A task is identified by its   *)
(* path: the root is <<>>, and the n-th child ever created under a task p  *)
(* is Append(p, n).  A tree T is a function from the paths of its live     *)
(* tasks to records [spec, state, thread, born], where born counts the     *)
(* children ever created under the task, so that a path is never used for  *)
(* two tasks, just as a uuid is not.  The ancestors of a task are the      *)
(* proper prefixes of its path, and the order of a depth-first traversal   *)
(* is the lexicographic order of paths.                                    *)
(*                                                                         *)
(* The recursive methods of Task appear in closed form: what a recursion   *)
(* down the tree does is said of all the tasks it reaches at once.         *)
(***************************************************************************)
EXTENDS Naturals, Sequences, FiniteSets

-----------------------------------------------------------------------------
(* TaskState *)

PREDICTED    == {"MAYBE", "LIKELY"}
DEFINITE     == {"FUTURE", "WAITING", "READY", "STARTED"}
FINISHED     == {"COMPLETED", "ERROR", "CANCELLED"}
NOT_FINISHED == PREDICTED \union DEFINITE
ANY          == NOT_FINISHED \union FINISHED

-----------------------------------------------------------------------------
(* Paths *)

Path == Seq(Nat)
Root == <<>>

Parent(t) == SubSeq(t, 1, Len(t) - 1)
Slot(t)   == t[Len(t)]

\* is_descendant_of: d lies strictly below a.
Above(a, d) == Len(a) < Len(d) /\ \A i \in 1..Len(a) : a[i] = d[i]

\* a comes before d when a TaskIterator walks the tree depth first.
Precedes(a, d) ==
    \/ Above(a, d)
    \/ \E i \in 1..Len(a) : /\ i <= Len(d)
                            /\ a[i] < d[i]
                            /\ \A j \in 1..(i - 1) : a[j] = d[j]

IsFirst(t, S) == t \in S /\ \A u \in S \ {t} : Precedes(t, u)

-----------------------------------------------------------------------------
(* Looking at a tree *)

Children(T, t) == {c \in DOMAIN T : c # Root /\ Parent(c) = t}
Below(T, t)    == {d \in DOMAIN T : Above(t, d)}
Branch(T, t)   == {t} \union Below(T, t)

In(T, t, states)   == T[t].state \in states
InState(T, states) == {t \in DOMAIN T : T[t].state \in states}
OfSpec(T, s)       == {t \in DOMAIN T : T[t].spec = s}

\* find_ancestor: the nearest ancestor of t with spec s, as a set of one task
\* or none.
Nearest(T, t, s) ==
    {a \in OfSpec(T, s) : /\ Above(a, t)
                          /\ \A b \in OfSpec(T, s) : Above(b, t) => Len(b) <= Len(a)}

IsCompleted(T) == InState(T, NOT_FINISHED) = {}

-----------------------------------------------------------------------------
(* Changing a tree *)

SetState(T, S, state) ==
    [t \in DOMAIN T |-> IF t \in S THEN [T[t] EXCEPT !.state = state] ELSE T[t]]

\* Mutant: _remove_task does not recurse.
RemoveBranches_Flat(T, S) == [t \in DOMAIN T \ S |-> T[t]]

\* _remove_task of every task of S, each with its whole subtree.
RemoveBranches(T, S) ==
    [t \in {d \in DOMAIN T : ~\E r \in S : r = d \/ Above(r, d)} |-> T[t]]

\* _drop_children of every task of S: the descendants that are unfinished, or
\* that lie below an unfinished descendant, are removed.
DropChildren(T, S) ==
    RemoveBranches(T, {d \in InState(T, NOT_FINISHED) : \E t \in S : Above(t, d)})

\* Mutant: cancelled tasks are removed.
CancelBranch_Removing(T, t) == RemoveBranches(T, Branch(T, t) \intersect InState(T, NOT_FINISHED))

\* Task.cancel: the topmost unfinished tasks of the branch become CANCELLED.
CancelBranch(T, t) ==
    LET open == Branch(T, t) \intersect InState(T, NOT_FINISHED)
        top  == {d \in open : ~\E e \in open : Above(e, d)}
    IN  DropChildren(SetState(T, top, "CANCELLED"), top)

\* _ready: no effect on a task that is completed or cancelled (or removed).
Ready(T, t) ==
    IF t \in DOMAIN T /\ ~In(T, t, {"COMPLETED", "CANCELLED"})
    THEN SetState(T, {t}, "READY")
    ELSE T

\* Mutant: only the task itself gets the new thread.
AssignThread_Flat(T, t, id) == [T EXCEPT ![t].thread = id]

\* _assign_new_thread_id, which is recursive.
AssignThread(T, t, id) ==
    [d \in DOMAIN T |-> IF d \in Branch(T, t) THEN [T[d] EXCEPT !.thread = id] ELSE T[d]]

\* One _add_child per member of new, a function from some of the numbers 1..n
\* to specs; the children are appended in the order of the numbers.
AddChildren(T, t, new, n, state) ==
    LET added == {Append(t, T[t].born + i) : i \in DOMAIN new}
    IN  [d \in DOMAIN T \union added |->
            CASE d \in added -> [spec   |-> new[Slot(d) - T[t].born],
                                 state  |-> state,
                                 thread |-> T[t].thread,
                                 born   |-> 0]
              [] d = t       -> [T[t] EXCEPT !.born = @ + n]
              [] OTHER       -> T[d]]

-----------------------------------------------------------------------------
(* _sync_children.  The list of specs is a function outs from some of the  *)
(* numbers 1..n to specs, that is, a sequence that may have gaps.          *)

\* How often spec s occurs in outs, up to position k.
Occurrences(outs, s, k) == Cardinality({i \in DOMAIN outs : i <= k /\ outs[i] = s})

\* The children that are matched with a member of outs, oldest first.
Kept(T, t, outs, n) ==
    {c \in Children(T, t) :
        Cardinality({b \in Children(T, t) : T[b].spec = T[c].spec /\ Slot(b) <= Slot(c)})
            <= Occurrences(outs, T[c].spec, n)}

\* The positions of outs that are left without a child.
Missing(T, t, outs) ==
    {i \in DOMAIN outs :
        Occurrences(outs, outs[i], i)
            > Cardinality({c \in Children(T, t) : T[c].spec = outs[i]})}

\* 'removal of non-predicted child'.  It is raised at the first such child; those
\* before it are FUTURE already, as it is itself.
SyncRaises(T, t, outs, n) ==
    \E c \in Children(T, t) \ Kept(T, t, outs, n) : In(T, c, DEFINITE)

\* Mutant: finished children get the new state too.
SyncChildren_Finished(T, t, outs, n, state) ==
    LET kept == Kept(T, t, outs, n)
        old  == RemoveBranches(SetState(T, kept, state), Children(T, t) \ kept)
    IN  AddChildren(old, t, [i \in Missing(T, t, outs) |-> outs[i]], n, state)

SyncChildren(T, t, outs, n, state) ==
    LET kept == Kept(T, t, outs, n)
        old  == RemoveBranches(SetState(T, kept \intersect InState(T, NOT_FINISHED), state),
                               Children(T, t) \ kept)
    IN  AddChildren(old, t, [i \in Missing(T, t, outs) |-> outs[i]], n, state)

-----------------------------------------------------------------------------
(* What makes a value a tree *)

TaskType(specs) == [spec : specs, state : ANY, thread : Nat, born : Nat]

IsTree(T, specs) == \A t \in DOMAIN T : t \in Path /\ T[t] \in TaskType(specs)

\* The parent of every task is there, and has counted it.
Closed(T) ==
    /\ Root \in DOMAIN T
    /\ \A t \in DOMAIN T \ {Root} : /\ Parent(t) \in DOMAIN T
                                    /\ Slot(t) \in 1..T[Parent(t)].born
=============================================================================
