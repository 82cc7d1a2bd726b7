----------------------------- MODULE MCWorkflow -----------------------------
(***************************************************************************)
(* The nets on which TLC checks the engine.  They are small instances of   *)
(* the workflow patterns of tests/SpiffWorkflow/core/data/control-flow,    *)
(* each chosen for the hazards of one kind of task.                        *)
(***************************************************************************)
EXTENDS WorkflowProperties, TLC

Simple(outs) == TaskSpec("Simple", outs)
Join(outs)   == TaskSpec("Join", outs)

Exclusive(outs, default) ==
    [TaskSpec("ExclusiveChoice", outs) EXCEPT !.cond = {outs[1]}, !.default = default]

\* Three parallel branches, of which two are enough for the join PJ; the third
\* arrives late, or turns away from the join when it is its turn.
PartialJoinNet ==
    "P" :> Simple(<<"PA", "PB", "PC">>)
    @@ "PA" :> Simple(<<"PJ">>) @@ "PB" :> Simple(<<"PJ">>)
    @@ "PC" :> Exclusive(<<"PJ", "PE">>, "PE")
    @@ "PJ" :> [Join(<<"PD">>) EXCEPT !.threshold = 2]
    @@ "PD" :> Simple(<<>>) @@ "PE" :> Simple(<<>>)

\* A multiple choice, whose first branch splits again, and the structured join
\* that waits for all branches that were chosen; and a parallel split, one of whose
\* branches splits again: the second branch to arrive at its join cancels the last one.
StructuredJoinsNet ==
    "M" :> [TaskSpec("MultiChoice", <<"A", "B", "C">>) EXCEPT !.cond = {"A", "B"}]
    @@ "A" :> Simple(<<"A1", "A2">>)
    @@ "A1" :> Simple(<<"J">>) @@ "A2" :> Simple(<<"J">>)
    @@ "B" :> Simple(<<"J">>) @@ "C" :> Simple(<<"J">>)
    @@ "J" :> [Join(<<"JD">>) EXCEPT !.split = "M"]
    @@ "JD" :> Simple(<<>>)
    @@ "S" :> Simple(<<"E", "F", "G">>)
    @@ "E" :> Simple(<<"E1", "E2">>)
    @@ "E1" :> Simple(<<"K">>) @@ "E2" :> Simple(<<"K">>)
    @@ "F" :> Simple(<<"K">>) @@ "G" :> Simple(<<"K">>)
    @@ "K" :> [Join(<<"D">>) EXCEPT !.split = "S", !.threshold = 2, !.cancel = TRUE]
    @@ "D" :> Simple(<<>>)

\* Three branches, one of two steps; the first two to arrive at the join cancel the
\* task before the join of the third, whatever has been done of it.
CancellingJoinNet ==
    "Q" :> Simple(<<"QA", "QB", "QC">>)
    @@ "QA" :> Simple(<<"QJ">>) @@ "QB" :> Simple(<<"QJ">>)
    @@ "QC" :> Simple(<<"QM">>) @@ "QM" :> Simple(<<"QJ">>)
    @@ "QJ" :> [Join(<<"QD">>) EXCEPT !.threshold = 2, !.cancel = TRUE]
    @@ "QD" :> Simple(<<>>)

\* A milestone (gate) and an explicit termination; beside it a loop, in which an
\* external process is run, and each time the branch behind the gate is cancelled.
MilestoneNet ==
    "W" :> Simple(<<"WG", "WA", "WP">>)
    @@ "WA" :> Simple(<<>>)
    @@ "WG" :> [TaskSpec("Gate", <<"WH">>) EXCEPT !.context = <<"WA">>]
    @@ "WH" :> Simple(<<"WZ">>)
    @@ "WP" :> TaskSpec("Execute", <<"WK">>)
    @@ "WK" :> [TaskSpec("CancelTask", <<"WX">>) EXCEPT !.context = <<"WH">>]
    @@ "WX" :> Exclusive(<<"WP", "WE">>, "WE")
    @@ "WE" :> Simple(<<>>)
    @@ "WZ" :> TaskSpec("Cancel", <<>>)

\* Two threads, in each of which two branches are joined; or one to three instances of
\* a critical section, the number being known only when the MultiInstance is run, and a
\* join of all of them.
ConcurrencyTasks ==
    "T" :> [TaskSpec("ThreadSplit", <<"TS">>) EXCEPT !.times = {2}]
    @@ "TS" :> TaskSpec("ThreadStart", <<"TA", "TB">>)
    @@ "TA" :> Simple(<<"TJ">>)
    @@ "TB" :> Simple(<<"TJ">>)
    @@ "TJ" :> Join(<<"TD">>)
    @@ "TD" :> Simple(<<>>)
    @@ "N" :> [TaskSpec("MultiInstance", <<"NL">>) EXCEPT !.times = {1, 2, 3}]
    @@ "NL" :> [TaskSpec("AcquireMutex", <<"NC">>) EXCEPT !.mutex = "m"]
    @@ "NC" :> Simple(<<"NU">>)
    @@ "NU" :> [TaskSpec("ReleaseMutex", <<"NJ">>) EXCEPT !.mutex = "m"]
    @@ "NJ" :> [Join(<<"ND">>) EXCEPT !.split = "N"]
    @@ "ND" :> Simple(<<>>)
ConcurrencyOrder == <<"T", "TS", "TA", "TB", "TJ", "TD", "N", "NL", "NC", "NU", "NJ", "ND">>

ConcurrencyNet ==
    Wired(<<"Start", "I">> \o ConcurrencyOrder,
          "Start" :> Simple(<<"I">>) @@ "I" :> Exclusive(<<"T", "N">>, "N") @@ ConcurrencyTasks)

\* One of all these, by a choice.
PatternsNet ==
    Wired(<<"Start", "I", "P", "PA", "PB", "PC", "PJ", "PD", "PE",
            "Q", "QA", "QB", "QC", "QM", "QJ", "QD",
            "M", "A", "A1", "A2", "B", "C", "J", "JD", "S", "E", "E1", "E2", "F", "G", "K", "D",
            "W", "WG", "WA", "WH", "WP", "WK", "WX", "WE", "WZ">> \o ConcurrencyOrder,
          "Start" :> Simple(<<"I">>)
          @@ "I" :> [Exclusive(<<"P", "M", "S", "Q", "T", "N", "W">>, "W")
                         EXCEPT !.cond = {"P", "M", "S", "Q", "T", "N"}]
          @@ PartialJoinNet @@ StructuredJoinsNet @@ CancellingJoinNet @@ MilestoneNet
          @@ ConcurrencyTasks)

\* A parallel split and join in which two tasks may fail; one branch has a choice
\* and a simple merge: the net for failures, resets and cancellation.
RecoveryNet ==
    Wired(<<"Start", "A", "B", "X", "C", "M", "J", "D">>,
          "Start" :> Simple(<<"A", "B">>)
          @@ "A" :> [Simple(<<"J">>) EXCEPT !.fallible = TRUE]
          @@ "B" :> [TaskSpec("Transform", <<"X">>) EXCEPT !.fallible = TRUE]
          @@ "X" :> [TaskSpec("ExclusiveChoice", <<"C", "M">>) EXCEPT !.cond = {"C"},
                                                                       !.default = "M"]
          @@ "C" :> Simple(<<"M">>) @@ "M" :> Simple(<<"J">>)
          @@ "J" :> Join(<<"D">>)
          @@ "D" :> Simple(<<>>))

\* A join for which one of two branches is enough; the other one comes to it only after two
\* choices, so that it is not yet foreseen there when the join fires.
LateBranchNet ==
    Wired(<<"Start", "A", "M", "N", "B", "J", "D", "X">>,
          "Start" :> Simple(<<"A", "M">>)
          @@ "A" :> Simple(<<"J">>)
          @@ "M" :> Exclusive(<<"N", "X">>, "X")
          @@ "N" :> Exclusive(<<"B", "X">>, "X")
          @@ "B" :> Simple(<<"J">>)
          @@ "J" :> [Join(<<"D">>) EXCEPT !.threshold = 1]
          @@ "D" :> Simple(<<>>) @@ "X" :> Simple(<<>>))

\* What the theorems suppose of a net: no join of these nets is part of a loop, no CancelTask
\* cancels what leads to it, no task that may have to wait, and no join, is the child of a
\* ThreadStart; but for the merge M of the last net, a thread comes to an input of a join
\* once; and what begins between the split of a structured join and the join comes to it.
RECURSIVE Onwards(_)
Onwards(S) == LET more == S \union UNION {Follows(s) : s \in S}
              IN  IF more = S THEN S ELSE Onwards(more)

After == [s \in Specs |-> Onwards(Follows(s))]

RECURSIVE Narrow(_)
Narrow(S) == LET rest == {s \in S : Kind(s) # "Join" /\ ComesOnce(S, s)}
             IN  IF rest = S THEN S ELSE Narrow(rest)

RECURSIVE UpTo(_, _)
UpTo(join, S) == LET more == S \union UNION {Follows(s) : s \in S \ {join}}
                 IN  IF more = S THEN S ELSE UpTo(join, more)

Between == [s \in Specs |-> IF Net[s].split = None THEN {}
                            ELSE UpTo(s, Follows(Net[s].split))]

ASSUME NoLoopsAssumption == NoLoopsIn(After)
ASSUME SparesItselfAssumption == SparesItself(After)
ASSUME ThreadStartAssumption == NoneAtThreadStart(Hesitant \union {"Join"})
ASSUME InputsOnceAssumption == Net # RecoveryNet => InputsOnce(Narrow(Specs))
ASSUME RegionsAssumption == RegionsIn(Between)
=============================================================================
