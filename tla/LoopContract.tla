---------------------------- MODULE LoopContract ----------------------------
(***************************************************************************)
(* What a loop or multi-instance task promises, whichever kind it is.      *)
(* Instances are handed out while it is open, some of them are done, and   *)
(* what an instance that is done has produced is taken over, once and for  *)
(* all.  When the loop closes, nothing is outstanding and nothing has been *)
(* overlooked; when it is cancelled, whatever is outstanding is dropped.   *)
(***************************************************************************)
VARIABLES
    serial,  \* one instance at a time
    open,    \* more may happen
    given,   \* the instances that have been handed out
    done,    \* those that have come to an end
    taken    \* those whose result has been taken over

contractVars == <<serial, open, given, done, taken>>

Init ==
    /\ serial \in BOOLEAN
    /\ open = TRUE
    /\ given = {} /\ done = {} /\ taken = {}

Work ==
    /\ open /\ open'
    /\ given \subseteq given' /\ done \subseteq done' /\ taken \subseteq taken'
    /\ taken' \subseteq done' /\ done' \subseteq given'
    /\ serial => \A i, j \in given' \ done' : i = j
    /\ UNCHANGED serial

Close ==
    /\ open /\ open' = FALSE
    /\ done \subseteq done'
    /\ taken' = done' /\ given' = done'
    /\ UNCHANGED serial

Abandon ==
    /\ open /\ open' = FALSE
    /\ given' = done
    /\ UNCHANGED <<serial, done, taken>>

Next == Work \/ Close \/ Abandon

Spec == Init /\ [][Next]_contractVars
=============================================================================
