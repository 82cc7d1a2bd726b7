----------------------------- MODULE LoopProofs -----------------------------
(***************************************************************************)
(* Every loop task of MultiInstance.tla implements LoopContract.tla, for   *)
(* inputs of any size.                                                     *)
(***************************************************************************)
EXTENDS MultiInstance, FiniteSetTheorems, SequenceTheorems, TLAPS

\* The instances that have been merged, and that none has been merged twice.
Merged == Members(merged)
Once   == \A m, n \in DOMAIN merged : merged[m] = merged[n] => m = n

\* The members of a finite set of numbers can be numbered in their order.
LEMMA NthNumbers ==
  ASSUME NEW S \in SUBSET Nat, IsFiniteSet(S)
  PROVE  /\ Cardinality(S) \in Nat
         /\ [n \in 1..Cardinality(S) |-> Nth(S, n)] \in Bijection(1..Cardinality(S), S)
  <1> DEFINE upto(i) == {j \in S : j <= i}
             m == Cardinality(S)
             rank == [i \in S |-> Cardinality(upto(i))]
             nth == [n \in 1..m |-> Nth(S, n)]
  <1>1. m \in Nat
    BY FS_CardinalityType
  <1>2. \A i \in S : IsFiniteSet(upto(i)) /\ Cardinality(upto(i)) \in 1..m
    <2> TAKE i \in S
    <2>1. IsFiniteSet(upto(i)) /\ Cardinality(upto(i)) <= m
      BY FS_Subset
    <2>2. Cardinality(upto(i)) \in Nat /\ Cardinality(upto(i)) # 0
      BY <2>1, FS_CardinalityType, FS_EmptySet
    <2> QED
      BY <1>1, <2>1, <2>2
  <1>3. \A i, k \in S : i < k => Cardinality(upto(i)) # Cardinality(upto(k))
    <2> SUFFICES ASSUME NEW i \in S, NEW k \in S, i < k,
                        Cardinality(upto(i)) = Cardinality(upto(k))
                 PROVE  FALSE
      OBVIOUS
    <2> HIDE DEF m, rank, nth
    <2>1. upto(i) \in SUBSET upto(k) /\ k \in upto(k) /\ k \notin upto(i)
      <3>1. i \in Nat /\ k \in Nat
        OBVIOUS
      <3>2. \A j \in Nat : j <= i => j <= k
        BY <3>1
      <3>3. ~(k <= i) /\ k <= k
        BY <3>1
      <3> QED
        BY <3>1, <3>2, <3>3
    <2>2. IsFiniteSet(upto(k))
      BY <1>2
    <2> HIDE DEF upto
    <2>3. PICK A, B : A = upto(i) /\ B = upto(k)
      OBVIOUS
    <2>4. A = B
      BY <2>1, <2>2, <2>3, FS_Subset
    <2> QED
      BY <2>1, <2>3, <2>4
  <1>4. \A i, k \in S : rank[i] = rank[k] => i = k
    BY <1>3
  <1>5. rank \in Injection(S, 1..m)
    BY <1>2, <1>4 DEF Injection, IsInjective
  <1>6. IsFiniteSet(1..m) /\ Cardinality(1..m) = m
    BY <1>1, FS_Interval
  <1>7. rank \in Surjection(S, 1..m)
    <2> HIDE DEF rank, m
    <2> QED
      BY <1>5, <1>6, FS_Injection DEF m
  <1>8. \A n \in 1..m : \E i \in S : Cardinality(upto(i)) = n
    BY <1>7 DEF Surjection
  <1>9. \A n \in 1..m : Nth(S, n) \in S /\ rank[Nth(S, n)] = n
    <2> TAKE n \in 1..m
    <2>1. Nth(S, n) \in S /\ Cardinality(upto(Nth(S, n))) = n
      BY <1>8 DEF Nth
    <2> QED
      BY <2>1
  <1> HIDE DEF rank, m, upto
  <1>10. nth \in [1..m -> S]
    BY <1>9
  <1>11. \A n, k \in 1..m : nth[n] = nth[k] => n = k
    BY <1>9
  <1>12. \A i \in S : \E n \in 1..m : nth[n] = i
    <2> TAKE i \in S
    <2>1. rank[i] \in 1..m
      BY <1>5 DEF Injection
    <2>2. nth[rank[i]] = i
      BY <1>4, <1>9, <2>1
    <2> QED
      BY <2>1, <2>2
  <1>13. nth \in Bijection(1..m, S)
    <2> HIDE DEF nth
    <2> QED
      BY <1>10, <1>11, <1>12 DEF Bijection, Injection, Surjection, IsInjective
  <1> QED
    BY <1>1, <1>13 DEF m

\* Merging more instances, in their order.
LEMMA MergingMore ==
  ASSUME NEW old \in Seq(Nat), NEW S \in SUBSET Nat, IsFiniteSet(S)
  PROVE  LET new == old \o InOrder(S)
         IN  /\ new \in Seq(Nat) /\ Members(new) = Members(old) \union S
             /\ InOrder(S) \in Seq(Nat) /\ Members(InOrder(S)) = S
             /\ /\ \A m, n \in DOMAIN old : old[m] = old[n] => m = n
                /\ Members(old) \intersect S = {}
                => \A m, n \in DOMAIN new : new[m] = new[n] => m = n
  <1> DEFINE c == Cardinality(S)
             more == InOrder(S)
             new == old \o more
             k == Len(old)
  <1>1. c \in Nat /\ more \in Bijection(1..c, S)
    BY NthNumbers DEF InOrder
  <1>2. /\ more \in [1..c -> S]
        /\ \A n, l \in 1..c : more[n] = more[l] => n = l
        /\ \A i \in S : \E n \in 1..c : more[n] = i
    <2> HIDE DEF more
    <2> QED
      BY <1>1 DEF Bijection, Injection, Surjection, IsInjective
  <1> HIDE DEF c, more
  <1>3. more \in Seq(Nat) /\ Len(more) = c /\ DOMAIN more = 1..c
    <2>1. DOMAIN more = 1..c /\ more \in [1..c -> Nat]
      BY <1>2
    <2> QED
      BY <1>1, <2>1
  <1>4. Members(more) = S
    <2>1. \A n \in DOMAIN more : more[n] \in S
      BY <1>2, <1>3
    <2>2. \A i \in S : \E n \in DOMAIN more : more[n] = i
      BY <1>2, <1>3
    <2> QED
      BY <2>1, <2>2 DEF Members
  <1>5. /\ k \in Nat /\ DOMAIN old = 1..k
        /\ new \in Seq(Nat) /\ DOMAIN new = 1..(k + c)
        /\ \A n \in 1..(k + c) : new[n] = IF n <= k THEN old[n] ELSE more[n - k]
    <2>1. /\ new \in Seq(Nat) /\ Len(new) = k + c
          /\ \A n \in 1..(k + c) : new[n] = IF n <= k THEN old[n] ELSE more[n - k]
      BY <1>3, ConcatProperties
    <2>2. k \in Nat /\ DOMAIN old = 1..k
      OBVIOUS
    <2> HIDE DEF new, k
    <2>3. DOMAIN new = 1..(k + c)
      BY <2>1
    <2> QED
      BY <2>1, <2>2, <2>3
  <1> HIDE DEF new, k
  <1>6. \A n \in 1..(k + c) : IF n <= k THEN n \in 1..k ELSE n - k \in 1..c
    BY <1>1, <1>5
  <1>7. \A n \in 1..k : n \in 1..(k + c) /\ n <= k
    BY <1>1, <1>5
  <1>8. \A n \in 1..c : n + k \in 1..(k + c) /\ ~(n + k <= k) /\ (n + k) - k = n
    BY <1>1, <1>5
  <1>9. Members(new) = Members(old) \union S
    <2>1. ASSUME NEW n \in 1..(k + c) PROVE new[n] \in Members(old) \union S
      BY <1>2, <1>5, <1>6 DEF Members
    <2>2. ASSUME NEW n \in 1..k PROVE old[n] \in Members(new)
      BY <1>5, <1>7 DEF Members
    <2>3. ASSUME NEW i \in S PROVE i \in Members(new)
      <3>1. PICK n \in 1..c : more[n] = i
        BY <1>2
      <3>2. new[n + k] = i
        BY <1>5, <1>8, <3>1
      <3> QED
        BY <1>5, <1>8, <3>2 DEF Members
    <2> QED
      BY <1>5, <2>1, <2>2, <2>3 DEF Members
  <1>10. ASSUME \A m, n \in DOMAIN old : old[m] = old[n] => m = n,
                Members(old) \intersect S = {},
                NEW m \in DOMAIN new, NEW n \in DOMAIN new, new[m] = new[n]
         PROVE  m = n
    <2>1. m \in Nat /\ n \in Nat /\ m \in 1..(k + c) /\ n \in 1..(k + c)
      BY <1>1, <1>5
    <2>2. CASE m <= k /\ n <= k
      BY <1>5, <1>6, <1>10, <2>1, <2>2
    <2>3. CASE ~(m <= k) /\ ~(n <= k)
      <3>1. m - k = n - k
        BY <1>2, <1>5, <1>6, <1>10, <2>1, <2>3
      <3> QED
        BY <1>5, <2>1, <3>1
    <2>4. ASSUME NEW i \in 1..(k + c), NEW j \in 1..(k + c), i <= k, ~(j <= k), new[i] = new[j]
          PROVE  FALSE
      <3>1. new[i] \in Members(old)
        BY <1>5, <1>6, <2>4 DEF Members
      <3>2. new[j] \in S
        BY <1>2, <1>5, <1>6, <2>4
      <3> QED
        BY <1>10, <2>4, <3>1, <3>2
    <2> QED
      BY <1>10, <2>1, <2>2, <2>3, <2>4
  <1> QED
    BY <1>3, <1>4, <1>5, <1>9, <1>10 DEF new, more

\* A list without repetitions is as long as it has members.
LEMMA OnceLength ==
  ASSUME NEW s \in Seq(Nat), \A m, n \in DOMAIN s : s[m] = s[n] => m = n
  PROVE  Cardinality(Members(s)) = Len(s)
  <1> DEFINE f == [n \in 1..Len(s) |-> s[n]]
  <1>1. Len(s) \in Nat /\ DOMAIN s = 1..Len(s)
    OBVIOUS
  <1>2. f \in [1..Len(s) -> Members(s)] /\ \A n \in 1..Len(s) : f[n] = s[n]
    BY <1>1 DEF Members
  <1> HIDE DEF f
  <1>3. f \in Bijection(1..Len(s), Members(s))
    BY <1>1, <1>2 DEF Bijection, Injection, Surjection, IsInjective, Members
  <1>4. IsFiniteSet(1..Len(s)) /\ Cardinality(1..Len(s)) = Len(s)
    BY <1>1, FS_Interval
  <1> QED
    BY <1>3, <1>4, FS_Bijection DEF ExistsBijection

KidStates  == UNFINISHED \union FINISHED \union {"REMOVED"}
LoopStates == {"FUTURE", "WAITING", "READY", "COMPLETED", "CANCELLED"}

Typed ==
    /\ loop.mode \in Modes
    /\ loop.size \in Nat
    /\ kids \in Seq(KidStates)
    /\ state \in LoopStates
    /\ Merged \subseteq DOMAIN kids

\* What has been merged has ended; only a loop that is still at it has instances
\* that have not, has not merged all, and has cancelled none; and a loop that is
\* not parallel has at most one instance that has not ended.
IInv ==
    /\ Typed
    /\ merged \in Seq(Nat) /\ Once
    /\ Merged \subseteq Ended
    /\ state = "FUTURE" => kids = << >>
    /\ state \in {"FUTURE", "WAITING"} => Outstanding = DOMAIN kids
    /\ state \in {"READY", "COMPLETED"} => Merged = Ended
    /\ state \notin {"FUTURE", "WAITING"} => Unfinished(kids) = {}
    /\ loop.mode # "parallel" => \A i, j \in Unfinished(kids) : i = j

LEMMA InitInv == Init => IInv
  <1> SUFFICES ASSUME Init PROVE IInv
    OBVIOUS
  <1>1. loop \in LoopType
    BY LoopsAssumption DEF Init
  <1>2. kids = << >> /\ merged = << >> /\ Merged = {} /\ state = "FUTURE"
    BY DEF Init, Merged, Members
  <1>3. DOMAIN kids = {} /\ kids \in Seq(KidStates)
    BY <1>2
  <1>4. merged \in Seq(Nat) /\ Once
    BY <1>2 DEF Once
  <1> QED
    BY <1>1, <1>2, <1>3, <1>4 DEF IInv, Typed, LoopType, LoopStates, Ended, Outstanding, Unfinished

\* What an update may do, given the instances K at its beginning: the facts on
\* which both the invariant and the contract rest.
Updated(K) ==
    \/ /\ UNCHANGED state /\ kids' = K
       /\ Merged \subseteq Merged' /\ Merged' \subseteq Merged \union New(K)
    \/ /\ state' = "WAITING" /\ kids' = K
       /\ Merged' = Merged \union New(K)
    \/ /\ state' = "WAITING" /\ Merged' = Merged \union New(K)
       /\ Unfinished(K) = {} /\ loop.mode # "parallel"
       /\ \E s \in UNFINISHED : kids' = Append(K, s)
    \/ /\ state' = "READY" /\ Merged' = Merged \union New(K)
       /\ Unfinished(K) = {} /\ kids' = K
    \/ /\ state' = "READY" /\ Merged' = Merged \union New(K)
       /\ loop.mode = "parallel" /\ kids' = Cancelled(K)

\* What an update merges has ended and has not been merged before.
LEMMA MergesTaken ==
  ASSUME NEW K \in Seq(KidStates), NEW R, merged \in Seq(Nat), Update(K, R)
  PROVE  /\ Taken(K, R) \in SUBSET Nat /\ IsFiniteSet(Taken(K, R))
         /\ merged' \in Seq(Nat) /\ Merged' = Merged \union Taken(K, R)
         /\ Once => Once'
  <1> DEFINE S == Taken(K, R)
  <1>1. S \subseteq DOMAIN K /\ S \intersect Members(merged) = {}
    BY DEF Taken, New
  <1>2. merged' = merged \o InOrder(S)
    BY DEF Update
  <1> HIDE DEF S
  <1>3. PICK k \in Nat : DOMAIN K = 1..k
    OBVIOUS
  <1>4. IsFiniteSet(1..k) /\ S \in SUBSET (1..k)
    BY <1>1, <1>3, FS_Interval
  <1>5. S \in SUBSET Nat /\ IsFiniteSet(S)
    <2>1. IsFiniteSet(S)
      BY <1>4, FS_Subset
    <2>2. 1..k \subseteq Nat
      OBVIOUS
    <2> QED
      BY <1>4, <2>1, <2>2
  <1>6. /\ merged' \in Seq(Nat) /\ Members(merged') = Members(merged) \union S
        /\ /\ \A m, n \in DOMAIN merged : merged[m] = merged[n] => m = n
           /\ Members(merged) \intersect S = {}
           => \A m, n \in DOMAIN merged' : merged'[m] = merged'[n] => m = n
    BY <1>2, <1>5, MergingMore
  <1> QED
    BY <1>1, <1>5, <1>6 DEF Merged, Once, S

LEMMA UpdateUpdates ==
  ASSUME IInv, NEW K \in Seq(KidStates), NEW R, Update(K, R)
  PROVE  Updated(K) /\ UNCHANGED loop /\ merged' \in Seq(Nat) /\ Once'
  <1>0. merged' \in Seq(Nat) /\ Once' /\ Merged' = Merged \union Taken(K, R)
    BY MergesTaken DEF IInv
  <1>1. UNCHANGED loop /\ Taken(K, R) \subseteq New(K)
    BY DEF Update, Taken
  <1>2. CASE Refused(K, R) # {}
    BY <1>0, <1>1, <1>2 DEF Update, Updated
  <1>3. CASE Refused(K, R) = {}
    <2>1. Merged' = Merged \union New(K)
      BY <1>0, <1>3 DEF Taken
    <2>2. PICK holds \in Conditions : Go(K, R, holds)
      BY <1>3 DEF Update
    <2>3. NoMore(K) \/ loop.mode # "parallel"
      BY DEF NoMore
    <2>4. NewState(merged') \in UNFINISHED
      BY DEF NewState, UNFINISHED
    <2> QED
      BY <1>0, <1>1, <2>1, <2>2, <2>3, <2>4 DEF Go, Updated
  <1> QED
    BY <1>0, <1>1, <1>2, <1>3

\* The instances K at the beginning of an update: in their order the ones that
\* there were, of which some have ended since.
Goes(K) ==
    /\ K \in Seq(KidStates)
    /\ \A i \in DOMAIN K : K[i] \in UNFINISHED \union {"COMPLETED", "ERROR"}
    /\ DOMAIN kids \subseteq DOMAIN K
    /\ \A i \in Ended : K[i] = kids[i]
    /\ loop.mode # "parallel" => \A i, j \in Unfinished(K) : i = j

LEMMA AppendDomain ==
  ASSUME NEW K \in Seq(KidStates), NEW s \in KidStates
  PROVE  /\ Append(K, s) \in Seq(KidStates)
         /\ DOMAIN Append(K, s) = DOMAIN K \union {Len(K) + 1}
         /\ Len(K) + 1 \notin DOMAIN K
         /\ Append(K, s)[Len(K) + 1] = s
         /\ \A i \in DOMAIN K : Append(K, s)[i] = K[i]
  OBVIOUS

LEMMA CancelledKids ==
  ASSUME NEW K \in Seq(KidStates)
  PROVE  /\ Cancelled(K) \in Seq(KidStates)
         /\ DOMAIN Cancelled(K) = DOMAIN K
         /\ \A i \in DOMAIN K : Cancelled(K)[i] = IF i \in Unfinished(K) THEN "CANCELLED" ELSE K[i]
  <1>1. DOMAIN K = 1..Len(K) /\ \A i \in DOMAIN K : K[i] \in KidStates
    OBVIOUS
  <1>2. "CANCELLED" \in KidStates
    BY DEF KidStates, FINISHED
  <1> QED
    BY <1>1, <1>2 DEF Cancelled

\* An update preserves the invariant and is a step of the contract.
LEMMA UpdateStep ==
  ASSUME IInv, state \in {"FUTURE", "WAITING"}, NEW K, Goes(K), Updated(K), UNCHANGED loop,
         merged' \in Seq(Nat), Once',
         state = "FUTURE" => (state' # "FUTURE" \/ K = << >>)
  PROVE  IInv' /\ (Contract!Work \/ Contract!Close)
  <1> USE DEF UNFINISHED, FINISHED
  <1> DEFINE E == {i \in DOMAIN K : K[i] \in {"COMPLETED", "ERROR"}}
  <1>1. K \in Seq(KidStates) /\ DOMAIN kids \subseteq DOMAIN K /\ Ended \subseteq E
    BY DEF Goes, Ended
  <1>2. Merged \subseteq E /\ Merged \union New(K) = E
    BY <1>1 DEF IInv, New, Goes, Merged
  <1>3. Outstanding = DOMAIN kids
    BY DEF IInv
  <1>4. DOMAIN K \ E = Unfinished(K)
    BY DEF Goes, Unfinished
  <1>5. loop' = loop /\ loop.mode \in Modes /\ loop.size \in Nat
    BY DEF IInv, Typed
  <1>6. CASE /\ kids' = K /\ (UNCHANGED state \/ state' = "WAITING")
             /\ Merged \subseteq Merged' /\ Merged' \subseteq Merged \union New(K)
    <2>1. Ended' = E /\ Outstanding' = DOMAIN K /\ Unfinished(kids)' = Unfinished(K)
      BY <1>6 DEF Ended, Outstanding, Goes, Unfinished
    <2>2. state' \in {"FUTURE", "WAITING"} /\ (state' = "FUTURE" => kids' = << >>)
      BY <1>6
    <2>3. IInv'
      BY <1>1, <1>2, <1>5, <1>6, <2>1, <2>2 DEF IInv, Typed, LoopStates, Goes
    <2>4. Contract!Work
      BY <1>1, <1>2, <1>3, <1>4, <1>5, <1>6, <2>1, <2>2 DEF Contract!Work, Merged, Goes
    <2> QED
      BY <2>3, <2>4
  <1>7. CASE /\ state' = "WAITING" /\ Merged' = Merged \union New(K)
             /\ Unfinished(K) = {} /\ loop.mode # "parallel"
             /\ \E s \in UNFINISHED : kids' = Append(K, s)
    <2>1. PICK s \in UNFINISHED : kids' = Append(K, s)
      BY <1>7
    <2> DEFINE n == Len(K) + 1
    <2>2. s \in KidStates
      BY DEF KidStates
    <2>3. /\ kids' \in Seq(KidStates) /\ DOMAIN kids' = DOMAIN K \union {n}
          /\ n \notin DOMAIN K /\ kids'[n] = s /\ \A i \in DOMAIN K : kids'[i] = K[i]
      BY <1>1, <2>1, <2>2, AppendDomain
    <2> HIDE DEF n
    <2>4. Ended' = E
      BY <2>3 DEF Ended
    <2>5. Outstanding' = DOMAIN kids'
      BY <2>3 DEF Outstanding, Goes
    <2>6. Unfinished(kids)' = {n}
      BY <1>7, <2>3 DEF Unfinished
    <2>7. IInv'
      BY <1>2, <1>5, <1>7, <2>3, <2>4, <2>5, <2>6 DEF IInv, Typed, LoopStates
    <2>8. DOMAIN K = E
      BY <1>4, <1>7
    <2>9. Contract!Work
      BY <1>1, <1>2, <1>3, <1>5, <1>7, <2>3, <2>4, <2>5, <2>8 DEF Contract!Work, Merged
    <2> QED
      BY <2>7, <2>9
  <1>8. CASE /\ state' = "READY" /\ Merged' = Merged \union New(K)
             /\ Unfinished(K) = {} /\ kids' = K
    <2>1. Ended' = E /\ Outstanding' = DOMAIN K /\ Unfinished(kids)' = {}
      BY <1>8 DEF Ended, Outstanding, Goes, Unfinished
    <2>2. DOMAIN K = E
      BY <1>4, <1>8
    <2>3. IInv'
      BY <1>1, <1>2, <1>5, <1>8, <2>1 DEF IInv, Typed, LoopStates
    <2>4. Contract!Close
      BY <1>1, <1>2, <1>5, <1>8, <2>1, <2>2 DEF Contract!Close, Merged
    <2> QED
      BY <2>3, <2>4
  <1>9. CASE /\ state' = "READY" /\ Merged' = Merged \union New(K)
             /\ loop.mode = "parallel" /\ kids' = Cancelled(K)
    <2>1. /\ kids' \in Seq(KidStates) /\ DOMAIN kids' = DOMAIN K
          /\ \A i \in DOMAIN K : kids'[i] = IF i \in Unfinished(K) THEN "CANCELLED" ELSE K[i]
      BY <1>1, <1>9, CancelledKids
    <2>2. Ended' = E
      BY <2>1 DEF Ended, Unfinished
    <2>3. Outstanding' = E
      BY <1>4, <2>1 DEF Outstanding, Goes
    <2>4. Unfinished(kids)' = {}
      BY <2>1 DEF Unfinished
    <2>5. IInv'
      BY <1>2, <1>5, <1>9, <2>1, <2>2, <2>4 DEF IInv, Typed, LoopStates
    <2>6. Contract!Close
      BY <1>1, <1>2, <1>5, <1>9, <2>2, <2>3 DEF Contract!Close, Merged
    <2> QED
      BY <2>5, <2>6
  <1> QED
    BY <1>6, <1>7, <1>8, <1>9 DEF Updated

\* Every step of a loop task preserves the invariant and is a step of the contract,
\* or leaves what the contract is about unchanged.
LEMMA NextStep ==
  ASSUME IInv, [Next]_vars
  PROVE  IInv' /\ [Contract!Next]_(Contract!contractVars)
  <1> USE DEF UNFINISHED, FINISHED
  <1>0. Typed
    BY DEF IInv
  <1>1. CASE Start
    <2> DEFINE n == AtOnce
               K == [i \in 1..n |-> "READY"]
               R == [i \in 1..n |-> Inherited(output)]
    <2>1. kids = << >> /\ state = "FUTURE"
      BY <1>1 DEF Start, IInv
    <2>2. CASE OutputRefused
      <3>1. UNCHANGED <<loop, state, kids, results, merged, output>>
        BY <1>1, <2>2 DEF Start
      <3>2. IInv'
        BY <3>1 DEF IInv, Typed, Ended, Outstanding, Unfinished, Merged, Once
      <3>3. UNCHANGED Contract!contractVars
        BY <3>1 DEF Contract!contractVars, Merged, Ended, Outstanding
      <3> QED
        BY <3>2, <3>3
    <2>3. CASE ~OutputRefused /\ ~(AtOnce > 0 /\ CreationFails(<< >>))
      <3>1. Update(K, R)
        BY <1>1, <2>3 DEF Start
      <3>2. n \in Nat /\ (loop.mode # "parallel" => n = 0)
        BY <1>0 DEF Typed, AtOnce
      <3> HIDE DEF n
      <3>3. Goes(K)
        BY <2>1, <3>2 DEF Goes, KidStates, Ended, Unfinished
      <3>4. Updated(K) /\ UNCHANGED loop /\ merged' \in Seq(Nat) /\ Once'
        BY <3>1, <3>3, UpdateUpdates DEF Goes
      <3>5. ASSUME state' = "FUTURE" PROVE K = << >>
        <4>1. Refused(K, R) # {}
          BY <2>1, <3>1, <3>5 DEF Update, Go
        <4>2. PICK i \in DOMAIN K : K[i] \in FINISHED
          BY <4>1 DEF Refused, New
        <4> QED
          BY <4>2
      <3> HIDE DEF K
      <3>6. IInv' /\ (Contract!Work \/ Contract!Close)
        BY <2>1, <3>3, <3>4, <3>5, UpdateStep
      <3> QED
        BY <3>6 DEF Contract!Next
    <2>4. CASE ~OutputRefused /\ AtOnce > 0 /\ CreationFails(<< >>)
      <3>1. /\ state' = "WAITING" /\ UNCHANGED <<loop, merged>>
            /\ kids' = <<NewState(<< >>)>>
        BY <1>1, <2>4 DEF Start
      <3>2. loop.mode = "parallel"
        BY <2>4 DEF AtOnce
      <3>3. PICK s \in UNFINISHED : kids' = <<s>>
        BY <3>1 DEF NewState
      <3>4. kids' \in Seq(KidStates) /\ DOMAIN kids' = {1} /\ kids'[1] \in UNFINISHED
        BY <3>3 DEF KidStates
      <3>5. Ended = {} /\ Ended' = {} /\ Outstanding = {} /\ Outstanding' = {1}
        BY <2>1, <3>4 DEF Ended, Outstanding
      <3>6. Merged = {} /\ Merged' = {}
        BY <3>1, <3>5 DEF IInv, Merged
      <3>7. Typed'
        BY <1>0, <3>1, <3>4, <3>6 DEF Typed, LoopStates
      <3>8. merged' \in Seq(Nat) /\ Once'
        BY <3>1 DEF IInv, Once
      <3>9. IInv'
        BY <3>1, <3>2, <3>4, <3>5, <3>6, <3>7, <3>8 DEF IInv
      <3>10. Contract!Work
        BY <2>1, <3>1, <3>2, <3>5, <3>6 DEF Contract!Work, Merged
      <3> QED
        BY <3>9, <3>10 DEF Contract!Next
    <2> QED
      BY <2>2, <2>3, <2>4
  <1>2. CASE Refresh
    <2>0. kids \in Seq(KidStates)
      BY <1>0 DEF Typed
    <2>1. state = "WAITING" /\ Updated(kids) /\ UNCHANGED loop /\ merged' \in Seq(Nat) /\ Once'
      BY <1>2, <2>0, UpdateUpdates DEF Refresh
    <2>2. Goes(kids)
      BY <1>0, <2>1 DEF IInv, Goes, Typed, KidStates, Outstanding
    <2>3. IInv' /\ (Contract!Work \/ Contract!Close)
      BY <2>1, <2>2, UpdateStep
    <2> QED
      BY <2>3 DEF Contract!Next
  <1>3. CASE \E i \in DOMAIN kids : CompleteInstance(i)
    <2>1. PICK i \in DOMAIN kids : CompleteInstance(i)
      BY <1>3
    <2> DEFINE K == [kids EXCEPT ![i] = "COMPLETED"]
    <2>2. state = "WAITING"
      BY <1>0, <2>1 DEF CompleteInstance, IInv, Unfinished, Typed, LoopStates
    <2>4. /\ K \in Seq(KidStates) /\ DOMAIN K = DOMAIN kids
          /\ \A j \in DOMAIN kids : K[j] = IF j = i THEN "COMPLETED" ELSE kids[j]
      BY <1>0, <2>1 DEF Typed, KidStates
    <2>3. Updated(K) /\ UNCHANGED loop /\ merged' \in Seq(Nat) /\ Once'
      BY <2>1, <2>4, UpdateUpdates DEF CompleteInstance
    <2>5. i \notin Ended
      BY <2>1 DEF CompleteInstance, Ended
    <2> HIDE DEF K
    <2>6. Goes(K)
      <3>1. \A j \in DOMAIN kids : kids[j] \in UNFINISHED \union {"COMPLETED", "ERROR"}
        BY <1>0, <2>2 DEF IInv, Typed, KidStates, Outstanding
      <3>2. Unfinished(K) \subseteq Unfinished(kids)
        BY <2>4 DEF Unfinished
      <3> QED
        BY <2>4, <2>5, <3>1, <3>2 DEF Goes, IInv, Ended
    <2>7. IInv' /\ (Contract!Work \/ Contract!Close)
      BY <2>2, <2>3, <2>6, UpdateStep
    <2> QED
      BY <2>7 DEF Contract!Next
  <1>4. CASE \E i \in DOMAIN kids : InstanceReached(i) \/ FailInstance(i)
    <2>1. PICK i \in DOMAIN kids : InstanceReached(i) \/ FailInstance(i)
      BY <1>4
    <2>2. PICK s \in {"READY", "ERROR"} : kids' = [kids EXCEPT ![i] = s]
      BY <2>1 DEF InstanceReached, FailInstance
    <2>3. i \in Unfinished(kids) /\ UNCHANGED <<loop, state, results, merged, output, raised>>
      BY <2>1 DEF InstanceReached, FailInstance, Unfinished
    <2>4. state = "WAITING"
      BY <1>0, <2>3 DEF IInv, Unfinished, Typed, LoopStates
    <2>5. /\ kids' \in Seq(KidStates) /\ DOMAIN kids' = DOMAIN kids
          /\ \A j \in DOMAIN kids : kids'[j] = IF j = i THEN s ELSE kids[j]
      BY <1>0, <2>2 DEF Typed, KidStates
    <2>6. Unfinished(kids)' \subseteq Unfinished(kids) /\ Ended \subseteq Ended'
      BY <2>3, <2>5 DEF Unfinished, Ended
    <2>7. Outstanding = DOMAIN kids /\ Outstanding' = DOMAIN kids
      BY <2>4, <2>5 DEF IInv, Outstanding
    <2>8. IInv'
      BY <1>0, <2>3, <2>4, <2>5, <2>6, <2>7 DEF IInv, Typed, Merged, Once
    <2>9. Contract!Work
      <3>1. Outstanding' \ Ended' \subseteq Unfinished(kids)
        <4>1. \A j \in DOMAIN kids : kids[j] \in UNFINISHED \union {"COMPLETED", "ERROR"}
          BY <1>0, <2>4 DEF IInv, Typed, KidStates, Outstanding
        <4> QED
          BY <2>3, <2>5, <2>7, <4>1 DEF Unfinished, Ended
      <3>2. Merged \subseteq Ended' /\ Ended' \subseteq Outstanding'
        BY <2>5, <2>6, <2>7 DEF IInv, Ended
      <3> QED
        BY <2>3, <2>4, <2>6, <2>7, <3>1, <3>2 DEF IInv, Contract!Work, Merged
    <2> QED
      BY <2>8, <2>9 DEF Contract!Next
  <1>5. CASE CompleteLoop
    <2>1. state = "READY" /\ state' = "COMPLETED" /\ UNCHANGED <<loop, kids, merged>>
      BY <1>5 DEF CompleteLoop
    <2>2. IInv'
      BY <2>1 DEF IInv, Typed, LoopStates, Ended, Outstanding, Unfinished, Merged, Once
    <2>3. UNCHANGED Contract!contractVars
      BY <2>1 DEF Contract!contractVars, Merged, Ended, Outstanding
    <2> QED
      BY <2>2, <2>3
  <1>6. CASE CancelLoop
    <2>1. /\ state \in UNFINISHED /\ state' = "CANCELLED" /\ UNCHANGED <<loop, merged>>
          /\ kids' = [i \in DOMAIN kids |-> IF i \in Unfinished(kids) THEN "REMOVED" ELSE kids[i]]
      BY <1>6 DEF CancelLoop
    <2>2. kids' \in Seq(KidStates) /\ DOMAIN kids' = DOMAIN kids
      BY <1>0, <2>1 DEF Typed, KidStates
    <2>3. \A i \in DOMAIN kids : kids'[i] = IF i \in Unfinished(kids) THEN "REMOVED" ELSE kids[i]
      BY <2>1
    <2>4. Ended' = Ended /\ Unfinished(kids)' = {}
      BY <2>2, <2>3 DEF Ended, Unfinished
    <2>5. IInv'
      BY <1>0, <2>1, <2>2, <2>4 DEF IInv, Typed, LoopStates, Merged, Once
    <2>6. CASE state = "WAITING"
      <3>1. \A i \in DOMAIN kids : kids[i] \in UNFINISHED \union {"COMPLETED", "ERROR"}
        BY <1>0, <2>6 DEF IInv, Typed, KidStates, Outstanding
      <3>2. Outstanding' = Ended
        BY <2>2, <2>3, <3>1 DEF Outstanding, Ended, Unfinished
      <3> QED
        BY <2>1, <2>4, <2>5, <2>6, <3>2 DEF Contract!Abandon, Merged, Contract!Next
    <2>7. CASE state = "READY"
      <3>1. Unfinished(kids) = {}
        BY <2>7 DEF IInv
      <3>2. kids' = kids
        BY <1>0, <2>2, <2>3, <3>1 DEF Typed
      <3> QED
        BY <2>1, <2>5, <2>7, <3>2 DEF Contract!contractVars, Merged, Ended, Outstanding
    <2> QED
      BY <2>1, <2>5, <2>6, <2>7
  <1>7. CASE UNCHANGED vars
    <2>1. IInv'
      BY <1>7 DEF vars, IInv, Typed, Ended, Outstanding, Unfinished, Merged, Once
    <2>2. UNCHANGED Contract!contractVars
      BY <1>7 DEF vars, Contract!contractVars, Merged, Ended, Outstanding
    <2> QED
      BY <2>1, <2>2
  <1> QED
    BY <1>1, <1>2, <1>3, <1>4, <1>5, <1>6, <1>7 DEF Next, RunInstance

LEMMA InitContract == Init => Contract!Init
  <1> SUFFICES ASSUME Init PROVE Contract!Init
    OBVIOUS
  <1>1. kids = << >> /\ Merged = {} /\ state = "FUTURE"
    BY DEF Init, Merged, Members
  <1> QED
    BY <1>1 DEF Contract!Init, Merged, Ended, Outstanding

\* The loop and multi-instance tasks keep their contract, whatever their size and
\* the kinds of their input and output: no result is merged twice or lost, and
\* nothing is left over when they end (_update_hook and process_children).
THEOREM LoopsKeepContract == Spec => ContractKept
  <1>1. Init => IInv
    BY InitInv
  <1>2. IInv /\ [Next]_vars => IInv' /\ [Contract!Next]_(Contract!contractVars)
    BY NextStep
  <1>3. Init => Contract!Init
    BY InitContract
  <1> QED
    BY <1>1, <1>2, <1>3, PTL DEF Spec, ContractKept, Contract!Spec

-----------------------------------------------------------------------------
(* A loop without a condition runs an instance for every item. *)

\* How many instances a loop without a condition runs.
Items == IF loop.mode = "standard" /\ ~loop.first /\ loop.size = 0 THEN 1 ELSE Planned

\* The instances that a loop has when it waits, and when it has ended by itself.
Counts(s, K) ==
    ~CutShort =>
        /\ s = "WAITING" =>
               IF loop.mode = "parallel" THEN Len(K) = loop.size ELSE Len(K) <= Items
        /\ s \in {"READY", "COMPLETED"} => Len(K) = Items

CInv ==
    /\ IInv
    /\ loop \in LoopType /\ (loop.limited \/ loop.condition)
    /\ ~loop.condition => Counts(state, kids) /\ (state \in {"READY", "COMPLETED"} => Merged = DOMAIN kids)

LEMMA ItemsNumber ==
  ASSUME loop \in LoopType
  PROVE  /\ Planned \in Nat /\ Items \in Nat /\ loop.size \in Nat
         /\ loop.mode = "parallel" => Items = loop.size
         /\ loop.mode = "sequential" => Items = Planned
         /\ loop.mode = "standard" => Planned = loop.size
  <1>1. loop.size \in Nat /\ loop.none \in Nat /\ loop.mode \in Modes
    BY DEF LoopType
  <1>2. Planned \in Nat /\ (loop.mode # "sequential" => Planned = loop.size)
    BY <1>1 DEF Planned
  <1>3. loop.mode # "standard" => Items = Planned
    BY DEF Items
  <1>4. Items \in {1, Planned}
    BY DEF Items
  <1> QED
    BY <1>1, <1>2, <1>3, <1>4

LEMMA CountsPrime ==
  ASSUME UNCHANGED loop
  PROVE  Counts(state, kids)' <=> Counts(state', kids')
  BY DEF Counts, Items, Planned, CutShort, ItemExists

\* All instances of K have ended and have been merged: their number is Len(K).
LEMMA MergedNumber ==
  ASSUME NEW K \in Seq(KidStates), NEW M, M = DOMAIN K
  PROVE  Cardinality(M) = Len(K) /\ (M = {} => Len(K) = 0)
  <1>1. Len(K) \in Nat /\ DOMAIN K = 1..Len(K)
    OBVIOUS
  <1>2. Cardinality(1..Len(K)) = Len(K)
    BY <1>1, FS_Interval
  <1> QED
    BY <1>1, <1>2

LEMMA MergedLength ==
  ASSUME NEW K \in Seq(KidStates), NEW m \in Seq(Nat),
         \A i, j \in DOMAIN m : m[i] = m[j] => i = j, Members(m) = DOMAIN K
  PROVE  Len(m) = Len(K) /\ (m = << >> <=> Len(K) = 0)
  <1>1. Cardinality(Members(m)) = Len(K)
    BY MergedNumber
  <1>2. Cardinality(Members(m)) = Len(m)
    BY OnceLength
  <1>3. Len(m) = 0 <=> m = << >>
    OBVIOUS
  <1> QED
    BY <1>1, <1>2, <1>3

LEMMA UpdateCounts ==
  ASSUME IInv, loop \in LoopType, loop.limited, ~loop.condition, state \in {"FUTURE", "WAITING"},
         NEW K, NEW R, Goes(K), Update(K, R),
         Counts("WAITING", K), state = "FUTURE" => state' # "FUTURE" \/ K = << >>
  PROVE  Counts(state', kids') /\ (state' \in {"READY", "COMPLETED"} => Merged' = DOMAIN kids')
  <1> USE DEF UNFINISHED, FINISHED
  <1>1. K \in Seq(KidStates) /\ Len(K) \in Nat
    BY DEF Goes
  <1>2. CASE Refused(K, R) # {}
    <2>1. kids' = K /\ state' = state
      BY <1>2 DEF Update
    <2> QED
      BY <2>1 DEF Counts
  <1>3. CASE Refused(K, R) = {}
    <2>1. Merged' = Merged \union New(K) /\ merged' \in Seq(Nat) /\ Once'
      BY <1>1, <1>3, MergesTaken DEF IInv, Taken
    <2>2. PICK holds \in Conditions : Go(K, R, holds)
      BY <1>3 DEF Update
    <2>3. ~holds
      BY <2>2 DEF Conditions
    <2>4. ASSUME Unfinished(K) = {} PROVE Merged' = DOMAIN K
      <3>1. \A i \in DOMAIN K : K[i] \in {"COMPLETED", "ERROR"}
        BY <2>4 DEF Goes, Unfinished
      <3>2. Merged \subseteq DOMAIN K
        BY DEF IInv, Goes, Ended
      <3> QED
        BY <2>1, <3>1, <3>2 DEF New, Merged
    <2>5. CASE state' = "WAITING" /\ kids' = K
      BY <2>5 DEF Counts
    <2>6. CASE /\ Unfinished(K) = {} /\ ~NoMore(K)
               /\ state' = "WAITING"
               /\ \E s \in {"WAITING", "READY"} : kids' = Append(K, s)
      <3>1. Len(kids') = Len(K) + 1
        BY <1>1, <2>6
      <3>2. loop.mode # "parallel"
        BY <2>6 DEF NoMore
      <3>3. Len(merged') = Len(K) /\ (merged' = << >> => Len(K) = 0)
        BY <1>1, <2>1, <2>4, <2>6, MergedLength DEF Merged, Once
      <3>4. ASSUME ~CutShort PROVE Len(K) < Items
        <4>1. CASE loop.mode = "sequential"
          BY <1>1, <2>6, <4>1, ItemsNumber DEF NoMore
        <4>2. CASE loop.mode = "standard"
          <5>1. (~loop.first /\ Len(K) = 0) \/ Len(K) < loop.size
            BY <1>1, <2>6, <3>3, <4>2, ItemsNumber DEF NoMore
          <5> QED
            BY <1>1, <4>2, <5>1, ItemsNumber DEF Items
        <4> QED
          BY <3>2, <4>1, <4>2 DEF LoopType, Modes
      <3> QED
        BY <1>1, <2>6, <3>1, <3>2, <3>4, ItemsNumber DEF Counts
    <2>7. CASE /\ Unfinished(K) = {} /\ NoMore(K)
               /\ state' = "READY" /\ kids' = K
      <3>1. Merged' = DOMAIN K
        BY <2>4, <2>7
      <3>2. Len(merged') = Len(K) /\ (merged' = << >> <=> Len(K) = 0)
        BY <1>1, <2>1, <3>1, MergedLength DEF Merged, Once
      <3>3. ASSUME ~CutShort PROVE Len(K) = Items
        <4>1. CASE loop.mode = "parallel"
          BY <3>3, <4>1, ItemsNumber DEF Counts
        <4>2. CASE loop.mode = "sequential"
          BY <1>1, <2>7, <3>3, <4>2, ItemsNumber DEF Counts, NoMore
        <4>3. CASE loop.mode = "standard"
          <5>1. (loop.first \/ Len(K) # 0) /\ Len(K) >= loop.size
            <6>1. loop.first \/ merged' # << >>
              BY <2>7, <4>3 DEF NoMore
            <6>2. merged' # << >> => Len(K) # 0
              BY <3>2
            <6> QED
              BY <2>7, <3>2, <4>3, <6>1, <6>2 DEF NoMore
          <5>2. Len(K) <= Items
            BY <3>3, <4>3 DEF Counts
          <5>3. CASE ~loop.first /\ loop.size = 0
            <6>1. Items = 1 /\ Len(K) # 0
              BY <4>3, <5>1, <5>3 DEF Items
            <6>2. \A n \in Nat : n # 0 /\ n <= 1 => n = 1
              OBVIOUS
            <6>3. Len(K) = 1
              BY <1>1, <5>2, <6>1, <6>2
            <6> QED
              BY <6>1, <6>3
          <5>4. CASE loop.first \/ loop.size # 0
            <6>1. Items = loop.size
              BY <4>3, <5>4, ItemsNumber DEF Items
            <6> QED
              BY <1>1, <5>1, <5>2, <6>1, ItemsNumber
          <5> QED
            BY <5>3, <5>4
        <4> QED
          BY <4>1, <4>2, <4>3 DEF LoopType, Modes
      <3> QED
        BY <2>7, <3>1, <3>3 DEF Counts
    <2> QED
      BY <2>2, <2>3, <2>5, <2>6, <2>7 DEF Go, NewState
  <1> QED
    BY <1>2, <1>3

LEMMA InitCounts == Init => CInv
  <1>1. Init => IInv
    BY InitInv
  <1>2. Init => loop \in LoopType /\ (loop.limited \/ loop.condition)
    BY LoopsAssumption DEF Init
  <1> QED
    BY <1>1, <1>2 DEF Init, CInv, Counts

LEMMA NextCounts ==
  ASSUME CInv, [Next]_vars
  PROVE  CInv'
  <1> USE DEF UNFINISHED, FINISHED
  <1>1. IInv /\ IInv' /\ loop \in LoopType
    BY NextStep DEF CInv
  <1>2. UNCHANGED loop
    BY DEF Next, vars, Start, Refresh, CompleteLoop, CancelLoop, RunInstance, InstanceReached,
           CompleteInstance, FailInstance, Update
  <1>3. SUFFICES ASSUME ~loop.condition
                 PROVE  /\ Counts(state', kids')
                        /\ state' \in {"READY", "COMPLETED"} => Merged' = DOMAIN kids'
    BY <1>1, <1>2, CountsPrime DEF CInv
  <1>4. /\ Counts(state, kids)
        /\ state \in {"READY", "COMPLETED"} => Merged = DOMAIN kids
        /\ loop.limited
    BY <1>3 DEF CInv
  <1>5. kids \in Seq(KidStates) /\ state \in LoopStates /\ loop.size \in Nat
    BY <1>1 DEF IInv, Typed
  <1>6. CASE Start
    <2> DEFINE n == AtOnce
               K == [i \in 1..n |-> "READY"]
               R == [i \in 1..n |-> Inherited(output)]
    <2>1. state = "FUTURE" /\ kids = << >>
      BY <1>1, <1>6 DEF Start, IInv
    <2>2. CASE OutputRefused
      BY <1>6, <2>1, <2>2 DEF Start, Counts
    <2>3. CASE ~OutputRefused /\ ~(AtOnce > 0 /\ CreationFails(<< >>))
      <3>1. Update(K, R)
        BY <1>6, <2>3 DEF Start
      <3>2. n \in Nat /\ (loop.mode # "parallel" => n = 0)
        BY <1>5 DEF AtOnce
      <3>3. loop.mode = "parallel" => n = loop.size
        BY <2>3 DEF AtOnce
      <3> HIDE DEF n
      <3>4. Goes(K) /\ Len(K) = n
        BY <2>1, <3>2 DEF Goes, KidStates, Ended, Unfinished
      <3>5. Counts("WAITING", K)
        BY <1>1, <3>2, <3>3, <3>4, ItemsNumber DEF Counts
      <3>6. ASSUME state' = "FUTURE" PROVE K = << >>
        <4>1. Refused(K, R) # {}
          BY <2>1, <3>1, <3>6 DEF Update, Go
        <4>2. PICK i \in DOMAIN K : K[i] \in FINISHED
          BY <4>1 DEF Refused, New
        <4> QED
          BY <4>2
      <3> HIDE DEF K, R
      <3> QED
        BY <1>1, <1>3, <1>4, <2>1, <3>1, <3>4, <3>5, <3>6, UpdateCounts
    <2>4. CASE ~OutputRefused /\ AtOnce > 0 /\ CreationFails(<< >>)
      <3>1. state' = "WAITING"
        BY <1>6, <2>4 DEF Start
      <3>2. CutShort
        BY <2>4 DEF AtOnce, CreationFails, CutShort
      <3> QED
        BY <3>1, <3>2 DEF Counts
    <2> QED
      BY <2>2, <2>3, <2>4
  <1>7. CASE Refresh
    <2>1. state = "WAITING" /\ Update(kids, results)
      BY <1>7 DEF Refresh
    <2>2. Goes(kids)
      BY <1>1, <2>1 DEF IInv, Goes, Typed, KidStates, Outstanding
    <2> QED
      BY <1>1, <1>3, <1>4, <2>1, <2>2, UpdateCounts
  <1>8. CASE \E i \in DOMAIN kids : CompleteInstance(i)
    <2>1. PICK i \in DOMAIN kids : CompleteInstance(i)
      BY <1>8
    <2> DEFINE K == [kids EXCEPT ![i] = "COMPLETED"]
    <2>2. PICK R : Update(K, R)
      BY <2>1 DEF CompleteInstance
    <2>3. state = "WAITING"
      BY <1>1, <1>5, <2>1 DEF CompleteInstance, IInv, Unfinished, LoopStates
    <2>4. /\ K \in Seq(KidStates) /\ DOMAIN K = DOMAIN kids /\ Len(K) = Len(kids)
          /\ \A j \in DOMAIN kids : K[j] = IF j = i THEN "COMPLETED" ELSE kids[j]
      BY <1>5, <2>1 DEF KidStates
    <2>5. i \notin Ended
      BY <2>1 DEF CompleteInstance, Ended
    <2> HIDE DEF K
    <2>6. Goes(K)
      <3>1. \A j \in DOMAIN kids : kids[j] \in UNFINISHED \union {"COMPLETED", "ERROR"}
        BY <1>1, <1>5, <2>3 DEF IInv, KidStates, Outstanding
      <3>2. Unfinished(K) \subseteq Unfinished(kids)
        BY <2>4 DEF Unfinished
      <3> QED
        BY <1>1, <2>4, <2>5, <3>1, <3>2 DEF Goes, IInv, Ended
    <2>7. Counts("WAITING", K)
      BY <1>4, <2>3, <2>4 DEF Counts
    <2> QED
      BY <1>1, <1>3, <1>4, <2>2, <2>3, <2>6, <2>7, UpdateCounts
  <1>9. CASE \E i \in DOMAIN kids : InstanceReached(i) \/ FailInstance(i)
    <2>1. PICK i \in DOMAIN kids : InstanceReached(i) \/ FailInstance(i)
      BY <1>9
    <2>2. Len(kids') = Len(kids) /\ DOMAIN kids' = DOMAIN kids
      BY <1>5, <2>1 DEF InstanceReached, FailInstance
    <2>3. UNCHANGED <<state, Merged, loop>>
      BY <2>1 DEF InstanceReached, FailInstance, Merged
    <2> QED
      BY <1>4, <2>2, <2>3 DEF Counts
  <1>10. CASE CompleteLoop
    BY <1>4, <1>10 DEF CompleteLoop, Counts, Merged
  <1>11. CASE CancelLoop
    BY <1>11 DEF CancelLoop, Counts
  <1>12. CASE UNCHANGED vars
    BY <1>4, <1>12 DEF vars, Counts, Merged
  <1> QED
    BY <1>6, <1>7, <1>8, <1>9, <1>10, <1>11, <1>12 DEF Next, RunInstance

\* A loop without a condition that comes to its end by itself has run an instance for
\* every item and has merged each, however many items there are and whatever failed, the
\* creation of instances of a sequential loop included; a parallel loop whose item exists
\* already, whose creation raises at the first instance, has merged that one
\* (create_child, children created at the start, and the maximum).
THEOREM AllItemsAlwaysRun == Spec => []AllItemsRun
  <1>1. Init => CInv
    BY InitCounts
  <1>2. CInv /\ [Next]_vars => CInv'
    BY NextCounts
  <1>3. CInv => AllItemsRun
    BY DEF CInv, Counts, Items, AllItemsRun, Merged
  <1> QED
    BY <1>1, <1>2, <1>3, PTL DEF Spec

-----------------------------------------------------------------------------
(* The output has what the merged instances have left. *)

Values == Results \union {Nothing, Before}

\* What the instances have left, and where it is; R are the results and m the list of the
\* instances that have been merged.
Faithful(out, R, m) ==
    IF Keyed
    THEN /\ Members(m) \subseteq DOMAIN out
         /\ \A x \in DOMAIN out : out[x] = IF x \in Members(m) THEN R[x] ELSE Before
    ELSE out = Original \o [n \in DOMAIN m |-> R[m[n]]]

OInv ==
    /\ IInv
    /\ loop \in LoopType
    /\ Collects =>
        results \in Seq(Values) /\ Len(results) = Len(kids) /\ Faithful(output, results, merged)

\* A collection is a list to begin with.
LEMMA OriginalList ==
  ASSUME loop \in LoopType, Collects
  PROVE  Original \in Seq(Values) /\ \A x \in DOMAIN Original : Original[x] = Before
  <1>1. loop.size \in Nat /\ Before \in Values
    BY DEF LoopType, Values
  <1>2. CASE loop.output = "place"
    <2>1. Original = [x \in 1..loop.size |-> Before]
      BY <1>2 DEF Original
    <2> QED
      BY <1>1, <2>1
  <1>3. CASE loop.output # "place"
    <2>1. Original = << >>
      BY <1>3 DEF Original, Collects
    <2> QED
      BY <2>1
  <1> QED
    BY <1>2, <1>3

\* What the members of two lists have left, one behind the other.
LEMMA LeftBehind ==
  ASSUME NEW R, NEW old \in Seq(Nat), NEW more \in Seq(Nat), NEW o \in Seq(Values),
         \A n \in DOMAIN old : R[old[n]] \in Values,
         \A n \in DOMAIN more : R[more[n]] \in Values
  PROVE  LET new == old \o more
         IN  (o \o [n \in DOMAIN old |-> R[old[n]]]) \o [n \in DOMAIN more |-> R[more[n]]]
             = o \o [n \in DOMAIN new |-> R[new[n]]]
  <1> DEFINE new == old \o more
             f == [n \in DOMAIN old |-> R[old[n]]]
             g == [n \in DOMAIN more |-> R[more[n]]]
             h == [n \in DOMAIN new |-> R[new[n]]]
  <1>1. PICK k \in Nat : k = Len(old) /\ DOMAIN old = 1..k
    OBVIOUS
  <1>2. PICK c \in Nat : c = Len(more) /\ DOMAIN more = 1..c
    OBVIOUS
  <1>3. /\ DOMAIN new = 1..(k + c)
        /\ \A n \in 1..(k + c) : new[n] = IF n <= k THEN old[n] ELSE more[n - k]
    BY <1>1, <1>2
  <1>4. f \in Seq(Values) /\ Len(f) = k /\ \A n \in 1..k : f[n] = R[old[n]]
    BY <1>1
  <1>5. g \in Seq(Values) /\ Len(g) = c /\ \A n \in 1..c : g[n] = R[more[n]]
    BY <1>2
  <1> HIDE DEF new, f, g
  <1>6. DOMAIN h = 1..(k + c) /\ \A n \in 1..(k + c) : h[n] = R[new[n]]
    BY <1>3
  <1>7. \A n \in 1..(k + c) : h[n] = IF n <= k THEN f[n] ELSE g[n - k]
    <2> HIDE DEF h
    <2> TAKE n \in 1..(k + c)
    <2>1. CASE n <= k
      BY <1>1, <1>2, <1>3, <1>4, <1>6, <2>1
    <2>2. CASE ~(n <= k)
      <3>1. n - k \in 1..c
        BY <1>1, <1>2, <2>2
      <3>2. new[n] = more[n - k]
        BY <1>3, <2>2
      <3>3. g[n - k] = R[more[n - k]]
        BY <1>5, <3>1
      <3> QED
        BY <1>6, <2>2, <3>2, <3>3
    <2> QED
      BY <2>1, <2>2
  <1>8. /\ f \o g \in Seq(Values) /\ Len(f \o g) = k + c
        /\ \A n \in 1..(k + c) : (f \o g)[n] = IF n <= k THEN f[n] ELSE g[n - k]
    BY <1>4, <1>5, ConcatProperties
  <1>9. h = f \o g
    <2>1. \A n \in 1..(k + c) : h[n] = (f \o g)[n]
      BY <1>7, <1>8
    <2>2. \A n \in 1..(k + c) : (f \o g)[n] \in Values
      BY <1>8
    <2>3. h = [n \in 1..(k + c) |-> R[new[n]]] /\ k + c \in Nat
      BY <1>3
    <2>4. h \in [1..(k + c) -> Values]
      BY <2>1, <2>2, <2>3
    <2> HIDE DEF h
    <2>5. h \in Seq(Values) /\ Len(h) = k + c
      BY <2>3, <2>4
    <2> QED
      BY <1>8, <2>1, <2>5, SeqEqual
  <1> HIDE DEF h
  <1>10. (o \o f) \o g = o \o (f \o g)
    BY <1>4, <1>5, ConcatAssociative
  <1> QED
    BY <1>9, <1>10 DEF f, g, h, new

LEMMA StoredFaithful ==
  ASSUME loop \in LoopType, Collects, NEW K \in Seq(KidStates), NEW R \in Seq(Values), Len(R) = Len(K),
         merged \in Seq(Nat), Members(merged) \subseteq DOMAIN K,
         \A i \in Members(merged) : R[i] = results[i],
         Taken(K, R) \in SUBSET Nat, IsFiniteSet(Taken(K, R)),
         Faithful(output, results, merged)
  PROVE  LET taken == Taken(K, R)
         IN  Faithful(Stored(taken, R), R, merged \o InOrder(taken))
  <1> DEFINE taken == Taken(K, R)
             out == Stored(taken, R)
             more == InOrder(taken)
  <1>1. /\ taken \subseteq 1..Len(K) /\ Len(K) \in Nat
        /\ DOMAIN K = 1..Len(K) /\ \A i \in 1..Len(K) : R[i] \in Values
    BY DEF Taken, New
  <1>2. /\ Members(merged \o more) = Members(merged) \union taken
        /\ more \in Seq(Nat) /\ Members(more) = taken
    BY MergingMore
  <1> HIDE DEF taken, more
  <1>3. CASE Keyed
    <2>1. out = [x \in DOMAIN output \union taken |-> IF x \in taken THEN R[x] ELSE output[x]]
      BY <1>3 DEF Stored
    <2>2. DOMAIN out = DOMAIN output \union taken
      BY <2>1
    <2>3. ASSUME NEW x \in DOMAIN out
          PROVE  out[x] = IF x \in Members(merged) \union taken THEN R[x] ELSE Before
      BY <1>1, <1>3, <2>1, <2>2, <2>3 DEF Faithful
    <2> HIDE DEF out
    <2>4. Members(merged) \union taken \subseteq DOMAIN out
      BY <1>3, <2>2 DEF Faithful
    <2> QED
      BY <1>2, <1>3, <2>3, <2>4 DEF Faithful, out, taken, more
  <1>4. CASE ~Keyed
    <2> DEFINE old == [n \in DOMAIN merged |-> R[merged[n]]]
    <2>1. out = output \o [n \in DOMAIN more |-> R[more[n]]]
      BY <1>4 DEF Stored, more
    <2>2. old = [n \in DOMAIN merged |-> results[merged[n]]]
      BY DEF Members
    <2>3. output = Original \o old
      BY <1>4, <2>2 DEF Faithful
    <2>4. \A n \in DOMAIN merged : R[merged[n]] \in Values
      BY <1>1 DEF Members
    <2>5. \A n \in DOMAIN more : R[more[n]] \in Values
      BY <1>1, <1>2 DEF Members
    <2>6. Original \in Seq(Values)
      BY OriginalList
    <2> DEFINE new == merged \o more
    <2>7. out = Original \o [n \in DOMAIN new |-> R[new[n]]]
      BY <1>2, <2>1, <2>3, <2>4, <2>5, <2>6, LeftBehind
    <2> HIDE DEF out
    <2> QED
      BY <1>4, <2>7 DEF Faithful, out, taken, more
  <1> QED
    BY <1>3, <1>4 DEF taken, more

LEMMA FaithfulSame ==
  ASSUME NEW out, NEW R, NEW S, NEW m, Faithful(out, R, m), \A i \in Members(m) : S[i] = R[i]
  PROVE  Faithful(out, S, m)
  <1>1. [n \in DOMAIN m |-> S[m[n]]] = [n \in DOMAIN m |-> R[m[n]]]
    BY DEF Members
  <1> QED
    BY <1>1 DEF Faithful

LEMMA UpdateFaithful ==
  ASSUME loop \in LoopType, Collects, NEW K \in Seq(KidStates), NEW R \in Seq(Values), Len(R) = Len(K),
         merged \in Seq(Nat), Members(merged) \subseteq DOMAIN K,
         \A i \in Members(merged) : R[i] = results[i],
         Faithful(output, results, merged), Update(K, R)
  PROVE  results' \in Seq(Values) /\ Len(results') = Len(kids') /\ Faithful(output', results', merged')
  <1>1. merged' = merged \o InOrder(Taken(K, R)) /\ output' = Stored(Taken(K, R), R)
    BY DEF Update
  <1>0. /\ Taken(K, R) \in SUBSET Nat /\ IsFiniteSet(Taken(K, R))
        /\ Merged' = Merged \union Taken(K, R)
    BY MergesTaken
  <1>2. Faithful(output', R, merged')
    BY <1>0, <1>1, StoredFaithful
  <1>3. Members(merged') \subseteq DOMAIN K /\ DOMAIN K = 1..Len(K) /\ Len(K) \in Nat
    BY <1>0 DEF Taken, New, Merged
  <1>4. \/ results' = R /\ kids' \in {K, Cancelled(K)}
        \/ \E v \in Values : \E s \in KidStates : results' = Append(R, v) /\ kids' = Append(K, s)
    <2>1. NewState(merged') \in KidStates
      BY DEF NewState, KidStates, UNFINISHED
    <2>2. Inherited(output') \in Values
      BY DEF Inherited, Values
    <2> QED
      BY <2>1, <2>2 DEF Update, Go
  <1>5. CASE results' = R /\ kids' \in {K, Cancelled(K)}
    <2>1. DOMAIN kids' = DOMAIN K /\ kids' \in Seq(KidStates)
      BY <1>5, CancelledKids
    <2>2. Len(kids') = Len(K)
      BY <2>1
    <2> QED
      BY <1>2, <1>5, <2>2
  <1>6. ASSUME NEW v \in Values, NEW s, results' = Append(R, v), kids' = Append(K, s)
        PROVE  results' \in Seq(Values) /\ Len(results') = Len(kids') /\ Faithful(output', results', merged')
    <2>1. results' \in Seq(Values) /\ Len(results') = Len(R) + 1
      BY <1>6
    <2>2. Len(kids') = Len(K) + 1
      BY <1>6
    <2>3. \A i \in Members(merged') : results'[i] = R[i]
      BY <1>3, <1>6
    <2>4. Faithful(output', results', merged')
      BY <1>2, <2>3, FaithfulSame
    <2> QED
      BY <2>1, <2>2, <2>4
  <1> QED
    BY <1>4, <1>5, <1>6

LEMMA InitOutput == Init => OInv
  <1> SUFFICES ASSUME Init PROVE OInv
    OBVIOUS
  <1>1. IInv
    BY InitInv
  <1>2. loop \in LoopType /\ loop.size \in Nat
    BY LoopsAssumption DEF Init, LoopType
  <1>3. results = << >> /\ kids = << >> /\ merged = << >> /\ output = Original
    BY DEF Init
  <1>4. results \in Seq(Values) /\ Len(results) = Len(kids)
    BY <1>3
  <1>5. ASSUME Collects PROVE Faithful(output, results, merged)
    <2>1. Original \in Seq(Values) /\ \A x \in DOMAIN Original : Original[x] = Before
      BY <1>2, <1>5, OriginalList
    <2>2. Members(merged) = {} /\ [n \in DOMAIN merged |-> results[merged[n]]] = << >>
      BY <1>3 DEF Members
    <2>3. Original \o << >> = Original
      BY <2>1
    <2> QED
      BY <1>3, <2>1, <2>2, <2>3 DEF Faithful
  <1> QED
    BY <1>1, <1>2, <1>4, <1>5 DEF OInv

LEMMA NextOutput ==
  ASSUME OInv, [Next]_vars
  PROVE  OInv'
  <1>1. IInv /\ IInv' /\ loop \in LoopType
    BY NextStep DEF OInv
  <1>2. /\ kids \in Seq(KidStates) /\ DOMAIN kids = 1..Len(kids) /\ Len(kids) \in Nat
        /\ merged \in Seq(Nat) /\ Members(merged) \subseteq Ended
    BY <1>1 DEF IInv, Typed, Merged
  <1>3. loop' = loop
    BY DEF Next, vars, Start, Refresh, CompleteLoop, CancelLoop, RunInstance, InstanceReached,
           CompleteInstance, FailInstance, Update
  <1>4. SUFFICES ASSUME Collects
                 PROVE  results' \in Seq(Values) /\ Len(results') = Len(kids') /\ Faithful(output', results', merged')
    BY <1>1, <1>3 DEF OInv, Collects, Faithful, Keyed, HasKeys, IsMapping, ItemExists, Original
  <1>5. results \in Seq(Values) /\ Len(results) = Len(kids) /\ Faithful(output, results, merged)
    BY <1>4 DEF OInv
  \* The steps that leave the data as they are.
  <1>6. ASSUME UNCHANGED <<results, merged, output>>, DOMAIN kids' = DOMAIN kids
        PROVE  results' \in Seq(Values) /\ Len(results') = Len(kids') /\ Faithful(output', results', merged')
    <2>1. Len(kids') = Len(kids)
      BY <1>1, <1>2, <1>6 DEF IInv, Typed
    <2> QED
      BY <1>5, <1>6, <2>1
  <1>7. CASE Start
    <2> DEFINE n == AtOnce
               K == [i \in 1..n |-> "READY"]
               R == [i \in 1..n |-> Inherited(output)]
    <2>0. Inherited(output) \in Values
      BY <1>4 DEF Inherited, Values
    <2>1. kids = << >> /\ DOMAIN kids = {}
      BY <1>1, <1>7 DEF Start, IInv
    <2>2. CASE OutputRefused
      BY <1>6, <1>7, <2>2 DEF Start
    <2>3. CASE ~OutputRefused /\ ~(AtOnce > 0 /\ CreationFails(<< >>))
      <3>1. Update(K, R)
        BY <1>7, <2>3 DEF Start
      <3>2. n \in Nat
        BY <1>1 DEF LoopType, AtOnce
      <3>3. "READY" \in KidStates
        BY DEF KidStates, UNFINISHED
      <3> HIDE DEF n
      <3>4. K \in Seq(KidStates) /\ R \in Seq(Values) /\ Len(R) = Len(K)
        BY <2>0, <3>2, <3>3
      <3>5. Members(merged) \subseteq DOMAIN K /\ \A i \in Members(merged) : R[i] = results[i]
        BY <1>2, <2>1 DEF Ended
      <3> HIDE DEF K, R
      <3> QED
        BY <1>1, <1>2, <1>4, <1>5, <3>1, <3>4, <3>5, UpdateFaithful
    <2>4. CASE ~OutputRefused /\ AtOnce > 0 /\ CreationFails(<< >>)
      <3>1. /\ UNCHANGED <<merged, output>>
            /\ kids' = <<NewState(<< >>)>> /\ results' = <<Inherited(output)>>
        BY <1>7, <2>4 DEF Start
      <3>2. results' \in Seq(Values) /\ Len(results') = 1 /\ Len(kids') = 1
        BY <2>0, <3>1
      <3>3. \A i \in Members(merged) : results'[i] = results[i]
        BY <1>2, <2>1 DEF Ended
      <3> QED
        BY <1>5, <3>1, <3>2, <3>3, FaithfulSame
    <2> QED
      BY <2>2, <2>3, <2>4
  <1>8. CASE Refresh
    <2>1. Update(kids, results)
      BY <1>8 DEF Refresh
    <2>2. Members(merged) \subseteq DOMAIN kids
      BY <1>2 DEF Ended
    <2>3. PICK K \in Seq(KidStates), R \in Seq(Values) : K = kids /\ R = results
      BY <1>2, <1>5
    <2> QED
      BY <1>1, <1>2, <1>4, <1>5, <2>1, <2>2, <2>3, UpdateFaithful
  <1>9. ASSUME NEW i \in DOMAIN kids, RunInstance(i)
        PROVE  results' \in Seq(Values) /\ Len(results') = Len(kids') /\ Faithful(output', results', merged')
    <2>1. CASE CompleteInstance(i)
      <3>1. PICK r \in Results \union {results[i]} :
                Update([kids EXCEPT ![i] = "COMPLETED"], [results EXCEPT ![i] = r])
        BY <2>1 DEF CompleteInstance
      <3> DEFINE K == [kids EXCEPT ![i] = "COMPLETED"]
                 R == [results EXCEPT ![i] = r]
      <3>2. i \notin Members(merged) /\ Members(merged) \subseteq DOMAIN kids
        BY <1>2, <2>1 DEF CompleteInstance, Ended
      <3>3. "COMPLETED" \in KidStates /\ r \in Values
        BY <1>2, <1>5, <3>1 DEF KidStates, FINISHED, Values
      <3>4. K \in Seq(KidStates) /\ R \in Seq(Values) /\ Len(R) = Len(K) /\ DOMAIN K = DOMAIN kids
        BY <1>2, <1>5, <3>3
      <3>5. \A j \in Members(merged) : R[j] = results[j]
        BY <1>2, <1>5, <3>2
      <3>6. Update(K, R)
        BY <3>1
      <3> HIDE DEF K, R
      <3> QED
        BY <1>1, <1>2, <1>4, <1>5, <3>2, <3>4, <3>5, <3>6, UpdateFaithful
    <2>2. CASE InstanceReached(i) \/ FailInstance(i)
      BY <1>2, <1>6, <2>2 DEF InstanceReached, FailInstance
    <2> QED
      BY <1>9, <2>1, <2>2 DEF RunInstance
  <1>10. CASE CompleteLoop
    BY <1>6, <1>10 DEF CompleteLoop
  <1>11. CASE CancelLoop
    BY <1>6, <1>11 DEF CancelLoop
  <1>12. CASE UNCHANGED vars
    BY <1>6, <1>12 DEF vars
  <1> QED
    BY <1>7, <1>8, <1>9, <1>10, <1>11, <1>12 DEF Next

\* No instance is merged twice; and the output of a loop has the result of each instance
\* that has been merged and nothing else but what it held before: under its key, or as one
\* entry for each in the order of merging, however many instances there are and in whatever
\* order they end (process_children, child_completed_action).
THEOREM OutputAlwaysFaithful == Spec => []OutputFaithful
  <1>1. Init => OInv
    BY InitOutput
  <1>2. OInv /\ [Next]_vars => OInv'
    BY NextOutput
  <1>3. OInv => OutputFaithful
    BY DEF OInv, IInv, Once, Faithful, OutputFaithful
  <1> QED
    BY <1>1, <1>2, <1>3, PTL DEF Spec
=============================================================================
