---------------------------- MODULE ParserProofs ----------------------------
(***************************************************************************)
(* Whatever diagrams there are, and in whatever order files are added,     *)
(* specs are asked for and calls fail: what a call of the parser returns   *)
(* can be run.                                                             *)
(***************************************************************************)
EXTENDS ParserProperties, SequenceTheorems, TLAPS

-----------------------------------------------------------------------------
(* The inductive invariant *)

ParseOps == {"starts", "enter", "look", "wrap", "attach", "follow", "connect"}
AskOps   == {"process", "subprocesses", "all"}

Nodes    == DOMAIN diagram.nodes
Callable == {diagram.nodes[n].called : n \in Nodes}
Flows    == [to : Nodes, cond : BOOLEAN]

\* What the task specs of a process may refer to.
Referable == {NoProcess} \union DOMAIN parsers \union Callable

RefersTo(tasks, Q) ==
    \A x \in DOMAIN tasks : "called" \in DOMAIN tasks[x] /\ tasks[x].called \in Q

SpecsInv ==
    /\ diagram \in Diagrams
    /\ DOMAIN parsers \subseteq DOMAIN diagram.processes
    /\ \A p \in DOMAIN specs :
           "tasks" \in DOMAIN specs[p] /\ RefersTo(specs[p].tasks, Referable)

\* What has been returned is complete.
ServedInv ==
    \A p \in served : p \in DOMAIN specs /\ Refs(specs[p]) \intersect Executable \subseteq served

IsFrame(f) ==
    f = [op |-> f.op, of |-> f.of, process |-> f.process, todo |-> f.todo, got |-> f.got,
         at |-> f.at, required |-> f.required]

Items(s)  == {s[i] : i \in DOMAIN s}
Asked(f)  == {t[1] : t \in f.todo}
Found(f)  == f.got \intersect DOMAIN parsers

\* A collection of subprocesses has found, or has still to ask for, all that it has met.
Collecting(f) ==
    /\ f.of \in DOMAIN specs
    /\ Found(f) \subseteq DOMAIN specs
    /\ f.got \union Asked(f) \subseteq DOMAIN parsers \union Callable
    /\ \A p \in {f.of} \union Found(f) : Refs(specs[p]) \subseteq f.got \union Asked(f)

\* A process that is being parsed has not been returned yet.
FrameInv(f) ==
    /\ f.op \in ParseOps \union AskOps \union {"collaboration"}
    /\ f.op \in ParseOps => f.process \in DOMAIN specs \ served
    /\ f.op \in ParseOps \ {"starts"} => f.of \in Nodes
    /\ f.op \in {"starts", "attach"} => f.todo \in Seq(Nodes)
    /\ f.op = "follow" => f.todo \in Seq(Flows)
    /\ f.op = "look" /\ E(f.of).tag \in Subprocesses => f.of \in DOMAIN parsers
    /\ f.op = "wrap" => Main(f.of) \in DOMAIN specs[f.process].tasks
    /\ f.op = "process" => f.got = {}
    /\ f.op = "all" => f.got \subseteq DOMAIN specs
    /\ f.op = "collaboration" => f.got \in Seq(DOMAIN parsers)
    /\ f.op = "subprocesses" => Collecting(f)

\* f is above g on the stack: only one process is parsed at a time, and never one
\* that the call below has already found.
Above(f, g) ==
    /\ f.op # "collaboration" /\ g.op # "wrap"
    /\ f.op \in AskOps => g.op = "collaboration"
    /\ f.op \in ParseOps /\ g.op \in ParseOps => f.process = g.process
    /\ f.op \in ParseOps /\ g.op = "subprocesses" => f.process \notin {g.of} \union g.got

Ordered(s) == \A i, j \in DOMAIN s : i < j => Above(s[i], s[j])

\* The participants of a collaboration have been returned, or are looked for.
ParticipantsInv ==
    \A f \in Items(calls) : f.op = "collaboration" =>
        \A k \in DOMAIN f.got :
            \/ f.got[k] \in served
            \/ \E g \in Items(calls) : g.op \in {"process", "subprocesses"} /\ g.of = f.got[k]

StackInv ==
    /\ calls \in Seq(Items(calls))
    /\ Ordered(calls)
    /\ \A f \in Items(calls) : IsFrame(f) /\ FrameInv(f)
    /\ ParticipantsInv

ParserInv == SpecsInv /\ ServedInv /\ StackInv

-----------------------------------------------------------------------------
(* Sequences as stacks *)

LEMMA ItemsBelong ==
    ASSUME NEW S, NEW s \in Seq(S)
    PROVE  /\ s \in Seq(Items(s))
           /\ Items(s) \subseteq S
           /\ Items(s) = {s[i] : i \in 1..Len(s)}
<1>1. DOMAIN s = 1..Len(s) /\ Len(s) \in Nat /\ \A i \in 1..Len(s) : s[i] \in S
    BY LenProperties, ElementOfSeq
<1>2. Items(s) = {s[i] : i \in 1..Len(s)}  BY <1>1 DEF Items
<1>3. \A i \in 1..Len(s) : s[i] \in Items(s)  BY <1>2
<1>4. s = [i \in 1..Len(s) |-> s[i]]  BY LenProperties
<1>5. s \in Seq(Items(s))  BY <1>1, <1>3, <1>4
<1> QED  BY <1>1, <1>2, <1>5

LEMMA PushItems ==
    ASSUME NEW s, s \in Seq(Items(s)), NEW f
    PROVE  /\ <<f>> \o s \in Seq(Items(<<f>> \o s))
           /\ Items(<<f>> \o s) = {f} \union Items(s)
           /\ Ordered(s) /\ (\A g \in Items(s) : Above(f, g)) => Ordered(<<f>> \o s)
<1> DEFINE S == {f} \union Items(s)
           t == <<f>> \o s
<1>1. s \in Seq(S) /\ <<f>> \in Seq(S)
    <2>1. Items(s) \subseteq S /\ f \in S  OBVIOUS
    <2> HIDE DEF S
    <2>2. s \in Seq(S)  BY <2>1, SeqMonotonic
    <2>3. <<f>> \in Seq(S)  BY <2>1
    <2> QED  BY <2>2, <2>3
<1>2. /\ t \in Seq(S) /\ Len(t) = 1 + Len(s) /\ Len(s) \in Nat
      /\ \A i \in 1..(1 + Len(s)) : t[i] = IF i <= 1 THEN f ELSE s[i - 1]
    <2>1. Len(<<f>>) = 1 /\ <<f>>[1] = f  OBVIOUS
    <2>2. Len(s) \in Nat  BY <1>1, LenProperties
    <2>3. /\ t \in Seq(S) /\ Len(t) = Len(<<f>>) + Len(s)
          /\ \A i \in 1..(Len(<<f>>) + Len(s)) :
                 t[i] = IF i <= Len(<<f>>) THEN <<f>>[i] ELSE s[i - Len(<<f>>)]
        BY <1>1, ConcatProperties, Zenon
    <2> HIDE DEF t, S
    <2>4. \A i \in 1..(1 + Len(s)) : i <= 1 => i = 1  BY <2>2
    <2> QED  BY <2>1, <2>2, <2>3, <2>4
<1>3. DOMAIN s = 1..Len(s) /\ DOMAIN t = 1..(1 + Len(s))  BY <1>1, <1>2, LenProperties
<1>4. t[1] = f /\ \A i \in 1..Len(s) : i + 1 \in 1..(1 + Len(s)) /\ t[i + 1] = s[i]
    <2> HIDE DEF t, S
    <2> QED  BY <1>2
<1>5. \A i \in DOMAIN t : i = 1 \/ (i - 1 \in DOMAIN s /\ t[i] = s[i - 1])
    <2> HIDE DEF t, S
    <2> QED  BY <1>2, <1>3
<1>6. Items(t) = {f} \union Items(s)
    <2> HIDE DEF t, S
    <2>1. \A x \in Items(t) : x \in {f} \union Items(s)  BY <1>4, <1>5 DEF Items
    <2>2. f \in Items(t)  BY <1>2, <1>3, <1>4 DEF Items
    <2>3. \A x \in Items(s) : x \in Items(t)  BY <1>3, <1>4 DEF Items
    <2> QED  BY <2>1, <2>2, <2>3
<1>7. ASSUME Ordered(s), \A g \in Items(s) : Above(f, g)
      PROVE  Ordered(t)
    <2> SUFFICES ASSUME NEW i \in DOMAIN t, NEW j \in DOMAIN t, i < j PROVE Above(t[i], t[j])
        BY Zenon DEF Ordered
    <2> HIDE DEF t, S
    <2>1. i \in Int /\ j \in Int /\ 1 <= i /\ j - 1 \in DOMAIN s /\ t[j] = s[j - 1]
        BY <1>2, <1>3, <1>5
    <2>2. CASE i = 1
        <3>1. t[j] \in Items(s)  BY <2>1 DEF Items
        <3> QED  BY <3>1, <2>2, <1>4, <1>7, Zenon
    <2>3. CASE i # 1
        <3>1. i - 1 \in DOMAIN s /\ t[i] = s[i - 1] /\ i - 1 < j - 1  BY <2>1, <2>3, <1>5
        <3>2. Above(s[i - 1], s[j - 1])  BY <3>1, <2>1, <1>7, Zenon DEF Ordered
        <3> QED  BY <2>1, <3>1, <3>2
    <2> QED  BY <2>2, <2>3
<1>8. t \in Seq(Items(t))  BY <1>2, ItemsBelong, Zenon
<1> QED  BY <1>6, <1>7, <1>8

LEMMA TailItems ==
    ASSUME NEW s, s \in Seq(Items(s)), s # <<>>
    PROVE  /\ Tail(s) \in Seq(Items(Tail(s)))
           /\ Items(s) = {Head(s)} \union Items(Tail(s))
           /\ Ordered(s) => Ordered(Tail(s)) /\ \A g \in Items(Tail(s)) : Above(Head(s), g)
<1> DEFINE t == Tail(s)
<1>1. /\ t \in Seq(Items(s)) /\ Len(t) = Len(s) - 1 /\ \A i \in 1..Len(t) : t[i] = s[i + 1]
      /\ Len(s) \in Nat \ {0} /\ DOMAIN s = 1..Len(s) /\ DOMAIN t = 1..(Len(s) - 1)
    BY HeadTailProperties, EmptySeq, LenProperties
<1>2. Head(s) = s[1]  BY <1>1
<1> HIDE DEF t
<1>3. \A i \in DOMAIN t : i + 1 \in DOMAIN s /\ t[i] = s[i + 1]  BY <1>1
<1>4. \A i \in DOMAIN s : i = 1 \/ (i - 1 \in DOMAIN t /\ s[i] = t[i - 1])  BY <1>1
<1>5. Items(s) = {Head(s)} \union Items(t)
    <2>1. \A x \in Items(s) : x \in {Head(s)} \union Items(t)  BY <1>2, <1>4 DEF Items
    <2>2. \A x \in Items(t) : x \in Items(s)  BY <1>3 DEF Items
    <2>3. Head(s) \in Items(s)  BY <1>1, <1>2 DEF Items
    <2> QED  BY <2>1, <2>2, <2>3
<1>6. ASSUME Ordered(s)
      PROVE  Ordered(t) /\ \A g \in Items(t) : Above(Head(s), g)
    <2>1. ASSUME NEW i \in DOMAIN t, NEW j \in DOMAIN t, i < j PROVE Above(t[i], t[j])
        <3>1. /\ i + 1 \in DOMAIN s /\ j + 1 \in DOMAIN s /\ i + 1 < j + 1
              /\ t[i] = s[i + 1] /\ t[j] = s[j + 1]
            BY <2>1, <1>1, <1>3
        <3> QED  BY <3>1, <1>6, Zenon DEF Ordered
    <2>2. ASSUME NEW j \in DOMAIN t PROVE Above(Head(s), t[j])
        <3>1. 1 \in DOMAIN s /\ j + 1 \in DOMAIN s /\ 1 < j + 1 /\ t[j] = s[j + 1]
            BY <1>1, <1>3
        <3> QED  BY <3>1, <1>2, <1>6, Zenon DEF Ordered
    <2> QED  BY <2>1, <2>2, Zenon DEF Ordered, Items
<1>7. t \in Seq(Items(t))  BY <1>1, ItemsBelong, Zenon
<1> QED  BY <1>5, <1>6, <1>7 DEF t

-----------------------------------------------------------------------------
(* What the task specs of a process refer to *)

LEMMA RefersMonotonic ==
    ASSUME NEW tasks, NEW Q, NEW R, RefersTo(tasks, Q), Q \subseteq R
    PROVE  RefersTo(tasks, R)
BY DEF RefersTo

LEMMA RefsFound ==
    ASSUME NEW spec, NEW Q, RefersTo(spec.tasks, Q)
    PROVE  Refs(spec) \subseteq Q \ {NoProcess}
BY DEF RefersTo, Refs

LEMMA RefersPut ==
    ASSUME NEW tasks, NEW Q, RefersTo(tasks, Q), NEW x, NEW t,
           "called" \in DOMAIN t, t.called \in Q
    PROVE  RefersTo(Put(tasks, x, t), Q)
BY DEF RefersTo, Put

LEMMA RefersReplaced ==
    ASSUME NEW tasks, NEW Q, RefersTo(tasks, Q), NEW x, NEW t,
           x \in DOMAIN tasks => "called" \in DOMAIN t /\ t.called \in Q
    PROVE  RefersTo([tasks EXCEPT ![x] = t], Q)
BY DEF RefersTo

\* Connecting two task specs changes what they lead to, not what they call.
LEMMA ConnectedRefers ==
    ASSUME NEW tasks, NEW Q, RefersTo(tasks, Q), NEW a, NEW b
    PROVE  RefersTo(Connected(tasks, a, b), Q)
<1> DEFINE first  == [tasks EXCEPT ![a] = [tasks[a] EXCEPT !.outputs = Append(tasks[a].outputs, b)]]
           second == [first EXCEPT ![b] = [first[b] EXCEPT !.inputs = Append(first[b].inputs, a)]]
<1>1. RefersTo(first, Q)
    <2>1. ASSUME a \in DOMAIN tasks
          PROVE  LET t == [tasks[a] EXCEPT !.outputs = Append(tasks[a].outputs, b)]
                 IN  "called" \in DOMAIN t /\ t.called \in Q
        BY <2>1 DEF RefersTo
    <2> QED  BY <2>1, RefersReplaced
<1> HIDE DEF first
<1>2. RefersTo(second, Q)
    <2>1. ASSUME b \in DOMAIN first
          PROVE  LET t == [first[b] EXCEPT !.inputs = Append(first[b].inputs, a)]
                 IN  "called" \in DOMAIN t /\ t.called \in Q
        BY <1>1, <2>1 DEF RefersTo
    <2> QED  BY <1>1, <2>1, RefersReplaced
<1>3. Connected(tasks, a, b) = second  BY DEF Connected, first
<1> QED  BY <1>2, <1>3

LEMMA TaskSpecCalls ==
    ASSUME NEW kind
    PROVE  "called" \in DOMAIN TaskSpec(kind) /\ TaskSpec(kind).called = NoProcess
BY DEF TaskSpec

LEMMA EmptySpecRefers ==
    ASSUME NEW p, NEW objects, NEW Q, NoProcess \in Q
    PROVE  /\ "tasks" \in DOMAIN EmptySpec(p, objects)
           /\ RefersTo(EmptySpec(p, objects).tasks, Q)
<1> DEFINE kind(x) == CASE x = Begin      -> "BpmnStartTask"
                        [] x = EndJoin(p) -> "_EndJoin"
                        [] OTHER          -> "SimpleBpmnTask"
           made == [x \in {Begin, EndJoin(p), End} |-> TaskSpec(kind(x))]
<1> HIDE DEF kind
<1>1. RefersTo(made, Q)  BY TaskSpecCalls DEF RefersTo
<1>2. RefersTo(Connected(made, EndJoin(p), End), Q)
    <2> HIDE DEF made
    <2> QED  BY <1>1, ConnectedRefers
<1>3. /\ "tasks" \in DOMAIN EmptySpec(p, objects)
      /\ EmptySpec(p, objects).tasks = Connected(made, EndJoin(p), End)
    BY DEF EmptySpec, kind
<1> QED  BY <1>2, <1>3

LEMMA JoinedRefers ==
    ASSUME NEW tasks, NEW Q, NoProcess \in Q, RefersTo(tasks, Q)
    PROVE  RefersTo(Joined(tasks), Q)
<1> DEFINE S == tasks[Begin].outputs
           split == [TaskSpec("StartEventSplit") EXCEPT !.inputs = <<Begin>>, !.outputs = S]
           merge == [TaskSpec("StartEventJoin") EXCEPT !.partner = StartSplit, !.needed = 1,
                                                       !.cancels = TRUE, !.inputs = S]
           moved(x) ==
               CASE x = Begin -> [tasks[x] EXCEPT !.outputs = <<StartSplit>>]
                 [] x \in {S[i] : i \in DOMAIN S} ->
                        [tasks[x] EXCEPT !.outputs = Append(@, StartMerge),
                                         !.inputs  = <<StartSplit>>]
                 [] OTHER -> tasks[x]
           others == [x \in DOMAIN tasks |-> moved(x)]
<1>1. /\ "called" \in DOMAIN split /\ split.called \in Q
      /\ "called" \in DOMAIN merge /\ merge.called \in Q
    BY DEF TaskSpec
<1>2. RefersTo(others, Q)
    <2> SUFFICES ASSUME NEW x \in DOMAIN tasks
                 PROVE  "called" \in DOMAIN moved(x) /\ moved(x).called \in Q
        BY Zenon DEF RefersTo
    <2>1. "called" \in DOMAIN tasks[x] /\ tasks[x].called \in Q  BY DEF RefersTo
    <2>2. CASE x = Begin  BY <2>1, <2>2
    <2>3. CASE x # Begin /\ x \in {S[i] : i \in DOMAIN S}
        <3> DEFINE A == {S[i] : i \in DOMAIN S}
        <3>1. moved(x) = [tasks[x] EXCEPT !.outputs = Append(@, StartMerge),
                                          !.inputs  = <<StartSplit>>]
            <4> HIDE DEF S
            <4> QED  BY <2>3
        <3> QED  BY <2>1, <3>1
    <2>4. CASE x # Begin /\ x \notin {S[i] : i \in DOMAIN S}
        <3>1. moved(x) = tasks[x]
            <4> HIDE DEF S
            <4> QED  BY <2>4
        <3> QED  BY <2>1, <3>1
    <2> QED  BY <2>2, <2>3, <2>4
<1>3. Joined(tasks) = Put(Put(others, StartSplit, split), StartMerge, merge)
    BY Zenon DEF Joined
<1> HIDE DEF split, merge, others
<1>4. RefersTo(Put(others, StartSplit, split), Q)  BY <1>1, <1>2, RefersPut
<1>5. RefersTo(Put(Put(others, StartSplit, split), StartMerge, merge), Q)
    BY <1>1, <1>4, RefersPut
<1> QED  BY <1>3, <1>5

LEMMA LoopedRefers ==
    ASSUME NEW tasks, NEW Q, NoProcess \in Q, RefersTo(tasks, Q), NEW n, Main(n) \in DOMAIN tasks
    PROVE  RefersTo(Looped(tasks, n), Q)
<1> DEFINE original == tasks[Main(n)]
           loop  == [TaskSpec(E(n).loop) EXCEPT !.inputs = original.inputs,
                        !.outputs = original.outputs, !.data = original.data, !.child = Child(n)]
           child == [original EXCEPT !.inputs = <<Main(n)>>, !.outputs = <<>>, !.data = <<>>]
<1>1. "called" \in DOMAIN loop /\ loop.called \in Q  BY DEF TaskSpec
<1>2. "called" \in DOMAIN child /\ child.called \in Q  BY DEF RefersTo
<1>3. Looped(tasks, n) = Put(Put(tasks, Child(n), child), Main(n), loop)  BY Zenon DEF Looped
<1> HIDE DEF loop, child
<1>4. RefersTo(Put(tasks, Child(n), child), Q)  BY <1>2, RefersPut
<1>5. RefersTo(Put(Put(tasks, Child(n), child), Main(n), loop), Q)  BY <1>1, <1>4, RefersPut
<1> QED  BY <1>3, <1>5

LEMMA GuardedRefers ==
    ASSUME NEW tasks, NEW Q, NoProcess \in Q, RefersTo(tasks, Q), NEW n
    PROVE  RefersTo(Guarded(tasks, n), Q)
<1> DEFINE split == TaskSpec("BoundaryEventSplit")
           merge == [TaskSpec("BoundaryEventJoin") EXCEPT !.partner = Split(n), !.cancels = TRUE]
           one   == Put(tasks, Split(n), split)
           both  == Put(one, Merge(n), merge)
<1>1. /\ "called" \in DOMAIN split /\ split.called \in Q
      /\ "called" \in DOMAIN merge /\ merge.called \in Q
    BY DEF TaskSpec
<1>2. Guarded(tasks, n) = Connected(Connected(both, Split(n), Main(n)), Main(n), Merge(n))
    BY Zenon DEF Guarded
<1> HIDE DEF split, merge
<1>3. RefersTo(one, Q)  BY <1>1, RefersPut
<1> HIDE DEF one
<1>4. RefersTo(both, Q)  BY <1>1, <1>3, RefersPut
<1> HIDE DEF both
<1>5. RefersTo(Connected(both, Split(n), Main(n)), Q)  BY <1>4, ConnectedRefers
<1> QED  BY <1>2, <1>5, ConnectedRefers

\* The conditions, the default and the events of a gateway are not what it calls.
LEMMA ChosenRefers ==
    ASSUME NEW Q, RefersTo(T, Q), NEW n, NEW i
    PROVE  RefersTo(Chosen(n, i), Q)
<1> DEFINE c == Entry(E(n).flows[i].to)
           d == IsDefault(E(n), i)
           connected == Connected(T, Main(n), c)
           m == connected[Main(n)]
           one == [connected EXCEPT ![Main(n)] =
                      [m EXCEPT !.conds = Append(m.conds, <<IF d THEN 0 ELSE i, c>>)]]
           v == IF d /\ E(n).tag = "exclusiveGateway" THEN c ELSE one[Main(n)].default
           two == [one EXCEPT ![Main(n)] = [one[Main(n)] EXCEPT !.default = v]]
<1>1. RefersTo(connected, Q)  BY ConnectedRefers
<1>2. Chosen(n, i) = two  BY DEF Chosen
<1> HIDE DEF connected, v, d, c
<1>3. RefersTo(one, Q)
    <2>1. ASSUME Main(n) \in DOMAIN connected
          PROVE  LET t == [m EXCEPT !.conds = Append(m.conds, <<IF d THEN 0 ELSE i, c>>)]
                 IN  "called" \in DOMAIN t /\ t.called \in Q
        BY <1>1, <2>1 DEF RefersTo
    <2> QED  BY <1>1, <2>1, RefersReplaced
<1> HIDE DEF one
<1>4. RefersTo(two, Q)
    <2>1. ASSUME Main(n) \in DOMAIN one
          PROVE  LET t == [one[Main(n)] EXCEPT !.default = v]
                 IN  "called" \in DOMAIN t /\ t.called \in Q
        BY <1>3, <2>1 DEF RefersTo
    <2> QED  BY <1>3, <2>1, RefersReplaced
<1> QED  BY <1>2, <1>4

LEMMA MembersRefer ==
    ASSUME NEW Q, RefersTo(T, Q), NEW n, NEW c
    PROVE  RefersTo([Connected(T, Main(n), c) EXCEPT ![Main(n)].members = Append(@, T[c].event)], Q)
<1> DEFINE connected == Connected(T, Main(n), c)
           t == [connected[Main(n)] EXCEPT
                    !.members = Append(connected[Main(n)].members, T[c].event)]
<1>1. RefersTo(connected, Q)  BY ConnectedRefers
<1> HIDE DEF connected
<1>2. ASSUME Main(n) \in DOMAIN connected PROVE "called" \in DOMAIN t /\ t.called \in Q
    BY <1>1, <1>2 DEF RefersTo
<1>3. RefersTo([connected EXCEPT ![Main(n)] = t], Q)  BY <1>1, <1>2, RefersReplaced
<1> QED  BY <1>3 DEF connected

LEMMA CreatedRefers ==
    ASSUME NEW Q, NEW n, NEW data, E(n).tag \in Subprocesses => n \in Q, E(n).called \in Q
    PROVE  "called" \in DOMAIN Created(n, data) /\ Created(n, data).called \in Q
<1>1. "called" \in DOMAIN Created(n, data)  BY DEF Created, TaskSpec
<1>2. Created(n, data).called = IF E(n).tag \in Subprocesses THEN n ELSE E(n).called
    BY DEF Created, TaskSpec
<1> QED  BY <1>1, <1>2

LEMMA CollaborationRefers ==
    ASSUME NEW c, NEW participants, NEW Q, NoProcess \in Q,
           \A i \in DOMAIN participants : participants[i] \in Q
    PROVE  /\ "tasks" \in DOMAIN CollaborationSpec(c, participants)
           /\ RefersTo(CollaborationSpec(c, participants).tasks, Q)
<1> DEFINE empty == EmptySpec(c, {})
           steps == [i \in DOMAIN participants |-> Main(participants[i])]
           start == [TaskSpec("startEvent") EXCEPT !.outputs = steps]
           end   == [TaskSpec("endEvent") EXCEPT !.inputs = steps]
           step(p) == [TaskSpec("callActivity") EXCEPT !.inputs = <<StartAll>>,
                                                       !.outputs = <<EndAll>>, !.called = p]
           names == DOMAIN empty.tasks \union {StartAll, EndAll}
                        \union {steps[i] : i \in DOMAIN steps}
           task(x) == CASE x = StartAll -> start
                        [] x = EndAll   -> end
                        [] x \in DOMAIN empty.tasks -> empty.tasks[x]
                        [] OTHER -> step(x[1])
           tasks == [x \in names |-> task(x)]
<1>1. "tasks" \in DOMAIN empty /\ RefersTo(empty.tasks, Q)  BY EmptySpecRefers
<1>2. /\ "called" \in DOMAIN start /\ start.called \in Q
      /\ "called" \in DOMAIN end /\ end.called \in Q
    BY DEF TaskSpec
<1>3. \A p : p \in Q => "called" \in DOMAIN step(p) /\ step(p).called \in Q
    BY DEF TaskSpec
<1>4. CollaborationSpec(c, participants) =
          [empty EXCEPT !.tasks = Connected(Connected(tasks, Begin, StartAll), EndAll, EndJoin(c))]
    BY Zenon DEF CollaborationSpec
<1>5. \A i \in DOMAIN steps : steps[i][1] \in Q
    BY DEF Main
<1>8. {StartAll, EndAll} \intersect DOMAIN empty.tasks = {} /\ StartAll # EndAll
    <2>1. DOMAIN empty.tasks = {Begin, EndJoin(c), End}  BY DEF EmptySpec, Connected
    <2>2. StartAll[1] = "Start Collaboration" /\ StartAll[2] = "task"  BY DEF StartAll, Main
    <2>3. EndAll[1] = "End Collaboration" /\ EndAll[2] = "task"  BY DEF EndAll, Main
    <2>4. Begin[1] = "Start" /\ End[1] = "End" /\ EndJoin(c)[2] = "EndJoin"
        BY DEF Begin, End, EndJoin, Main
    <2>5. /\ "Start Collaboration" \notin {"Start", "End", "End Collaboration"}
          /\ "End Collaboration" \notin {"Start", "End"} /\ "task" # "EndJoin"
        OBVIOUS
    <2> HIDE DEF empty
    <2> QED  BY <2>1, <2>2, <2>3, <2>4, <2>5, Zenon
<1> HIDE DEF empty, start, end, step
<1>6. RefersTo(tasks, Q)
    <2> SUFFICES ASSUME NEW x \in names PROVE "called" \in DOMAIN task(x) /\ task(x).called \in Q
        BY Zenon DEF RefersTo
    <2>1. CASE x = StartAll  BY <2>1, <1>2, <1>8
    <2>2. CASE x # StartAll /\ x = EndAll  BY <2>2, <1>2, <1>8
    <2>3. CASE x \notin {StartAll, EndAll} /\ x \in DOMAIN empty.tasks
        BY <2>3, <1>1 DEF RefersTo
    <2>4. CASE x \notin {StartAll, EndAll} /\ x \notin DOMAIN empty.tasks
        <3>1. task(x) = step(x[1])  BY <2>4
        <3>2. x[1] \in Q  BY <2>4, <1>5
        <3> QED  BY <3>1, <3>2, <1>3
    <2> QED  BY <2>1, <2>2, <2>3, <2>4
<1> HIDE DEF tasks
<1>7. RefersTo(Connected(Connected(tasks, Begin, StartAll), EndAll, EndJoin(c)), Q)
    BY <1>6, ConnectedRefers
<1> QED  BY <1>1, <1>4, <1>7
-----------------------------------------------------------------------------
(* Parsing goes on with process p: nothing but p gets new specs, and what  *)
(* becomes known is an embedded subprocess.                                *)

Grows(p) ==
    /\ diagram' = diagram /\ served' = served
    /\ DOMAIN parsers \subseteq DOMAIN parsers'
    /\ DOMAIN parsers' \ DOMAIN parsers \subseteq {n \in Nodes : E(n).tag \in Subprocesses}
    /\ DOMAIN specs \subseteq DOMAIN specs'
    /\ \A x \in DOMAIN specs \ {p} : specs'[x] = specs[x]
    /\ SpecsInv'

\* Nobody relies on p.
Spared(p) ==
    /\ p \notin served
    /\ \A f \in Items(calls) : f.op = "subprocesses" => p \notin {f.of} \union f.got

\* What is called by a call activity does not become known by parsing.
LEMMA NothingCalledGrows ==
    ASSUME ParserInv, NEW p, Grows(p), NEW q \in DOMAIN parsers \union Callable
    PROVE  q \in DOMAIN parsers' => q \in DOMAIN parsers
<1> SUFFICES ASSUME q \in DOMAIN parsers', q \notin DOMAIN parsers PROVE FALSE
    OBVIOUS
<1>1. q \in Nodes /\ diagram.nodes[q].tag \in Subprocesses  BY DEF Grows, E
<1>2. q \in Callable  OBVIOUS
<1>3. PICK m \in Nodes : q = diagram.nodes[m].called  BY <1>2 DEF Callable
<1>4. diagram \in Diagrams  BY DEF ParserInv, SpecsInv
<1> QED  BY <1>1, <1>3, <1>4, DiagramsAssumption DEF DiagramsAssumption, Nodes

LEMMA ReferencesKnown ==
    ASSUME ParserInv, NEW q \in DOMAIN specs
    PROVE  Refs(specs[q]) \subseteq DOMAIN parsers \union Callable
BY RefsFound DEF ParserInv, SpecsInv, Referable

LEMMA ServedKept ==
    ASSUME ParserInv, NEW p, Grows(p), p \notin served
    PROVE  ServedInv'
<1> SUFFICES ASSUME NEW q \in served
             PROVE  q \in DOMAIN specs' /\ Refs(specs'[q]) \intersect Executable' \subseteq served
    BY Zenon DEF ServedInv, Grows
<1>1. q \in DOMAIN specs /\ Refs(specs[q]) \intersect Executable \subseteq served
    BY DEF ParserInv, ServedInv
<1>2. q \in DOMAIN specs' /\ specs'[q] = specs[q]  BY <1>1 DEF Grows
<1>3. ASSUME NEW r \in Refs(specs[q]), r \in Executable' PROVE r \in Executable
    <2>1. r \in DOMAIN parsers \union Callable  BY <1>1, ReferencesKnown
    <2>2. r \in DOMAIN parsers' /\ diagram.processes[r].executable  BY <1>3 DEF Executable, Grows
    <2>3. r \in DOMAIN parsers  BY <2>1, <2>2, NothingCalledGrows
    <2> QED  BY <2>2, <2>3 DEF Executable
<1> QED  BY <1>1, <1>2, <1>3

LEMMA CollectingKept ==
    ASSUME ParserInv, NEW p, Grows(p), NEW f, Collecting(f), p \notin {f.of} \union f.got
    PROVE  Collecting(f)'
<1>1. Callable' = Callable  BY DEF Callable, Nodes, Grows
<1>2. (f.got \union Asked(f)) \subseteq DOMAIN parsers \union Callable  BY DEF Collecting
<1>3. (Found(f))' = f.got \intersect DOMAIN parsers'  BY DEF Found
<1>4. (Found(f))' = Found(f)
    <2>1. \A q \in f.got : q \in DOMAIN parsers' => q \in DOMAIN parsers
        BY <1>2, NothingCalledGrows
    <2>2. DOMAIN parsers \subseteq DOMAIN parsers'  BY DEF Grows
    <2> QED  BY <1>3, <2>1, <2>2 DEF Found
<1>5. f.of \in DOMAIN specs' /\ Found(f) \subseteq DOMAIN specs'  BY DEF Grows, Collecting
<1>6. (f.got \union Asked(f)) \subseteq DOMAIN parsers' \union Callable  BY <1>2 DEF Grows
<1>7. ASSUME NEW q \in {f.of} \union Found(f)
      PROVE  Refs(specs'[q]) \subseteq f.got \union Asked(f)
    <2>1. q \in DOMAIN specs /\ q # p  BY DEF Collecting, Found
    <2>2. specs'[q] = specs[q]  BY <2>1 DEF Grows
    <2> QED  BY <2>2 DEF Collecting
<1> QED  BY <1>1, <1>4, <1>5, <1>6, <1>7 DEF Collecting, Asked

LEMMA FrameKept ==
    ASSUME ParserInv, NEW p, Grows(p), Spared(p), NEW f \in Items(calls), f.op # "wrap"
    PROVE  FrameInv(f)'
<1>1. FrameInv(f)  BY DEF ParserInv, StackInv
<1>2. Nodes' = Nodes /\ Flows' = Flows /\ \A n : E(n)' = E(n)  BY DEF Nodes, Flows, E, Grows
<1>3. f.op = "subprocesses" => Collecting(f)'
    BY <1>1, CollectingKept DEF FrameInv, Spared
<1>4. f.op = "collaboration" => f.got \in Seq(DOMAIN parsers')
    <2>1. DOMAIN parsers \subseteq DOMAIN parsers'  BY DEF Grows
    <2> QED  BY <1>1, <2>1, SeqMonotonic DEF FrameInv
<1> QED  BY <1>1, <1>2, <1>3, <1>4 DEF FrameInv, Grows
-----------------------------------------------------------------------------
(* The stack while parsing goes on *)

LEMMA TopFacts ==
    ASSUME ParserInv, calls # <<>>
    PROVE  /\ Rest \in Seq(Items(Rest)) /\ Ordered(Rest)
           /\ Items(calls) = {Top} \union Items(Rest)
           /\ \A g \in Items(Rest) : Above(Top, g)
           /\ IsFrame(Top) /\ FrameInv(Top)
<1>1. calls \in Seq(Items(calls)) /\ Ordered(calls)  BY DEF ParserInv, StackInv
<1>2. /\ Rest \in Seq(Items(Rest)) /\ Ordered(Rest)
      /\ Items(calls) = {Top} \union Items(Rest)
      /\ \A g \in Items(Rest) : Above(Top, g)
    BY <1>1, TailItems, Zenon DEF Top, Rest
<1>3. Top \in Items(calls)  BY <1>2
<1> QED  BY <1>2, <1>3 DEF ParserInv, StackInv

LEMMA NewStack ==
    ASSUME ParserInv, NEW p, Grows(p), Spared(p),
           calls' \in Seq(Items(calls')), Ordered(calls'),
           \A f \in Items(calls') :
               \/ f \in Items(calls) /\ f.op # "wrap"
               \/ IsFrame(f) /\ FrameInv(f)' /\ f.op \in ParseOps,
           \A f \in Items(calls) : f.op \notin ParseOps => f \in Items(calls')
    PROVE  ParserInv'
<1>1. ServedInv' /\ SpecsInv'  BY ServedKept DEF Grows, Spared
<1>2. \A f \in Items(calls') : IsFrame(f) /\ FrameInv(f)'
    BY FrameKept DEF ParserInv, StackInv
<1>3. ParticipantsInv'
    <2> SUFFICES ASSUME NEW f \in Items(calls'), f.op = "collaboration", NEW k \in DOMAIN f.got
                 PROVE  \/ f.got[k] \in served'
                        \/ \E g \in Items(calls') :
                               g.op \in {"process", "subprocesses"} /\ g.of = f.got[k]
        BY Zenon DEF ParticipantsInv
    <2>1. f \in Items(calls)  BY DEF ParseOps
    <2>2. \/ f.got[k] \in served
          \/ \E g \in Items(calls) : g.op \in {"process", "subprocesses"} /\ g.of = f.got[k]
        BY <2>1 DEF ParserInv, StackInv, ParticipantsInv
    <2>3. CASE f.got[k] \in served  BY <2>3 DEF Grows
    <2>4. CASE \E g \in Items(calls) : g.op \in {"process", "subprocesses"} /\ g.of = f.got[k]
        BY <2>4 DEF ParseOps
    <2> QED  BY <2>2, <2>3, <2>4
<1> QED  BY <1>1, <1>2, <1>3 DEF ParserInv, StackInv

\* What is on top of the stack parses a process nobody relies on.
LEMMA TopSpared ==
    ASSUME ParserInv, calls # <<>>, Top.op \in ParseOps
    PROVE  Spared(Top.process)
<1>1. Top.process \notin served  BY TopFacts DEF FrameInv
<1>2. ASSUME NEW f \in Items(calls), f.op = "subprocesses"
      PROVE  Top.process \notin {f.of} \union f.got
    <2>1. f \in Items(Rest)  BY <1>2, TopFacts DEF ParseOps
    <2> QED  BY <1>2, <2>1, TopFacts DEF Above
<1> QED  BY <1>1, <1>2 DEF Spared

LEMMA StackPopped ==
    ASSUME ParserInv, calls # <<>>, Top.op \in ParseOps, Grows(Top.process), calls' = Rest
    PROVE  ParserInv'
<1>1. PICK p : p = Top.process  OBVIOUS
<1>2. Grows(p) /\ Spared(p)  BY <1>1, TopSpared
<1>3. calls' \in Seq(Items(calls')) /\ Ordered(calls')  BY TopFacts
<1>4. \A f \in Items(calls') : f \in Items(calls) /\ f.op # "wrap"  BY TopFacts DEF Above
<1>5. \A f \in Items(calls) : f.op \notin ParseOps => f \in Items(calls')  BY TopFacts
<1> QED  BY <1>2, <1>3, <1>4, <1>5, NewStack

LEMMA StackReplaced ==
    ASSUME ParserInv, calls # <<>>, Top.op \in ParseOps, Grows(Top.process),
           NEW f, calls' = <<f>> \o Rest,
           IsFrame(f), FrameInv(f)', f.op \in ParseOps, f.process = Top.process
    PROVE  ParserInv'
<1>1. PICK p : p = Top.process  OBVIOUS
<1>2. Grows(p) /\ Spared(p)  BY <1>1, TopSpared
<1>3. \A g \in Items(Rest) : Above(f, g)
    BY TopFacts DEF Above, ParseOps, AskOps
<1>4. PICK rest : rest = Rest  OBVIOUS
<1>5. rest \in Seq(Items(rest)) /\ Ordered(rest) /\ \A g \in Items(rest) : Above(f, g)
    BY <1>3, <1>4, TopFacts
<1>6. /\ calls' \in Seq(Items(calls')) /\ Ordered(calls')
      /\ Items(calls') = {f} \union Items(rest)
    BY <1>4, <1>5, PushItems
<1>7. \A g \in Items(rest) : g \in Items(calls) /\ g.op # "wrap"
    BY <1>4, TopFacts DEF Above
<1>8. \A g \in Items(calls) : g.op \notin ParseOps => g \in Items(calls')
    BY <1>4, <1>6, TopFacts
<1> QED  BY <1>2, <1>6, <1>7, <1>8, NewStack

LEMMA StackPushed ==
    ASSUME ParserInv, NEW p, Grows(p), Spared(p), NEW f, calls' = <<f>> \o calls,
           IsFrame(f), FrameInv(f)', f.op \in ParseOps,
           \A g \in Items(calls) : Above(f, g)
    PROVE  ParserInv'
<1>1. PICK rest : rest = calls  OBVIOUS
<1>2. rest \in Seq(Items(rest)) /\ Ordered(rest) /\ \A g \in Items(rest) : Above(f, g)
    BY <1>1 DEF ParserInv, StackInv
<1>3. /\ calls' \in Seq(Items(calls')) /\ Ordered(calls')
      /\ Items(calls') = {f} \union Items(rest)
    BY <1>1, <1>2, PushItems
<1>4. \A g \in Items(rest) : g \in Items(calls) /\ g.op # "wrap"
    BY <1>1, <1>2 DEF Above
<1>5. \A g \in Items(calls) : g \in Items(calls')  BY <1>1, <1>3
<1> QED  BY <1>3, <1>4, <1>5, NewStack
-----------------------------------------------------------------------------
(* The actions of parse_node and of ProcessParser *)

LEMMA RaiseKeeps == ASSUME ParserInv, Raise PROVE ParserInv'
<1>1. /\ calls' = <<>> /\ diagram' = diagram /\ parsers' = parsers /\ specs' = specs
      /\ served' = served
    BY DEF Raise, files
<1>2. SpecsInv' /\ ServedInv'
    BY <1>1 DEF ParserInv, SpecsInv, ServedInv, Referable, Callable, Nodes, Executable
<1>3. Items(calls') = {} /\ calls' \in Seq(Items(calls'))  BY <1>1 DEF Items
<1>4. Ordered(calls')  BY <1>1 DEF Ordered
<1>5. StackInv'  BY <1>3, <1>4 DEF StackInv, ParticipantsInv
<1> QED  BY <1>2, <1>5 DEF ParserInv

LEMMA NothingGrows ==
    ASSUME ParserInv, UNCHANGED <<diagram, parsers, specs, served>>, NEW p
    PROVE  Grows(p)
<1>1. SpecsInv'  BY DEF ParserInv, SpecsInv, Referable, Callable, Nodes
<1> QED  BY <1>1 DEF Grows

LEMMA TasksSet ==
    ASSUME ParserInv, calls # <<>>, Top.op \in ParseOps,
           UNCHANGED <<diagram, parsers, served>>, NEW tasks, RefersTo(tasks, Referable),
           specs' = [specs EXCEPT ![P].tasks = tasks]
    PROVE  Grows(Top.process) /\ specs'[P].tasks = tasks
<1>1. P \in DOMAIN specs  BY TopFacts DEF FrameInv, P
<1>2. "tasks" \in DOMAIN specs[P]  BY <1>1 DEF ParserInv, SpecsInv
<1>3. DOMAIN specs' = DOMAIN specs /\ \A x \in DOMAIN specs \ {P} : specs'[x] = specs[x]
    OBVIOUS
<1>4. "tasks" \in DOMAIN specs'[P] /\ specs'[P].tasks = tasks  BY <1>1, <1>2
<1>5. Referable' = Referable  BY DEF Referable, Callable, Nodes
<1>6. \A x \in DOMAIN specs' :
          "tasks" \in DOMAIN specs'[x] /\ RefersTo(specs'[x].tasks, Referable)
    BY <1>3, <1>4 DEF ParserInv, SpecsInv
<1>7. SpecsInv'  BY <1>5, <1>6 DEF ParserInv, SpecsInv
<1> QED  BY <1>3, <1>4, <1>7 DEF Grows, P

\* The specs of the process that is being parsed.
LEMMA CurrentTasks ==
    ASSUME ParserInv, calls # <<>>, Top.op \in ParseOps
    PROVE  RefersTo(T, Referable) /\ NoProcess \in Referable
BY TopFacts DEF FrameInv, ParserInv, SpecsInv, T, P, Referable

Edited(g, op, todo) == [g EXCEPT !.op = op, !.todo = todo]

LEMMA EditedFrame ==
    ASSUME NEW g, IsFrame(g), NEW o, NEW t
    PROVE  /\ IsFrame(Edited(g, o, t))
           /\ Edited(g, o, t).op = o /\ Edited(g, o, t).todo = t
           /\ Edited(g, o, t).of = g.of /\ Edited(g, o, t).process = g.process
           /\ Edited(g, o, t).got = g.got
<1> DEFINE r == [op |-> o, of |-> g.of, process |-> g.process, todo |-> t, got |-> g.got,
                 at |-> g.at, required |-> g.required]
           fields == {"op", "of", "process", "todo", "got", "at", "required"}
<1>1. DOMAIN g = fields  BY DEF IsFrame
<1>2. Edited(g, o, t) = [x \in fields |-> IF x = "todo" THEN t ELSE IF x = "op" THEN o ELSE g[x]]
    BY <1>1 DEF Edited
<1>3. Edited(g, o, t) = r  BY <1>2
<1> QED  BY <1>3 DEF IsFrame

\* One stage of parse_node after another.
LEMMA GoKeeps ==
    ASSUME ParserInv, calls # <<>>, Top.op \in ParseOps, Grows(Top.process),
           NEW op \in ParseOps, NEW todo, Go(op, todo),
           op # "starts" => Top.of \in Nodes,
           op \in {"starts", "attach"} => todo \in Seq(Nodes),
           op = "follow" => todo \in Seq(Flows),
           op = "look" /\ E(Top.of).tag \in Subprocesses => Top.of \in DOMAIN parsers',
           op = "wrap" => Main(Top.of) \in DOMAIN specs'[Top.process].tasks
    PROVE  ParserInv'
<1>1. PICK f : f = Edited(Top, op, todo)  OBVIOUS
<1>2. /\ IsFrame(f) /\ f.op = op /\ f.todo = todo
      /\ f.of = Top.of /\ f.process = Top.process /\ f.got = Top.got
    BY <1>1, TopFacts, EditedFrame
<1>3. calls' = <<f>> \o Rest  BY <1>1 DEF Go, Edited
<1>4. Nodes' = Nodes /\ Flows' = Flows /\ \A n : E(n)' = E(n)  BY DEF Nodes, Flows, E, Grows
<1>5. f.process \in DOMAIN specs' \ served'  BY <1>2, TopFacts DEF FrameInv, Grows
<1>6. FrameInv(f)'  BY <1>2, <1>4, <1>5 DEF FrameInv, ParseOps
<1> QED  BY <1>2, <1>3, <1>6, StackReplaced

LEMMA EnterKeeps ==
    ASSUME ParserInv, calls # <<>>, Top.op \in ParseOps \ {"wrap"}, NEW n \in Nodes, Enter(n)
    PROVE  ParserInv'
<1>1. PICK f : f = Frame("enter", n, P, <<>>, <<>>)  OBVIOUS
<1>2. /\ IsFrame(f) /\ f.op = "enter" /\ f.of = n /\ f.process = Top.process
    BY <1>1 DEF Frame, IsFrame, P
<1>3. /\ calls' = <<f>> \o calls
      /\ UNCHANGED <<diagram, parsers, specs, served>>
    BY <1>1 DEF Enter, Push, files
<1>4. PICK p : p = Top.process  OBVIOUS
<1>5. Grows(p) /\ Spared(p)  BY <1>3, <1>4, NothingGrows, TopSpared
<1>6. FrameInv(f)'
    <2>1. f.process \in DOMAIN specs' \ served'  BY <1>2, <1>3, TopFacts DEF FrameInv
    <2>2. f.of \in Nodes'  BY <1>2, <1>3 DEF Nodes
    <2> QED  BY <1>2, <2>1, <2>2 DEF FrameInv, ParseOps
<1>7. \A g \in Items(calls) : Above(f, g)
    BY <1>2, TopFacts DEF Above, ParseOps, AskOps
<1>8. f.op \in ParseOps  BY <1>2 DEF ParseOps
<1> QED  BY <1>2, <1>3, <1>5, <1>6, <1>7, <1>8, StackPushed
LEMMA NextStartKeeps == ASSUME ParserInv, NextStart PROVE ParserInv'
<1>1. /\ calls # <<>> /\ Top.op = "starts" /\ Top.op \in ParseOps \ {"wrap"}
      /\ Top.todo \in Seq(Nodes) /\ Top.todo # <<>>
    BY TopFacts DEF NextStart, Doing, FrameInv, ParseOps
<1>2. Head(Top.todo) \in Nodes /\ Tail(Top.todo) \in Seq(Nodes)  BY <1>1, HeadTailProperties
<1>3. CASE Known(Main(Head(Top.todo)))
    <2>1. /\ Go("starts", Tail(Top.todo)) /\ UNCHANGED <<diagram, parsers, specs, served>>
        BY <1>3 DEF NextStart, files
    <2>2. Grows(Top.process)
        <3>1. PICK p : p = Top.process  OBVIOUS
        <3> QED  BY <2>1, <3>1, NothingGrows
    <2>3. PICK todo : todo = Tail(Top.todo)  OBVIOUS
    <2>4. Go("starts", todo) /\ todo \in Seq(Nodes)  BY <1>2, <2>1, <2>3
    <2> QED  BY <1>1, <2>2, <2>4, GoKeeps
<1>4. CASE ~Known(Main(Head(Top.todo)))
    <2>1. PICK n \in Nodes : n = Head(Top.todo)  BY <1>2
    <2>2. Enter(n)  BY <1>4, <2>1 DEF NextStart
    <2> QED  BY <1>1, <2>2, EnterKeeps
<1> QED  BY <1>3, <1>4

LEMMA FinishProcessKeeps == ASSUME ParserInv, FinishProcess PROVE ParserInv'
<1>1. /\ calls # <<>> /\ Top.op \in ParseOps /\ calls' = Rest
      /\ UNCHANGED <<diagram, parsers, served>>
    BY DEF FinishProcess, Doing, ParseOps, files
<1>2. PICK tasks : tasks = IF Len(diagram.processes[P].starts) > 1 THEN Joined(T) ELSE T
    OBVIOUS
<1>3. specs' = [specs EXCEPT ![P].tasks = tasks]  BY <1>2 DEF FinishProcess, SetTasks
<1>4. RefersTo(tasks, Referable)
    <2>1. PICK t, Q : t = T /\ Q = Referable  OBVIOUS
    <2>2. RefersTo(t, Q) /\ NoProcess \in Q  BY <1>1, <2>1, CurrentTasks
    <2>3. RefersTo(Joined(t), Q)  BY <2>2, JoinedRefers
    <2> QED  BY <1>2, <2>1, <2>2, <2>3
<1>5. Grows(Top.process)  BY <1>1, <1>3, <1>4, TasksSet
<1> QED  BY <1>1, <1>5, StackPopped

LEMMA EnterNodeKeeps == ASSUME ParserInv, EnterNode PROVE ParserInv'
<1>1. /\ calls # <<>> /\ Top.op = "enter" /\ Top.op \in ParseOps /\ Top.of \in Nodes
      /\ P \in DOMAIN specs
    BY TopFacts DEF EnterNode, Doing, FrameInv, ParseOps, P
<1>2. CASE Refused(Top.of)  BY <1>2, RaiseKeeps DEF EnterNode
<1>3. CASE ~Refused(Top.of)
    <2>1. /\ parsers' = IF E(Top.of).tag \in Subprocesses THEN Put(parsers, Top.of, P) ELSE parsers
          /\ specs' = [specs EXCEPT ![P].keys = @ \union ({Definition(E(Top.of)).key} \ {""})]
          /\ Go("look", E(Top.of).data)
          /\ diagram' = diagram /\ served' = served
        BY <1>3 DEF EnterNode, files
    <2>2. DOMAIN parsers' =
              DOMAIN parsers \union (IF E(Top.of).tag \in Subprocesses THEN {Top.of} ELSE {})
        BY <2>1 DEF Put
    <2>3. DOMAIN parsers' \subseteq DOMAIN diagram.processes
        <3>1. E(Top.of).tag \in Subprocesses => Top.of \in DOMAIN diagram.processes
            BY <1>1, DiagramsAssumption DEF DiagramsAssumption, ParserInv, SpecsInv, Nodes, E
        <3> QED  BY <2>2, <3>1 DEF ParserInv, SpecsInv
    <2>4. /\ DOMAIN specs' = DOMAIN specs
          /\ \A x \in DOMAIN specs \ {P} : specs'[x] = specs[x]
          /\ "tasks" \in DOMAIN specs[P]
        BY <1>1, <2>1 DEF ParserInv, SpecsInv
    <2>5. specs'[P].tasks = specs[P].tasks /\ "tasks" \in DOMAIN specs'[P]
        <3>1. specs'[P] = [specs[P] EXCEPT !.keys = @ \union ({Definition(E(Top.of)).key} \ {""})]
            BY <1>1, <2>1
        <3> QED  BY <2>4, <3>1
    <2>6. \A x \in DOMAIN specs' : "tasks" \in DOMAIN specs'[x] /\ specs'[x].tasks = specs[x].tasks
        BY <2>4, <2>5 DEF ParserInv, SpecsInv
    <2>7. Referable \subseteq Referable'  BY <2>1, <2>2 DEF Referable, Callable, Nodes
    <2>8. \A x \in DOMAIN specs' : RefersTo(specs'[x].tasks, Referable')
        <3>1. \A x \in DOMAIN specs : RefersTo(specs[x].tasks, Referable)
            BY DEF ParserInv, SpecsInv
        <3>2. \A x \in DOMAIN specs : RefersTo(specs[x].tasks, Referable')
            BY <2>7, <3>1, RefersMonotonic
        <3> QED  BY <2>4, <2>6, <3>2
    <2>9. SpecsInv'  BY <2>1, <2>3, <2>6, <2>8 DEF ParserInv, SpecsInv
    <2>10. Grows(Top.process)  BY <1>1, <2>1, <2>2, <2>4, <2>9 DEF Grows, P
    <2>11. PICK todo : todo = E(Top.of).data  OBVIOUS
    <2>12. Go("look", todo)  BY <2>1, <2>11
    <2>13. E(Top.of).tag \in Subprocesses => Top.of \in DOMAIN parsers'  BY <2>2
    <2> QED  BY <1>1, <2>10, <2>12, <2>13, GoKeeps DEF ParseOps
<1> QED  BY <1>2, <1>3
\* The search for a data object.
Resolved(g, todo, at, got) == [g EXCEPT !.todo = todo, !.at = at, !.got = got]
MovedUp(g, at)             == [g EXCEPT !.at = at]

LEMMA LookFrame ==
    ASSUME NEW g, IsFrame(g), NEW todo, NEW at, NEW got
    PROVE  /\ IsFrame(Resolved(g, todo, at, got)) /\ Resolved(g, todo, at, got).op = g.op
           /\ Resolved(g, todo, at, got).of = g.of
           /\ Resolved(g, todo, at, got).process = g.process
           /\ IsFrame(MovedUp(g, at)) /\ MovedUp(g, at).op = g.op
           /\ MovedUp(g, at).of = g.of /\ MovedUp(g, at).process = g.process
<1> DEFINE fields == {"op", "of", "process", "todo", "got", "at", "required"}
           r == [op |-> g.op, of |-> g.of, process |-> g.process, todo |-> todo, got |-> got,
                 at |-> at, required |-> g.required]
           q == [op |-> g.op, of |-> g.of, process |-> g.process, todo |-> g.todo, got |-> g.got,
                 at |-> at, required |-> g.required]
<1>1. DOMAIN g = fields  BY DEF IsFrame
<1>2. Resolved(g, todo, at, got) =
          [x \in fields |-> IF x = "got" THEN got ELSE IF x = "at" THEN at
                            ELSE IF x = "todo" THEN todo ELSE g[x]]
    BY <1>1 DEF Resolved
<1>3. MovedUp(g, at) = [x \in fields |-> IF x = "at" THEN at ELSE g[x]]
    BY <1>1 DEF MovedUp
<1>4. Resolved(g, todo, at, got) = r  BY <1>2
<1>5. MovedUp(g, at) = q  BY <1>3
<1> QED  BY <1>4, <1>5 DEF IsFrame

LEMMA LookKeeps == ASSUME ParserInv, Look PROVE ParserInv'
<1>1. /\ calls # <<>> /\ Top.op = "look" /\ Top.op \in ParseOps
      /\ IsFrame(Top) /\ FrameInv(Top)
    BY TopFacts DEF Look, Doing, ParseOps
<1>2. CASE Raise  BY <1>2, RaiseKeeps
<1>3. CASE ~Raise
    <2>1. PICK todo, at, got, up :
              /\ \/ calls' = <<Resolved(Top, todo, at, got)>> \o Rest
                 \/ calls' = <<MovedUp(Top, up)>> \o Rest
              /\ UNCHANGED <<diagram, parsers, specs, served>>
        <3> DEFINE ref == Head(Top.todo)
                   found == IF ref.stored THEN ref.name \in stores
                            ELSE Top.at # NoProcess /\ ref.name \in specs[Top.at].objects
                   todo == Tail(Top.todo)
                   got == Append(Top.got, <<IF ref.stored THEN NoProcess ELSE Top.at, ref.name>>)
        <3>1. /\ \/ calls' = <<Resolved(Top, todo, P, got)>> \o Rest
                 \/ calls' = <<MovedUp(Top, parsers[P])>> \o Rest
              /\ UNCHANGED <<diagram, parsers, specs, served>>
            <4>1. CASE found  BY <4>1, <1>3 DEF Look, Resolved, files
            <4>2. CASE ~found  BY <4>2, <1>3 DEF Look, MovedUp, files
            <4> QED  BY <4>1, <4>2
        <3> HIDE DEF todo, got
        <3> QED  BY <3>1
    <2>2. PICK f : /\ calls' = <<f>> \o Rest
                   /\ IsFrame(f) /\ f.op = Top.op /\ f.of = Top.of /\ f.process = Top.process
        <3>1. PICK g : g = Top  OBVIOUS
        <3>2. IsFrame(g)  BY <1>1, <3>1
        <3>3. CASE calls' = <<Resolved(Top, todo, at, got)>> \o Rest
            <4>1. PICK f : f = Resolved(g, todo, at, got)  OBVIOUS
            <4>2. IsFrame(f) /\ f.op = g.op /\ f.of = g.of /\ f.process = g.process
                BY <3>2, <4>1, LookFrame
            <4> QED  BY <3>1, <3>3, <4>1, <4>2
        <3>4. CASE calls' = <<MovedUp(Top, up)>> \o Rest
            <4>1. PICK f : f = MovedUp(g, up)  OBVIOUS
            <4>2. IsFrame(f) /\ f.op = g.op /\ f.of = g.of /\ f.process = g.process
                BY <3>2, <4>1, LookFrame
            <4> QED  BY <3>1, <3>4, <4>1, <4>2
        <3> QED  BY <2>1, <3>3, <3>4
    <2>3. Grows(Top.process)
        <3>1. PICK p : p = Top.process  OBVIOUS
        <3> QED  BY <2>1, <3>1, NothingGrows
    <2>4. FrameInv(f)'
        BY <1>1, <2>1, <2>2 DEF FrameInv, Nodes, E, ParseOps
    <2> QED  BY <1>1, <2>2, <2>3, <2>4, StackReplaced
<1> QED  BY <1>2, <1>3

LEMMA CreateKeeps == ASSUME ParserInv, Create PROVE ParserInv'
<1>1. /\ calls # <<>> /\ Top.op = "look" /\ Top.op \in ParseOps /\ Top.of \in Nodes
      /\ E(Top.of).tag \in Subprocesses => Top.of \in DOMAIN parsers
    BY TopFacts DEF Create, Doing, FrameInv, ParseOps
<1>2. PICK t, Q, n, spec : t = T /\ Q = Referable /\ n = Top.of /\ spec = Created(n, Top.got)
    OBVIOUS
<1>3. RefersTo(t, Q)  BY <1>1, <1>2, CurrentTasks
<1>4. "called" \in DOMAIN spec /\ spec.called \in Q
    <2>1. E(n).tag \in Subprocesses => n \in Q  BY <1>1, <1>2 DEF Referable
    <2>2. E(n).called \in Q  BY <1>1, <1>2 DEF Referable, Callable, E
    <2>3. PICK data : data = Top.got  OBVIOUS
    <2> QED  BY <1>2, <2>1, <2>2, <2>3, CreatedRefers
<1>5. PICK made : made = Put(t, Main(n), spec)  OBVIOUS
<1>6. RefersTo(made, Q) /\ Main(n) \in DOMAIN made
    <2>1. Main(n) \in DOMAIN made  BY <1>5 DEF Put
    <2> QED  BY <1>3, <1>4, <1>5, <2>1, RefersPut
<1>7. PICK tasks : tasks = CASE E(n).tag = "startEvent" -> Connected(made, Begin, Main(n))
                             [] E(n).tag = "endEvent"   -> Connected(made, Main(n), EndJoin(P))
                             [] OTHER                   -> made
    OBVIOUS
<1>8. RefersTo(tasks, Q) /\ Main(n) \in DOMAIN tasks
    <2>1. PICK end : end = EndJoin(P)  OBVIOUS
    <2>2. \A a, b : RefersTo(Connected(made, a, b), Q) /\ Main(n) \in DOMAIN Connected(made, a, b)
        <3>1. \A a, b : DOMAIN Connected(made, a, b) = DOMAIN made  BY DEF Connected
        <3> QED  BY <1>6, <3>1, ConnectedRefers
    <2>3. tasks \in {made, Connected(made, Begin, Main(n)), Connected(made, Main(n), end)}
        BY <1>7, <2>1
    <2> QED  BY <1>6, <2>2, <2>3
<1>9. /\ specs' = [specs EXCEPT ![P].tasks = tasks] /\ Go("wrap", <<>>)
      /\ UNCHANGED <<diagram, parsers, served>>
    BY <1>2, <1>5, <1>7 DEF Create, SetTasks, files
<1>10. RefersTo(tasks, Referable)  BY <1>2, <1>8
<1>11. Grows(Top.process) /\ specs'[P].tasks = tasks  BY <1>1, <1>9, <1>10, TasksSet
<1>12. Main(Top.of) \in DOMAIN specs'[Top.process].tasks  BY <1>2, <1>8, <1>11 DEF P
<1>13. PICK todo : todo = <<>>  OBVIOUS
<1> QED  BY <1>1, <1>9, <1>11, <1>12, <1>13, GoKeeps DEF ParseOps
LEMMA WrapKeeps == ASSUME ParserInv, Wrap PROVE ParserInv'
<1>1. /\ calls # <<>> /\ Top.op = "wrap" /\ Top.op \in ParseOps /\ Top.of \in Nodes
      /\ Main(Top.of) \in DOMAIN T
    BY TopFacts DEF Wrap, Doing, FrameInv, ParseOps, T, P
<1>2. CASE Raise  BY <1>2, RaiseKeeps
<1>3. CASE ~Raise
    <2>1. PICK t, Q, n : t = T /\ Q = Referable /\ n = Top.of  OBVIOUS
    <2>2. RefersTo(t, Q) /\ NoProcess \in Q /\ Main(n) \in DOMAIN t  BY <1>1, <2>1, CurrentTasks
    <2>3. PICK wrapped : wrapped = IF E(n).loop = "none" THEN t ELSE Looped(t, n)  OBVIOUS
    <2>4. RefersTo(wrapped, Q)
        <3>1. RefersTo(Looped(t, n), Q)  BY <2>2, LoopedRefers
        <3> QED  BY <2>2, <2>3, <3>1
    <2>5. PICK tasks : tasks = IF E(n).bounds = <<>> THEN wrapped ELSE Guarded(wrapped, n)  OBVIOUS
    <2>6. RefersTo(tasks, Q)
        <3>1. RefersTo(Guarded(wrapped, n), Q)  BY <2>2, <2>4, GuardedRefers
        <3> QED  BY <2>4, <2>5, <3>1
    <2>7. /\ specs' = [specs EXCEPT ![P].tasks = tasks] /\ Go("attach", E(n).bounds)
          /\ UNCHANGED <<diagram, parsers, served>>
        BY <1>3, <2>1, <2>3, <2>5 DEF Wrap, SetTasks, files
    <2>8. Grows(Top.process)
        <3>1. RefersTo(tasks, Referable)  BY <2>1, <2>6
        <3> QED  BY <1>1, <2>7, <3>1, TasksSet
    <2>9. PICK todo : todo = E(n).bounds  OBVIOUS
    <2>10. todo \in Seq(Nodes)
        BY <1>1, <2>1, <2>9, DiagramsAssumption
           DEF DiagramsAssumption, ParserInv, SpecsInv, Nodes, E
    <2> QED  BY <1>1, <2>7, <2>8, <2>9, <2>10, GoKeeps DEF ParseOps
<1> QED  BY <1>2, <1>3

LEMMA AttachKeeps == ASSUME ParserInv, Attach PROVE ParserInv'
<1>1. /\ calls # <<>> /\ Top.op = "attach" /\ Top.op \in ParseOps \ {"wrap"} /\ Top.of \in Nodes
      /\ Top.todo \in Seq(Nodes) /\ Top.todo # <<>>
    BY TopFacts DEF Attach, Doing, FrameInv, ParseOps
<1>2. Head(Top.todo) \in Nodes /\ Tail(Top.todo) \in Seq(Nodes)  BY <1>1, HeadTailProperties
<1>3. PICK h \in Nodes : h = Head(Top.todo)  BY <1>2
<1>4. CASE ~Known(Main(h))
    <2>1. Enter(h)  BY <1>3, <1>4 DEF Attach
    <2> QED  BY <1>1, <2>1, EnterKeeps
<1>5. CASE Raise  BY <1>5, RaiseKeeps
<1>6. CASE Known(Main(h)) /\ ~Raise
    <2>1. PICK t, Q, n : t = T /\ Q = Referable /\ n = Top.of  OBVIOUS
    <2>2. PICK tasks : tasks = Connected(Connected(t, Split(n), Main(h)), Main(h), Merge(n))
        OBVIOUS
    <2>3. /\ specs' = [specs EXCEPT ![P].tasks = tasks] /\ Go("attach", Tail(Top.todo))
          /\ UNCHANGED <<diagram, parsers, served>>
        BY <1>3, <1>6, <2>1, <2>2 DEF Attach, SetTasks, files
    <2>4. RefersTo(tasks, Q)
        <3>1. RefersTo(t, Q)  BY <1>1, <2>1, CurrentTasks
        <3>2. RefersTo(Connected(t, Split(n), Main(h)), Q)  BY <3>1, ConnectedRefers
        <3>3. RefersTo(Connected(Connected(t, Split(n), Main(h)), Main(h), Merge(n)), Q)
            BY <3>2, ConnectedRefers
        <3> QED  BY <2>2, <3>3
    <2>5. Grows(Top.process)
        <3>1. RefersTo(tasks, Referable)  BY <2>1, <2>4
        <3> QED  BY <1>1, <2>3, <3>1, TasksSet
    <2>6. PICK todo : todo = Tail(Top.todo)  OBVIOUS
    <2> QED  BY <1>1, <1>2, <2>3, <2>5, <2>6, GoKeeps DEF ParseOps
<1> QED  BY <1>4, <1>5, <1>6

LEMMA AttachEndsKeeps == ASSUME ParserInv, AttachEnds PROVE ParserInv'
<1>1. /\ calls # <<>> /\ Top.op = "attach" /\ Top.op \in ParseOps /\ Top.of \in Nodes
    BY TopFacts DEF AttachEnds, Doing, FrameInv, ParseOps
<1>2. CASE Raise  BY <1>2, RaiseKeeps
<1>3. CASE ~Raise
    <2>1. Go("follow", E(Top.of).flows) /\ UNCHANGED <<diagram, parsers, specs, served>>
        BY <1>3 DEF AttachEnds, files
    <2>2. PICK p, todo : p = Top.process /\ todo = E(Top.of).flows  OBVIOUS
    <2>3. Grows(p)  BY <2>1, NothingGrows
    <2>4. todo \in Seq(Flows)
        BY <1>1, <2>2, DiagramsAssumption
           DEF DiagramsAssumption, ParserInv, SpecsInv, Nodes, Flows, E
    <2> QED  BY <1>1, <2>1, <2>2, <2>3, <2>4, GoKeeps DEF ParseOps
<1> QED  BY <1>2, <1>3

LEMMA FollowKeeps == ASSUME ParserInv, Follow PROVE ParserInv'
<1>1. /\ calls # <<>> /\ Top.op = "follow" /\ Top.op \in ParseOps \ {"wrap"} /\ Top.of \in Nodes
      /\ Top.todo \in Seq(Flows) /\ Top.todo # <<>>
    BY TopFacts DEF Follow, Doing, FrameInv, ParseOps
<1>2. Head(Top.todo) \in Flows /\ Tail(Top.todo) \in Seq(Flows)  BY <1>1, HeadTailProperties
<1>3. PICK n \in Nodes : n = Head(Top.todo).to  BY <1>2 DEF Flows
<1>4. CASE Known(Split(n)) \/ Known(Main(n))
    <2>1. Go("follow", Tail(Top.todo)) /\ UNCHANGED <<diagram, parsers, specs, served>>
        BY <1>3, <1>4 DEF Follow, files
    <2>2. PICK p, todo : p = Top.process /\ todo = Tail(Top.todo)  OBVIOUS
    <2>3. Grows(p)  BY <2>1, NothingGrows
    <2> QED  BY <1>1, <1>2, <2>1, <2>2, <2>3, GoKeeps DEF ParseOps
<1>5. CASE ~(Known(Split(n)) \/ Known(Main(n)))
    <2>1. Enter(n)  BY <1>3, <1>5 DEF Follow
    <2> QED  BY <1>1, <2>1, EnterKeeps
<1> QED  BY <1>4, <1>5

LEMMA FollowEndsKeeps == ASSUME ParserInv, FollowEnds PROVE ParserInv'
<1>1. /\ calls # <<>> /\ Top.op = "follow" /\ Top.op \in ParseOps /\ Top.of \in Nodes
    BY TopFacts DEF FollowEnds, Doing, FrameInv, ParseOps
<1>2. PICK p, todo : p = Top.process /\ todo = Sorted(Top.of)  OBVIOUS
<1>3. Go("connect", todo) /\ UNCHANGED <<diagram, parsers, specs, served>>
    BY <1>2 DEF FollowEnds, files
<1>4. Grows(p)  BY <1>3, NothingGrows
<1> QED  BY <1>1, <1>2, <1>3, <1>4, GoKeeps DEF ParseOps

LEMMA ConnectKeeps == ASSUME ParserInv, Connect PROVE ParserInv'
<1>1. /\ calls # <<>> /\ Top.op = "connect" /\ Top.op \in ParseOps /\ Top.of \in Nodes
    BY TopFacts DEF Connect, Doing, FrameInv, ParseOps
<1>2. CASE Raise  BY <1>2, RaiseKeeps
<1>3. CASE ~Raise
    <2>1. PICK Q, n, i : Q = Referable /\ n = Top.of /\ i = Head(Top.todo)  OBVIOUS
    <2>2. PICK c : c = Entry(E(n).flows[i].to)  OBVIOUS
    <2>3. PICK tasks :
              tasks = CASE E(n).tag \in Conditional -> Chosen(n, i)
                        [] E(n).tag = "eventBasedGateway" ->
                               [Connected(T, Main(n), c) EXCEPT
                                   ![Main(n)].members = Append(@, T[c].event)]
                        [] OTHER -> Connected(T, Main(n), c)
        OBVIOUS
    <2>4. /\ specs' = [specs EXCEPT ![P].tasks = tasks] /\ Go("connect", Tail(Top.todo))
          /\ UNCHANGED <<diagram, parsers, served>>
        BY <1>3, <2>1, <2>2, <2>3 DEF Connect, SetTasks, files
    <2>5. RefersTo(T, Q)  BY <1>1, <2>1, CurrentTasks
    <2>6. RefersTo(tasks, Q)
        <3>1. CASE E(n).tag \in Conditional
            <4>1. tasks = Chosen(n, i)  BY <2>3, <3>1 DEF Conditional
            <4> QED  BY <2>5, <4>1, ChosenRefers
        <3>2. CASE E(n).tag = "eventBasedGateway"
            <4>1. tasks = [Connected(T, Main(n), c) EXCEPT
                              ![Main(n)].members = Append(@, T[c].event)]
                BY <2>3, <3>2 DEF Conditional
            <4> QED  BY <2>5, <4>1, MembersRefer
        <3>3. CASE E(n).tag \notin Conditional /\ E(n).tag # "eventBasedGateway"
            <4>1. PICK t : t = T  OBVIOUS
            <4>2. tasks = Connected(t, Main(n), c)  BY <2>3, <3>3, <4>1
            <4> QED  BY <2>5, <4>1, <4>2, ConnectedRefers
        <3> QED  BY <3>1, <3>2, <3>3
    <2>7. Grows(Top.process)
        <3>1. RefersTo(tasks, Referable)  BY <2>1, <2>6
        <3> QED  BY <1>1, <2>4, <3>1, TasksSet
    <2>8. PICK todo : todo = Tail(Top.todo)  OBVIOUS
    <2> QED  BY <1>1, <2>4, <2>7, <2>8, GoKeeps DEF ParseOps
<1> QED  BY <1>2, <1>3

LEMMA ReturnKeeps == ASSUME ParserInv, Return PROVE ParserInv'
<1>1. /\ calls # <<>> /\ Top.op \in ParseOps /\ calls' = Rest
      /\ UNCHANGED <<diagram, parsers, specs, served>>
    BY DEF Return, Doing, ParseOps, files
<1>2. PICK p : p = Top.process  OBVIOUS
<1> QED  BY <1>1, <1>2, NothingGrows, StackPopped
-----------------------------------------------------------------------------
(* Asking for specs *)

LEMMA NextParse ==
    ASSUME ParserInv, calls # <<>>, Top.op \in AskOps, NEW p \in DOMAIN parsers \ DOMAIN specs,
           Top.op = "subprocesses" => p \notin Top.got, Parse(p)
    PROVE  ParserInv'
<1>1. CASE Raise  BY <1>1, RaiseKeeps
<1>2. CASE ~Raise
    <2>1. PICK objects, store : objects = diagram.processes[p].objects /\ store = stores  OBVIOUS
    <2>2. PICK spec : spec = [EmptySpec(p, objects) EXCEPT !.stores = store]  OBVIOUS
    <2>3. PICK f : f = Frame("starts", p, p, diagram.processes[p].starts, <<>>)  OBVIOUS
    <2>4. /\ specs' = Put(specs, p, spec) /\ calls' = <<f>> \o calls
          /\ UNCHANGED <<diagram, parsers, served>>
        BY <1>2, <2>1, <2>2, <2>3 DEF Parse, Push, files
    <2>5. "tasks" \in DOMAIN spec /\ RefersTo(spec.tasks, Referable)
        <3>1. PICK Q : Q = Referable  OBVIOUS
        <3>2. NoProcess \in Q  BY <3>1 DEF Referable
        <3>3. /\ "tasks" \in DOMAIN EmptySpec(p, objects)
              /\ RefersTo(EmptySpec(p, objects).tasks, Q)
            BY <3>2, EmptySpecRefers
        <3>4. "tasks" \in DOMAIN spec /\ spec.tasks = EmptySpec(p, objects).tasks
            BY <2>2, <3>3
        <3> QED  BY <3>1, <3>3, <3>4
    <2>6. /\ DOMAIN specs' = DOMAIN specs \union {p} /\ specs'[p] = spec
          /\ \A x \in DOMAIN specs \ {p} : specs'[x] = specs[x]
        BY <2>4 DEF Put
    <2>7. SpecsInv'
        <3>1. Referable' = Referable  BY <2>4 DEF Referable, Callable, Nodes
        <3> QED  BY <2>4, <2>5, <2>6, <3>1 DEF ParserInv, SpecsInv
    <2>8. Grows(p)  BY <2>4, <2>6, <2>7 DEF Grows
    <2>9. p \notin served  BY DEF ParserInv, ServedInv
    <2>10. ASSUME NEW g \in Items(calls), g.op = "subprocesses"
           PROVE  p \notin {g.of} \union g.got
        <3>1. g = Top  BY <2>10, TopFacts DEF Above
        <3>2. g.of \in DOMAIN specs  BY <2>10, <3>1, TopFacts DEF FrameInv, Collecting
        <3> QED  BY <2>10, <3>1, <3>2
    <2>11. Spared(p)  BY <2>9, <2>10 DEF Spared
    <2>12. /\ IsFrame(f) /\ f.op = "starts" /\ f.process = p
           /\ f.todo = diagram.processes[p].starts
        BY <2>3 DEF Frame, IsFrame
    <2>13. f.todo \in Seq(Nodes)
        BY <2>12, DiagramsAssumption DEF DiagramsAssumption, ParserInv, SpecsInv, Nodes
    <2>14. FrameInv(f)'
        <3>1. f.process \in DOMAIN specs' \ served'  BY <2>4, <2>6, <2>9, <2>12
        <3>2. f.todo \in Seq(Nodes')  BY <2>4, <2>13 DEF Nodes
        <3> QED  BY <2>12, <3>1, <3>2 DEF FrameInv, ParseOps
    <2>15. ASSUME NEW g \in Items(calls) PROVE Above(f, g)
        <3>1. g.op \in AskOps \union {"collaboration"}  BY TopFacts DEF Above
        <3> QED  BY <2>10, <2>12, <3>1 DEF Above, AskOps, ParseOps
    <2>16. f.op \in ParseOps  BY <2>12 DEF ParseOps
    <2> QED  BY <2>4, <2>8, <2>11, <2>12, <2>14, <2>15, <2>16, StackPushed
<1> QED  BY <1>1, <1>2

\* Nothing is being parsed.
LEMMA AskingStack ==
    ASSUME ParserInv, UNCHANGED <<diagram, parsers, specs>>, ServedInv',
           calls' \in Seq(Items(calls')), Ordered(calls'), ParticipantsInv',
           \A f \in Items(calls') : IsFrame(f) /\ FrameInv(f) /\ f.op \notin ParseOps
    PROVE  ParserInv'
<1>1. SpecsInv'  BY DEF ParserInv, SpecsInv, Referable, Callable, Nodes
<1>2. \A f : Collecting(f)' <=> Collecting(f)  BY DEF Collecting, Found, Asked, Callable, Nodes
<1>3. ASSUME NEW f \in Items(calls') PROVE FrameInv(f)'
    BY <1>2 DEF FrameInv, Nodes, Flows, E, ParseOps
<1> QED  BY <1>1, <1>3 DEF ParserInv, StackInv

\* The topmost frame goes on.
LEMMA AskReplaced ==
    ASSUME ParserInv, calls # <<>>, Top.op \in AskOps, UNCHANGED <<diagram, parsers, specs, served>>,
           NEW f, calls' = <<f>> \o Rest, IsFrame(f), FrameInv(f), f.op \in AskOps, f.of = Top.of,
           Top.op \in {"process", "subprocesses"} => f.op \in {"process", "subprocesses"}
    PROVE  ParserInv'
<1>1. ServedInv'  BY DEF ParserInv, ServedInv, Executable
<1>2. PICK rest : rest = Rest  OBVIOUS
<1>3. /\ rest \in Seq(Items(rest)) /\ Ordered(rest)
      /\ \A g \in Items(rest) : g \in Items(calls) /\ g.op = "collaboration"
    BY <1>2, TopFacts DEF Above
<1>4. \A g \in Items(rest) : Above(f, g)  BY <1>3 DEF Above, AskOps, ParseOps
<1>5. /\ calls' \in Seq(Items(calls')) /\ Ordered(calls')
      /\ Items(calls') = {f} \union Items(rest)
    BY <1>2, <1>3, <1>4, PushItems
<1>6. \A g \in Items(calls') : IsFrame(g) /\ FrameInv(g) /\ g.op \notin ParseOps
    BY <1>3, <1>5 DEF ParserInv, StackInv, AskOps, ParseOps
<1>7. ParticipantsInv'
    <2> SUFFICES ASSUME NEW g \in Items(calls'), g.op = "collaboration", NEW k \in DOMAIN g.got
                 PROVE  \/ g.got[k] \in served'
                        \/ \E h \in Items(calls') :
                               h.op \in {"process", "subprocesses"} /\ h.of = g.got[k]
        BY Zenon DEF ParticipantsInv
    <2>1. g \in Items(calls)  BY <1>3, <1>5 DEF AskOps
    <2>2. CASE g.got[k] \in served  BY <2>2
    <2>3. CASE \E h \in Items(calls) : h.op \in {"process", "subprocesses"} /\ h.of = g.got[k]
        <3>1. PICK h \in Items(calls) : h.op \in {"process", "subprocesses"} /\ h.of = g.got[k]
            BY <2>3
        <3>2. h = Top  BY <3>1, <1>2, <1>3, TopFacts
        <3>3. f.op \in {"process", "subprocesses"} /\ f.of = g.got[k]  BY <3>1, <3>2
        <3> QED  BY <1>5, <3>3
    <2> QED  BY <2>1, <2>2, <2>3 DEF ParserInv, StackInv, ParticipantsInv
<1> QED  BY <1>1, <1>5, <1>6, <1>7, AskingStack
\* What a collection has got.
Gathered(g, todo, got) == [g EXCEPT !.todo = todo, !.got = got]

LEMMA GatheredFrame ==
    ASSUME NEW g, IsFrame(g), NEW todo, NEW got
    PROVE  /\ IsFrame(Gathered(g, todo, got)) /\ Gathered(g, todo, got).op = g.op
           /\ Gathered(g, todo, got).of = g.of /\ Gathered(g, todo, got).todo = todo
           /\ Gathered(g, todo, got).got = got
<1> DEFINE fields == {"op", "of", "process", "todo", "got", "at", "required"}
           r == [op |-> g.op, of |-> g.of, process |-> g.process, todo |-> todo, got |-> got,
                 at |-> g.at, required |-> g.required]
<1>1. DOMAIN g = fields  BY DEF IsFrame
<1>2. Gathered(g, todo, got) =
          [x \in fields |-> IF x = "got" THEN got ELSE IF x = "todo" THEN todo ELSE g[x]]
    BY <1>1 DEF Gathered
<1>3. Gathered(g, todo, got) = r  BY <1>2
<1> QED  BY <1>3 DEF IsFrame

LEMMA GetSpecKeeps == ASSUME ParserInv, GetSpec PROVE ParserInv'
<1>1. /\ calls # <<>> /\ Top.op = "process" /\ Top.op \in AskOps
      /\ IsFrame(Top) /\ Top.got = {}
    BY TopFacts DEF GetSpec, Doing, FrameInv, AskOps
<1>2. CASE Top.of \notin DOMAIN parsers  BY <1>2, RaiseKeeps DEF GetSpec
<1>3. CASE Top.of \in DOMAIN parsers \ DOMAIN specs
    <2>1. PICK p : p = Top.of  OBVIOUS
    <2>2. p \in DOMAIN parsers \ DOMAIN specs /\ Parse(p)  BY <1>3, <2>1 DEF GetSpec
    <2> QED  BY <1>1, <2>2, NextParse
<1>4. CASE Top.of \in DOMAIN parsers \intersect DOMAIN specs
    <2>1. PICK refs, r, g : refs = Refs(specs[Top.of]) /\ r = Top.required /\ g = Top  OBVIOUS
    <2>2. PICK f : f = Edited(g, "subprocesses", refs \X {r})  OBVIOUS
    <2>3. calls' = <<f>> \o Rest /\ UNCHANGED <<diagram, parsers, specs, served>>
        BY <1>4, <2>1, <2>2 DEF GetSpec, Go, Edited, files
    <2>4. /\ IsFrame(f) /\ f.op = "subprocesses" /\ f.of = Top.of /\ f.todo = refs \X {r}
          /\ f.got = {}
        <3>1. IsFrame(g) /\ g.got = {} /\ g.of = Top.of  BY <1>1, <2>1
        <3> QED  BY <2>2, <3>1, EditedFrame
    <2>5. Asked(f) = refs
        <3>1. \A x \in refs : <<x, r>> \in f.todo /\ <<x, r>>[1] = x  BY <2>4
        <3>2. \A t \in f.todo : t[1] \in refs  BY <2>4
        <3> QED  BY <3>1, <3>2 DEF Asked
    <2>6. refs \subseteq DOMAIN parsers \union Callable  BY <1>4, <2>1, ReferencesKnown
    <2>7. Collecting(f)  BY <1>4, <2>1, <2>4, <2>5, <2>6 DEF Collecting, Found
    <2>8. FrameInv(f)  BY <2>4, <2>7 DEF FrameInv, AskOps, ParseOps
    <2> QED  BY <1>1, <2>3, <2>4, <2>8, AskReplaced DEF AskOps
<1> QED  BY <1>2, <1>3, <1>4

LEMMA GetSubprocessKeeps ==
    ASSUME ParserInv, NEW p, NEW required \in BOOLEAN, GetSubprocess(p, required)
    PROVE  ParserInv'
<1>1. /\ calls # <<>> /\ Top.op = "subprocesses" /\ Top.op \in AskOps
      /\ IsFrame(Top) /\ Collecting(Top) /\ <<p, required>> \in Top.todo
    BY TopFacts DEF GetSubprocess, Doing, FrameInv, AskOps
<1>2. PICK g : g = Top  OBVIOUS
<1>3. PICK rest : rest = g.todo \ {<<p, required>>}  OBVIOUS
<1>4. /\ IsFrame(g) /\ Collecting(g) /\ g.op = "subprocesses"
      /\ <<p, required>> \in g.todo
    BY <1>1, <1>2
<1>5. p \in Asked(g) /\ p \in DOMAIN parsers \union Callable
    BY <1>4 DEF Asked, Collecting
<1>6. Asked(g) \ {p} \subseteq {t[1] : t \in rest} /\ {t[1] : t \in rest} \subseteq Asked(g)
    <2>1. ASSUME NEW x \in Asked(g), x # p PROVE x \in {t[1] : t \in rest}
        <3>1. PICK t \in g.todo : x = t[1]  BY DEF Asked
        <3>2. t # <<p, required>>  BY <2>1, <3>1
        <3> QED  BY <1>3, <3>1, <3>2
    <2>2. {t[1] : t \in rest} \subseteq Asked(g)  BY <1>3 DEF Asked
    <2> QED  BY <2>1, <2>2
<1>7. CASE Raise  BY <1>7, RaiseKeeps
<1>8. CASE p \in DOMAIN parsers \ (Top.got \union DOMAIN specs) /\ Parse(p)
    BY <1>1, <1>8, NextParse
<1>9. ASSUME NEW todo, NEW got, calls' = <<Gathered(g, todo, got)>> \o Rest,
             UNCHANGED <<diagram, parsers, specs, served>>,
             rest \subseteq todo, \A t \in todo \ rest : t[1] \in DOMAIN parsers \union Callable,
             got = g.got \union {p}, p \in DOMAIN parsers => p \in DOMAIN specs,
             p \in DOMAIN parsers \ g.got => Refs(specs[p]) \subseteq {t[1] : t \in todo}
      PROVE  ParserInv'
    <2>1. PICK f : f = Gathered(g, todo, got)  OBVIOUS
    <2>2. /\ IsFrame(f) /\ f.op = "subprocesses" /\ f.of = g.of /\ f.todo = todo /\ f.got = got
        BY <1>4, <2>1, GatheredFrame
    <2>3. Asked(f) = {t[1] : t \in todo}  BY <2>2 DEF Asked
    <2>4. f.of \in DOMAIN specs /\ Found(f) \subseteq DOMAIN specs
        BY <1>4, <1>9, <2>2 DEF Collecting, Found
    <2>5. f.got \union Asked(f) \subseteq DOMAIN parsers \union Callable
        <3>1. \A t \in todo : t[1] \in DOMAIN parsers \union Callable
            BY <1>4, <1>6, <1>9 DEF Collecting
        <3> QED  BY <1>4, <1>5, <1>9, <2>2, <2>3, <3>1 DEF Collecting
    <2>6. g.got \union Asked(g) \subseteq f.got \union Asked(f)
        BY <1>6, <1>9, <2>2, <2>3
    <2>7. ASSUME NEW q \in {f.of} \union Found(f)
          PROVE  Refs(specs[q]) \subseteq f.got \union Asked(f)
        <3>1. CASE q \in {g.of} \union Found(g)
            BY <1>4, <2>6, <3>1 DEF Collecting
        <3>2. CASE q \notin {g.of} \union Found(g)
            <4>1. q = p /\ p \in DOMAIN parsers \ g.got  BY <1>9, <2>2, <3>2 DEF Found
            <4> QED  BY <1>9, <2>3, <4>1
        <3> QED  BY <3>1, <3>2
    <2>8. Collecting(f)  BY <2>4, <2>5, <2>7 DEF Collecting
    <2>9. FrameInv(f)  BY <2>2, <2>8 DEF FrameInv, AskOps, ParseOps
    <2> QED  BY <1>1, <1>2, <1>9, <2>1, <2>2, <2>9, AskReplaced DEF AskOps
<1>10. CASE /\ p \in Top.got /\ Go("subprocesses", Top.todo \ {<<p, required>>})
            /\ UNCHANGED <<files, parsers, specs, broken, served>>
    <2>1. PICK f : f = Edited(g, "subprocesses", rest)  OBVIOUS
    <2>2. /\ IsFrame(f) /\ f.op = "subprocesses" /\ f.of = g.of /\ f.todo = rest /\ f.got = g.got
        BY <1>4, <2>1, EditedFrame
    <2>3. calls' = <<f>> \o Rest /\ UNCHANGED <<diagram, parsers, specs, served>>
        BY <1>2, <1>3, <1>10, <2>1 DEF Go, Edited, files
    <2>4. Asked(f) = {t[1] : t \in rest}  BY <2>2 DEF Asked
    <2>5. f.got \union Asked(f) = g.got \union Asked(g)  BY <1>2, <1>6, <1>10, <2>2, <2>4
    <2>6. Found(f) = Found(g)  BY <2>2 DEF Found
    <2>7. Collecting(f)  BY <1>4, <2>2, <2>5, <2>6 DEF Collecting
    <2>8. FrameInv(f)  BY <2>2, <2>7 DEF FrameInv, AskOps, ParseOps
    <2> QED  BY <1>1, <1>2, <2>2, <2>3, <2>8, AskReplaced DEF AskOps
<1>11. CASE /\ p \notin Top.got \union DOMAIN parsers
            /\ calls' = <<Gathered(g, rest, g.got \union {p})>> \o Rest
            /\ UNCHANGED <<files, parsers, specs, broken, served>>
    BY <1>9, <1>11 DEF files
<1>12. CASE /\ p \in (DOMAIN parsers \intersect DOMAIN specs) \ Top.got
            /\ calls' = <<Gathered(g, rest \union (Refs(specs[p]) \X {TRUE}), g.got \union {p})>> \o Rest
            /\ UNCHANGED <<files, parsers, specs, broken, served>>
    <2>1. PICK refs : refs = Refs(specs[p])  OBVIOUS
    <2>2. PICK todo : todo = rest \union (refs \X {TRUE})  OBVIOUS
    <2>3. refs \subseteq DOMAIN parsers \union Callable  BY <1>12, <2>1, ReferencesKnown
    <2>4. refs \subseteq {t[1] : t \in todo}
        <3>1. ASSUME NEW x \in refs PROVE x \in {t[1] : t \in todo}
            <4>1. <<x, TRUE>> \in todo /\ <<x, TRUE>>[1] = x  BY <2>2
            <4> QED  BY <4>1
        <3> QED  BY <3>1
    <2>5. \A t \in todo \ rest : t[1] \in DOMAIN parsers \union Callable  BY <2>2, <2>3
    <2> QED  BY <1>9, <1>12, <2>1, <2>2, <2>4, <2>5 DEF files
<1> QED
    BY <1>2, <1>3, <1>7, <1>8, <1>10, <1>11, <1>12 DEF GetSubprocess, Gathered
LEMMA SubprocessesReturnKeeps == ASSUME ParserInv, SubprocessesReturn PROVE ParserInv'
<1>1. /\ calls # <<>> /\ Top.op = "subprocesses" /\ Top.op \in AskOps /\ Top.todo = {}
      /\ Collecting(Top) /\ calls' = Rest /\ UNCHANGED <<diagram, parsers, specs>>
      /\ served' = served \union {Top.of} \union (Top.got \intersect DOMAIN parsers \intersect DOMAIN specs)
    BY TopFacts DEF SubprocessesReturn, Doing, FrameInv, AskOps, files
<1>2. served' = served \union {Top.of} \union Found(Top)  BY <1>1 DEF Collecting, Found
<1>3. Asked(Top) = {}  BY <1>1 DEF Asked
<1>4. ServedInv'
    <2> SUFFICES ASSUME NEW q \in served'
                 PROVE  q \in DOMAIN specs /\ Refs(specs[q]) \intersect Executable \subseteq served'
        BY <1>1 DEF ServedInv, Executable
    <2>1. CASE q \in served  BY <1>2, <2>1 DEF ParserInv, ServedInv
    <2>2. CASE q \in {Top.of} \union Found(Top)
        <3>1. q \in DOMAIN specs /\ Refs(specs[q]) \subseteq Top.got
            BY <1>1, <1>3, <2>2 DEF Collecting
        <3>2. Top.got \intersect Executable \subseteq Found(Top)  BY DEF Found, Executable
        <3> QED  BY <1>2, <3>1, <3>2
    <2> QED  BY <1>2, <2>1, <2>2
<1>5. \A f \in Items(Rest) : f \in Items(calls) /\ f.op = "collaboration"
    BY <1>1, TopFacts DEF Above
<1>6. ParticipantsInv'
    <2> SUFFICES ASSUME NEW f \in Items(calls'), f.op = "collaboration", NEW k \in DOMAIN f.got
                 PROVE  f.got[k] \in served'
        BY Zenon DEF ParticipantsInv
    <2>1. f \in Items(calls)  BY <1>1, <1>5
    <2>2. CASE f.got[k] \in served  BY <1>2, <2>2
    <2>3. CASE \E h \in Items(calls) : h.op \in {"process", "subprocesses"} /\ h.of = f.got[k]
        <3>1. f.got[k] = Top.of  BY <1>1, <1>5, <2>3, TopFacts
        <3> QED  BY <1>2, <3>1
    <2> QED  BY <2>1, <2>2, <2>3 DEF ParserInv, StackInv, ParticipantsInv
<1>7. calls' \in Seq(Items(calls')) /\ Ordered(calls')  BY <1>1, TopFacts
<1>8. \A f \in Items(calls') : IsFrame(f) /\ FrameInv(f) /\ f.op \notin ParseOps
    BY <1>1, <1>5 DEF ParserInv, StackInv, ParseOps
<1> QED  BY <1>1, <1>4, <1>6, <1>7, <1>8, AskingStack

LEMMA ParseAllKeeps == ASSUME ParserInv, NEW p \in DOMAIN parsers, ParseAll(p) PROVE ParserInv'
<1>1. /\ calls # <<>> /\ Top.op = "all" /\ Top.op \in AskOps
      /\ IsFrame(Top) /\ Top.got \subseteq DOMAIN specs
    BY TopFacts DEF ParseAll, Doing, FrameInv, AskOps
<1>2. CASE p \notin DOMAIN specs
    <2>1. Parse(p)  BY <1>2 DEF ParseAll
    <2> QED  BY <1>1, <1>2, <2>1, NextParse
<1>3. CASE p \in DOMAIN specs
    <2>1. PICK g : g = Top  OBVIOUS
    <2>2. PICK f : f = Gathered(g, g.todo \ {p}, g.got \union {p})  OBVIOUS
    <2>3. IsFrame(f) /\ f.op = "all" /\ f.of = Top.of /\ f.got = g.got \union {p}
        BY <1>1, <2>1, <2>2, GatheredFrame
    <2>4. calls' = <<f>> \o Rest /\ UNCHANGED <<diagram, parsers, specs, served>>
        BY <1>3, <2>1, <2>2 DEF ParseAll, Gathered, files
    <2>5. FrameInv(f)  BY <1>1, <1>3, <2>1, <2>3 DEF FrameInv, AskOps, ParseOps
    <2> QED  BY <1>1, <2>3, <2>4, <2>5, AskReplaced DEF AskOps
<1> QED  BY <1>2, <1>3

LEMMA ParseAllEndsKeeps == ASSUME ParserInv, ParseAllEnds PROVE ParserInv'
<1>1. /\ calls # <<>> /\ Top.op = "all" /\ Top.op \in AskOps /\ UNCHANGED <<diagram, parsers, specs>>
      /\ IsFrame(Top) /\ Top.got \subseteq DOMAIN specs
    BY TopFacts DEF ParseAllEnds, Doing, FrameInv, AskOps, files
<1>2. CASE Top.got # Executable
    <2>1. PICK g, todo : g = Top /\ todo = Executable  OBVIOUS
    <2>2. PICK f : f = Edited(g, "all", todo)  OBVIOUS
    <2>3. IsFrame(f) /\ f.op = "all" /\ f.of = Top.of /\ f.got = Top.got
        <3>1. IsFrame(g)  BY <1>1, <2>1
        <3> QED  BY <2>1, <2>2, <3>1, EditedFrame
    <2>4. calls' = <<f>> \o Rest /\ UNCHANGED <<diagram, parsers, specs, served>>
        BY <1>1, <1>2, <2>1, <2>2 DEF ParseAllEnds, Go, Edited
    <2>5. FrameInv(f)  BY <1>1, <2>3 DEF FrameInv, AskOps, ParseOps
    <2> QED  BY <1>1, <2>3, <2>4, <2>5, AskReplaced DEF AskOps
<1>3. CASE Top.got = Executable
    <2>1. calls' = Rest /\ served' = IF Rest = <<>> THEN Top.got ELSE served
        BY <1>3 DEF ParseAllEnds
    <2>2. ServedInv'
        <3>1. CASE Rest = <<>>  BY <1>1, <1>3, <2>1, <3>1 DEF ServedInv, Executable
        <3>2. CASE Rest # <<>>  BY <1>1, <2>1, <3>2 DEF ParserInv, ServedInv, Executable
        <3> QED  BY <3>1, <3>2
    <2>3. \A f \in Items(Rest) : f \in Items(calls) /\ f.op = "collaboration"
        BY <1>1, TopFacts DEF Above
    <2>4. ParticipantsInv'
        <3> SUFFICES ASSUME NEW f \in Items(calls'), f.op = "collaboration", NEW k \in DOMAIN f.got
                     PROVE  f.got[k] \in served'
            BY Zenon DEF ParticipantsInv
        <3>1. Rest # <<>>
            <4>1. Items(<<>>) = {}  BY DEF Items
            <4> QED  BY <2>1, <4>1
        <3>2. f \in Items(calls)  BY <2>1, <2>3
        <3>3. ~\E h \in Items(calls) : h.op \in {"process", "subprocesses"}
            BY <1>1, <2>3, TopFacts
        <3> QED  BY <2>1, <3>1, <3>2, <3>3 DEF ParserInv, StackInv, ParticipantsInv
    <2>5. calls' \in Seq(Items(calls')) /\ Ordered(calls')  BY <1>1, <2>1, TopFacts
    <2>6. \A f \in Items(calls') : IsFrame(f) /\ FrameInv(f) /\ f.op \notin ParseOps
        BY <2>1, <2>3 DEF ParserInv, StackInv, ParseOps
    <2> QED  BY <1>1, <2>2, <2>4, <2>5, <2>6, AskingStack
<1> QED  BY <1>2, <1>3

-----------------------------------------------------------------------------
(* Collaborations *)

\* get_collaboration is the only call on the stack when it goes on itself.
LEMMA Alone ==
    ASSUME ParserInv, calls # <<>>, Top.op = "collaboration"
    PROVE  /\ Rest = <<>> /\ Items(calls) = {Top}
           /\ Top.got \in Seq(DOMAIN parsers)
           /\ \A k \in DOMAIN Top.got : Top.got[k] \in served
<1>1. Items(Rest) = {}  BY TopFacts DEF Above
<1>2. Rest \in Seq(Items(Rest))  BY TopFacts
<1>3. Rest = <<>>
    <2>1. PICK r : r = Rest  OBVIOUS
    <2>2. r \in Seq({})  BY <1>1, <1>2, <2>1
    <2>3. r = <<>>
        <3>1. Len(r) \in Nat /\ \A i \in 1..Len(r) : r[i] \in {}
            BY <2>2, LenProperties, ElementOfSeq
        <3>2. Len(r) = 0  BY <3>1
        <3> QED  BY <2>2, <3>2, EmptySeq
    <2> QED  BY <2>1, <2>3
<1>4. Items(calls) = {Top}  BY <1>1, TopFacts
<1>5. Top.got \in Seq(DOMAIN parsers)  BY TopFacts DEF FrameInv
<1>6. \A k \in DOMAIN Top.got : Top.got[k] \in served
    BY <1>4 DEF ParserInv, StackInv, ParticipantsInv
<1> QED  BY <1>3, <1>4, <1>5, <1>6
LEMMA ParticipantKeeps == ASSUME ParserInv, Participant PROVE ParserInv'
<1>1. /\ calls # <<>> /\ Top.op = "collaboration" /\ IsFrame(Top)
      /\ Rest = <<>> /\ Items(calls) = {Top} /\ Top.got \in Seq(DOMAIN parsers)
      /\ \A k \in DOMAIN Top.got : Top.got[k] \in served
    BY TopFacts, Alone DEF Participant, Doing
<1>2. CASE Raise  BY <1>2, RaiseKeeps
<1>3. CASE ~Raise
    <2>1. PICK p, g : p = Head(Top.todo) /\ g = Top  OBVIOUS
    <2>2. PICK got : got = IF p \in Executable /\ Participates(p) THEN Append(g.got, p) ELSE g.got
        OBVIOUS
    <2>3. PICK todo : todo = Tail(g.todo)  OBVIOUS
    <2>4. PICK f : f = Gathered(g, todo, got)  OBVIOUS
    <2>5. PICK h : h = SubprocessFrame(p)  OBVIOUS
    <2>6. /\ calls' = (IF p \in Executable THEN <<h>> ELSE <<>>) \o <<f>> \o Rest
          /\ UNCHANGED <<diagram, parsers, specs, served>>
        BY <1>3, <2>1, <2>2, <2>3, <2>4, <2>5 DEF Participant, Gathered, files
    <2>7. IsFrame(f) /\ f.op = "collaboration" /\ f.got = got
        BY <1>1, <2>1, <2>4, GatheredFrame
    <2>8. /\ IsFrame(h) /\ h.op = "process" /\ h.of = p /\ h.got = {}
        BY <2>5 DEF SubprocessFrame, Frame, IsFrame
    <2>9. FrameInv(f) /\ FrameInv(h)
        <3>1. got \in Seq(DOMAIN parsers)
            <4>1. g.got \in Seq(DOMAIN parsers)  BY <1>1, <2>1
            <4>2. CASE p \in Executable /\ Participates(p)
                <5>1. p \in DOMAIN parsers  BY <4>2 DEF Executable
                <5> QED  BY <2>2, <4>1, <4>2, <5>1, AppendProperties
            <4>3. CASE ~(p \in Executable /\ Participates(p))  BY <2>2, <4>1, <4>3
            <4> QED  BY <4>2, <4>3
        <3> QED  BY <2>7, <2>8, <3>1 DEF FrameInv, AskOps, ParseOps
    <2>10. /\ <<f>> \in Seq(Items(<<f>>)) /\ Items(<<f>>) = {f} /\ Ordered(<<f>>)
        <3>1. DOMAIN <<f>> = {1} /\ <<f>>[1] = f  OBVIOUS
        <3>2. Items(<<f>>) = {f}  BY <3>1 DEF Items
        <3>3. Ordered(<<f>>)  BY <3>1 DEF Ordered
        <3> QED  BY <3>2, <3>3
    <2>11. Above(h, f)  BY <2>7, <2>8 DEF Above, AskOps, ParseOps
    <2>12. calls' = IF p \in Executable THEN <<h>> \o <<f>> ELSE <<f>>
        <3>1. CASE p \in Executable
            <4>1. calls' = <<h>> \o <<f>> \o <<>>  BY <1>1, <2>6, <3>1
            <4>2. <<h>> \o <<f>> \in Seq({h, f})
                <5>1. <<h>> \in Seq({h, f}) /\ <<f>> \in Seq({h, f})  OBVIOUS
                <5> QED  BY <5>1, ConcatProperties
            <4>3. <<h>> \o <<f>> \o <<>> = <<h>> \o <<f>>  BY <4>2, ConcatEmptySeq
            <4> QED  BY <3>1, <4>1, <4>3
        <3>2. CASE p \notin Executable
            <4>1. calls' = <<>> \o <<f>> \o <<>>  BY <1>1, <2>6, <3>2
            <4>2. <<>> \o <<f>> = <<f>> /\ <<f>> \o <<>> = <<f>>  BY <2>10, ConcatEmptySeq
            <4> QED  BY <3>2, <4>1, <4>2
        <3> QED  BY <3>1, <3>2
    <2>13. /\ calls' \in Seq(Items(calls')) /\ Ordered(calls')
           /\ Items(calls') = {f} \union (IF p \in Executable THEN {h} ELSE {})
        <3>1. CASE p \in Executable
            <4>1. PICK s : s = <<f>>  OBVIOUS
            <4>2. s \in Seq(Items(s)) /\ Items(s) = {f} /\ Ordered(s)  BY <2>10, <4>1
            <4>3. /\ <<h>> \o s \in Seq(Items(<<h>> \o s)) /\ Ordered(<<h>> \o s)
                  /\ Items(<<h>> \o s) = {h} \union {f}
                BY <2>11, <4>2, PushItems
            <4>4. calls' = <<h>> \o s  BY <2>12, <3>1, <4>1
            <4> QED  BY <3>1, <4>3, <4>4
        <3>2. CASE p \notin Executable
            <4>1. calls' = <<f>>  BY <2>12, <3>2
            <4> QED  BY <2>10, <3>2, <4>1
        <3> QED  BY <3>1, <3>2
    <2>14. ParticipantsInv'
        <3> SUFFICES ASSUME NEW k \in DOMAIN f.got
                     PROVE  \/ f.got[k] \in served'
                            \/ \E x \in Items(calls') :
                                   x.op \in {"process", "subprocesses"} /\ x.of = f.got[k]
            BY <2>8, <2>13 DEF ParticipantsInv
        <3>1. PICK old : old = g.got  OBVIOUS
        <3>2. old \in Seq(DOMAIN parsers) /\ \A i \in DOMAIN old : old[i] \in served
            BY <1>1, <2>1, <3>1
        <3>3. CASE p \in Executable /\ Participates(p)
            <4>1. f.got = Append(old, p)  BY <2>2, <2>7, <3>1, <3>3
            <4>2. k \in 1..(Len(old) + 1) /\ Len(old) \in Nat /\ DOMAIN old = 1..Len(old)
                  /\ Append(old, p)[k] = IF k <= Len(old) THEN old[k] ELSE p
                BY <3>2, <4>1, LenProperties
            <4>3. CASE k <= Len(old)
                <5>1. k \in DOMAIN old /\ f.got[k] = old[k]  BY <4>1, <4>2, <4>3
                <5> QED  BY <2>6, <3>2, <5>1
            <4>4. CASE ~(k <= Len(old))
                <5>1. f.got[k] = p  BY <4>1, <4>2, <4>4
                <5> QED  BY <2>8, <2>13, <3>3, <5>1
            <4> QED  BY <4>3, <4>4
        <3>4. CASE ~(p \in Executable /\ Participates(p))
            BY <2>2, <2>6, <2>7, <3>1, <3>2, <3>4
        <3> QED  BY <3>3, <3>4
    <2>15. ServedInv'  BY <2>6 DEF ParserInv, ServedInv, Executable
    <2>16. \A x \in Items(calls') : IsFrame(x) /\ FrameInv(x) /\ x.op \notin ParseOps
        BY <2>7, <2>8, <2>9, <2>13 DEF ParseOps
    <2> QED  BY <2>6, <2>13, <2>14, <2>15, <2>16, AskingStack
<1> QED  BY <1>2, <1>3

LEMMA EmptyStack ==
    ASSUME SpecsInv', ServedInv', calls' = <<>>
    PROVE  ParserInv'
<1>1. Items(calls') = {} /\ calls' \in Seq(Items(calls'))  BY DEF Items
<1>2. Ordered(calls')  BY DEF Ordered
<1> QED  BY <1>1, <1>2 DEF ParserInv, StackInv, ParticipantsInv

LEMMA CollaborationEndsKeeps == ASSUME ParserInv, CollaborationEnds PROVE ParserInv'
<1>1. /\ calls # <<>> /\ Top.op = "collaboration" /\ Top.got \in Seq(DOMAIN parsers)
      /\ \A k \in DOMAIN Top.got : Top.got[k] \in served
    BY Alone DEF CollaborationEnds, Doing
<1>2. PICK c, got : c = Top.of /\ got = Top.got  OBVIOUS
<1>3. PICK spec : spec = CollaborationSpec(c, got)  OBVIOUS
<1>4. /\ specs' = Put(specs, c, spec) /\ served' = served \union {c} /\ calls' = <<>>
      /\ UNCHANGED <<diagram, parsers>>
    BY <1>2, <1>3 DEF CollaborationEnds, files
<1>5. /\ DOMAIN specs' = DOMAIN specs \union {c} /\ specs'[c] = spec
      /\ \A x \in DOMAIN specs \ {c} : specs'[x] = specs[x]
    BY <1>4 DEF Put
<1>6. \A i \in DOMAIN got : got[i] \in DOMAIN parsers /\ got[i] \in served
    BY <1>1, <1>2, LenProperties, ElementOfSeq
<1>7. \A Q : NoProcess \in Q /\ (\A i \in DOMAIN got : got[i] \in Q)
                => "tasks" \in DOMAIN spec /\ RefersTo(spec.tasks, Q)
    BY <1>3, CollaborationRefers
<1>8. SpecsInv'
    <2>1. Referable' = Referable  BY <1>4 DEF Referable, Callable, Nodes
    <2>2. NoProcess \in Referable /\ \A i \in DOMAIN got : got[i] \in Referable
        BY <1>6 DEF Referable
    <2>3. "tasks" \in DOMAIN spec /\ RefersTo(spec.tasks, Referable)
        <3>1. PICK Q : Q = Referable  OBVIOUS
        <3> QED  BY <1>7, <2>2, <3>1
    <2> QED  BY <1>4, <1>5, <2>1, <2>3 DEF ParserInv, SpecsInv
<1>9. Refs(spec) \subseteq served
    <2>1. PICK Q : Q = served \union {NoProcess}  OBVIOUS
    <2>2. RefersTo(spec.tasks, Q)  BY <1>6, <1>7, <2>1
    <2> QED  BY <2>1, <2>2, RefsFound
<1>10. ServedInv'
    <2> SUFFICES ASSUME NEW q \in served'
                 PROVE  q \in DOMAIN specs' /\ Refs(specs'[q]) \intersect Executable \subseteq served'
        BY <1>4 DEF ServedInv, Executable
    <2>1. CASE q = c  BY <1>4, <1>5, <1>9, <2>1
    <2>2. CASE q # c  BY <1>4, <1>5, <2>2 DEF ParserInv, ServedInv
    <2> QED  BY <2>1, <2>2
<1> QED  BY <1>4, <1>8, <1>10, EmptyStack

-----------------------------------------------------------------------------
(* Requests *)

LEMMA AddFileKeeps ==
    ASSUME ParserInv, NEW f \in DOMAIN diagram.files, AddFile(f)
    PROVE  ParserInv'
<1>1. PICK fresh : /\ fresh \subseteq 1..Len(diagram.files[f].processes)
                   /\ parsers' = Updated(parsers, [p \in {diagram.files[f].processes[i] : i \in fresh} |->
                                                       NoProcess])
    <2> DEFINE file == diagram.files[f]
               new  == {i \in 1..Len(file.processes) :
                           \A j \in 1..i : file.processes[j] \notin DOMAIN parsers}
    <2>1. parsers' = Updated(parsers, [p \in {file.processes[i] : i \in new} |-> NoProcess])
        BY DEF AddFile
    <2>2. new \subseteq 1..Len(file.processes)  OBVIOUS
    <2> HIDE DEF new
    <2> QED  BY <2>1, <2>2
<1>2. /\ calls' = <<>> /\ served' = {} /\ diagram' = diagram
      /\ specs' = [p \in DOMAIN specs |->
                      IF p \in DOMAIN parsers THEN [specs[p] EXCEPT !.stores = stores']
                                              ELSE specs[p]]
    BY DEF AddFile, Idle
<1>3. DOMAIN parsers' = DOMAIN parsers \union {diagram.files[f].processes[i] : i \in fresh}
    BY <1>1 DEF Updated
<1>4. \A i \in fresh : diagram.files[f].processes[i] \in DOMAIN diagram.processes
    <2>1. diagram.files[f].processes \in Seq(DOMAIN diagram.processes)
        BY DiagramsAssumption DEF DiagramsAssumption, ParserInv, SpecsInv
    <2>2. PICK s, S : s = diagram.files[f].processes /\ S = DOMAIN diagram.processes  OBVIOUS
    <2>3. \A i \in 1..Len(s) : s[i] \in S  BY <2>1, <2>2, ElementOfSeq
    <2> QED  BY <1>1, <2>2, <2>3
<1>5. DOMAIN parsers' \subseteq DOMAIN diagram'.processes
    BY <1>2, <1>3, <1>4 DEF ParserInv, SpecsInv
<1>6. DOMAIN specs' = DOMAIN specs  BY <1>2
<1>7. ASSUME NEW p \in DOMAIN specs
      PROVE  "tasks" \in DOMAIN specs'[p] /\ RefersTo(specs'[p].tasks, Referable')
    <2>1. "tasks" \in DOMAIN specs[p] /\ RefersTo(specs[p].tasks, Referable)
        BY DEF ParserInv, SpecsInv
    <2>2. "tasks" \in DOMAIN specs'[p] /\ specs'[p].tasks = specs[p].tasks  BY <1>2, <2>1
    <2>3. Referable \subseteq Referable'  BY <1>2, <1>3 DEF Referable, Callable, Nodes
    <2> QED  BY <2>1, <2>2, <2>3, RefersMonotonic
<1>8. SpecsInv'  BY <1>2, <1>5, <1>6, <1>7 DEF ParserInv, SpecsInv
<1>9. ServedInv'  BY <1>2 DEF ServedInv
<1> QED  BY <1>2, <1>8, <1>9, EmptyStack

\* The frames of a call that has just been made.
LEMMA CallKeeps ==
    ASSUME ParserInv, NEW frames, Call(frames),
           frames \in Seq(Items(frames)), Ordered(frames),
           \A f \in Items(frames) :
               /\ IsFrame(f) /\ f.op \in {"process", "all", "collaboration"}
               /\ f.got = IF f.op = "collaboration" THEN <<>> ELSE {}
    PROVE  ParserInv'
<1>1. /\ calls' = frames /\ served' = {} /\ UNCHANGED <<diagram, parsers, specs>>
    BY DEF Call, files
<1>2. ServedInv'  BY <1>1 DEF ServedInv
<1>3. ParticipantsInv'
    <2>1. DOMAIN <<>> = {}  OBVIOUS
    <2> QED  BY <1>1, <2>1 DEF ParticipantsInv
<1>4. ASSUME NEW f \in Items(frames)
      PROVE  IsFrame(f) /\ FrameInv(f) /\ f.op \notin ParseOps
    <2>1. IsFrame(f) /\ f.op \notin ParseOps  BY DEF ParseOps
    <2>2. CASE f.op = "collaboration"
        <3>1. f.got \in Seq(DOMAIN parsers)
            <4>1. f.got = <<>>  BY <2>2
            <4> QED  BY <4>1
        <3> QED  BY <2>2, <3>1 DEF FrameInv, AskOps, ParseOps
    <2>3. CASE f.op # "collaboration"
        <3>1. f.op \in {"process", "all"} /\ f.got = {}  BY <2>3
        <3> QED  BY <3>1 DEF FrameInv, AskOps, ParseOps
    <2> QED  BY <2>1, <2>2, <2>3
<1>5. \A f \in Items(calls') : IsFrame(f) /\ FrameInv(f) /\ f.op \notin ParseOps  BY <1>1, <1>4
<1> QED  BY <1>1, <1>2, <1>3, <1>5, AskingStack

\* A stack of one frame.
LEMMA OneFrame ==
    ASSUME NEW f
    PROVE  <<f>> \in Seq(Items(<<f>>)) /\ Items(<<f>>) = {f} /\ Ordered(<<f>>)
<1>1. DOMAIN <<f>> = {1} /\ <<f>>[1] = f  OBVIOUS
<1>2. Items(<<f>>) = {f}  BY <1>1 DEF Items
<1>3. Ordered(<<f>>)  BY <1>1 DEF Ordered
<1> QED  BY <1>2, <1>3

LEMMA FrameFields ==
    ASSUME NEW op, NEW of, NEW process, NEW todo, NEW got
    PROVE  /\ IsFrame(Frame(op, of, process, todo, got))
           /\ Frame(op, of, process, todo, got).op = op
           /\ Frame(op, of, process, todo, got).of = of
           /\ Frame(op, of, process, todo, got).got = got
BY DEF Frame, IsFrame

LEMMA GetSubprocessSpecsKeeps ==
    ASSUME ParserInv, NEW p, NEW required, GetSubprocessSpecs(p, required)
    PROVE  ParserInv'
<1>1. PICK f : f = [SubprocessFrame(p) EXCEPT !.required = required]  OBVIOUS
<1>2. IsFrame(f) /\ f.op = "process" /\ f.got = {}  BY <1>1 DEF SubprocessFrame, Frame, IsFrame
<1>3. PICK frames : frames = <<f>>  OBVIOUS
<1>4. Call(frames)  BY <1>1, <1>3 DEF GetSubprocessSpecs
<1>5. frames \in Seq(Items(frames)) /\ Ordered(frames) /\ Items(frames) = {f}  BY <1>3, OneFrame
<1> QED  BY <1>2, <1>4, <1>5, CallKeeps

LEMMA FindAllSpecsKeeps == ASSUME ParserInv, FindAllSpecs PROVE ParserInv'
<1>1. PICK f : f = AllFrame  OBVIOUS
<1>2. IsFrame(f) /\ f.op = "all" /\ f.got = {}  BY <1>1, FrameFields DEF AllFrame
<1>3. PICK frames : frames = <<f>>  OBVIOUS
<1>4. Call(frames)  BY <1>1, <1>3 DEF FindAllSpecs
<1>5. frames \in Seq(Items(frames)) /\ Ordered(frames) /\ Items(frames) = {f}  BY <1>3, OneFrame
<1> QED  BY <1>2, <1>4, <1>5, CallKeeps

LEMMA GetCollaborationKeeps ==
    ASSUME ParserInv, NEW c, GetCollaboration(c)
    PROVE  ParserInv'
<1>1. PICK f, g : f = AllFrame /\ g = Frame("collaboration", c, NoProcess, collaborations[c], <<>>)
    OBVIOUS
<1>2. IsFrame(f) /\ f.op = "all" /\ f.got = {}  BY <1>1, FrameFields DEF AllFrame
<1>3. IsFrame(g) /\ g.op = "collaboration" /\ g.got = <<>>  BY <1>1, FrameFields
<1>4. PICK s, frames : s = <<g>> /\ frames = <<f, g>>  OBVIOUS
<1>5. Call(frames)  BY <1>1, <1>4 DEF GetCollaboration
<1>6. s \in Seq(Items(s)) /\ Ordered(s) /\ Items(s) = {g}  BY <1>4, OneFrame
<1>7. Above(f, g)  BY <1>2, <1>3 DEF Above, AskOps, ParseOps
<1>8. frames = <<f>> \o s
    <2>1. PICK S, r : S = {f, g} /\ r = <<f>>  OBVIOUS
    <2>2. /\ r \in Seq(S) /\ Len(r) = 1 /\ r[1] = f
          /\ s \in Seq(S) /\ Len(s) = 1 /\ s[1] = g
          /\ frames \in Seq(S) /\ Len(frames) = 2 /\ frames[1] = f /\ frames[2] = g
        BY <1>4, <2>1
    <2>3. r \o s \in Seq(S) /\ Len(r \o s) = 2 /\ (r \o s)[1] = f /\ (r \o s)[2] = g
        BY <2>2, ConcatProperties
    <2>4. frames = r \o s
        <3>1. \A i \in 1..2 : i = 1 \/ i = 2  OBVIOUS
        <3>2. \A i \in 1..Len(frames) : frames[i] = (r \o s)[i]  BY <2>2, <2>3, <3>1
        <3> QED  BY <2>2, <2>3, <3>2, SeqEqual
    <2> QED  BY <2>1, <2>4
<1>9. frames \in Seq(Items(frames)) /\ Ordered(frames) /\ Items(frames) = {f, g}
    BY <1>6, <1>7, <1>8, PushItems
<1>10. \A x \in Items(frames) :
           /\ IsFrame(x) /\ x.op \in {"process", "all", "collaboration"}
           /\ x.got = IF x.op = "collaboration" THEN <<>> ELSE {}
    BY <1>2, <1>3, <1>9
<1> QED  BY <1>5, <1>9, <1>10, CallKeeps

-----------------------------------------------------------------------------
(* The theorem *)

LEMMA Unmoved ==
    ASSUME ParserInv, UNCHANGED <<diagram, parsers, specs, served, calls>>
    PROVE  ParserInv'
<1>1. SpecsInv'  BY DEF ParserInv, SpecsInv, Referable, Callable, Nodes
<1>2. ServedInv'  BY DEF ParserInv, ServedInv, Executable
<1>3. \A f : Collecting(f)' <=> Collecting(f)  BY DEF Collecting, Found, Asked, Callable, Nodes
<1>4. \A f : FrameInv(f)' <=> FrameInv(f)  BY <1>3 DEF FrameInv, Nodes, Flows, E
<1>5. ParticipantsInv'  BY DEF ParserInv, StackInv, ParticipantsInv
<1>6. StackInv'  BY <1>4, <1>5 DEF ParserInv, StackInv
<1> QED  BY <1>1, <1>2, <1>6 DEF ParserInv

LEMMA RequestsKeep == ASSUME ParserInv, Requests PROVE ParserInv'
<1>1. CASE \E f \in DOMAIN diagram.files : AddFile(f)  BY <1>1, AddFileKeeps
<1>2. CASE \E p \in DOMAIN diagram.processes, required \in BOOLEAN : GetSubprocessSpecs(p, required)
    BY <1>2, GetSubprocessSpecsKeeps
<1>3. CASE FindAllSpecs  BY <1>3, FindAllSpecsKeeps
<1>4. CASE \E c \in DOMAIN collaborations : GetCollaboration(c)  BY <1>4, GetCollaborationKeeps
<1> QED  BY <1>1, <1>2, <1>3, <1>4 DEF Requests

LEMMA ParsingKeeps == ASSUME ParserInv, Parsing PROVE ParserInv'
<1>1. CASE NextStart          BY <1>1, NextStartKeeps
<1>2. CASE FinishProcess      BY <1>2, FinishProcessKeeps
<1>3. CASE EnterNode          BY <1>3, EnterNodeKeeps
<1>4. CASE Look               BY <1>4, LookKeeps
<1>5. CASE Create             BY <1>5, CreateKeeps
<1>6. CASE Wrap               BY <1>6, WrapKeeps
<1>7. CASE Attach             BY <1>7, AttachKeeps
<1>8. CASE AttachEnds         BY <1>8, AttachEndsKeeps
<1>9. CASE Follow             BY <1>9, FollowKeeps
<1>10. CASE FollowEnds        BY <1>10, FollowEndsKeeps
<1>11. CASE Connect           BY <1>11, ConnectKeeps
<1>12. CASE Return            BY <1>12, ReturnKeeps
<1>13. CASE GetSpec           BY <1>13, GetSpecKeeps
<1>14. CASE SubprocessesReturn  BY <1>14, SubprocessesReturnKeeps
<1>15. CASE ParseAllEnds      BY <1>15, ParseAllEndsKeeps
<1>16. CASE Participant       BY <1>16, ParticipantKeeps
<1>17. CASE CollaborationEnds  BY <1>17, CollaborationEndsKeeps
<1>18. CASE \E p \in UNION {Refs(specs[q]) : q \in DOMAIN specs}, r \in BOOLEAN : GetSubprocess(p, r)
    BY <1>18, GetSubprocessKeeps
<1>19. CASE \E p \in DOMAIN parsers : ParseAll(p)  BY <1>19, ParseAllKeeps
<1> QED
    BY <1>1, <1>2, <1>3, <1>4, <1>5, <1>6, <1>7, <1>8, <1>9, <1>10, <1>11, <1>12, <1>13, <1>14,
       <1>15, <1>16, <1>17, <1>18, <1>19, Zenon DEF Parsing

LEMMA ParserInitially == ASSUME ParserInit PROVE ParserInv
<1>1. /\ diagram \in Diagrams /\ DOMAIN parsers = {} /\ DOMAIN specs = {} /\ served = {}
      /\ calls = <<>>
    BY DEF ParserInit
<1>2. SpecsInv /\ ServedInv  BY <1>1 DEF SpecsInv, ServedInv
<1>3. Items(calls) = {} /\ calls \in Seq(Items(calls)) /\ Ordered(calls)
    BY <1>1 DEF Items, Ordered
<1> QED  BY <1>2, <1>3 DEF ParserInv, StackInv, ParticipantsInv

\* The invariant of the parser: only what has a file or is embedded in what has been
\* parsed is known, what has been returned is complete, and the calls in progress know
\* what they have still to look for.
THEOREM ParserInvariant == ConverterSpec => []ParserInv
<1>1. ParserInit => ParserInv  BY ParserInitially
<1>2. ParserInv /\ [ConverterNext]_vars => ParserInv'
    <2> SUFFICES ASSUME ParserInv, [ConverterNext]_vars PROVE ParserInv'  OBVIOUS
    <2>1. CASE Requests  BY <2>1, RequestsKeep
    <2>2. CASE Parsing   BY <2>2, ParsingKeeps
    <2>3. CASE \E p \in served : SaveAndLoad(p, specs[p])  BY <2>3, Unmoved DEF SaveAndLoad
    <2>4. CASE UNCHANGED vars  BY <2>4, Unmoved DEF vars, files
    <2> QED  BY <2>1, <2>2, <2>3, <2>4 DEF ConverterNext, ParserNext
<1> QED  BY <1>1, <1>2, PTL DEF ConverterSpec

\* ServedComplete, at every moment and not only between calls: whatever a call of the
\* parser has returned, every subprocess that it calls and that can be run is there too,
\* whatever cycles the calls between processes have, whichever calls raised before and
\* left half a spec behind, and however often the parser is used again.
THEOREM ServedAlwaysComplete == ConverterSpec => []ServedComplete
<1>1. ParserInv => ServedComplete  BY DEF ParserInv, ServedInv, ServedComplete
<1> QED  BY <1>1, ParserInvariant, PTL
=============================================================================
