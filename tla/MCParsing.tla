------------------------------ MODULE MCParsing ------------------------------
(***************************************************************************)
(* Diagrams for the parser: every small process around a gateway and a     *)
(* task with a boundary event, an application of several files with all    *)
(* kinds of elements, and processes with one fault each.                   *)
(***************************************************************************)
EXTENDS ParserProperties

N(tag, targets) == Node(tag, [i \in DOMAIN targets |-> Flow(targets[i], FALSE)])
If(targets)     == [i \in DOMAIN targets |-> Flow(targets[i], TRUE)]

Start(n) == N("startEvent", <<n>>)
Stop     == N("endEvent", <<>>)

On(node, kind)    == [node EXCEPT !.events = <<Event(kind)>>]
Using(node, data) == [node EXCEPT !.data = data]
Object(name)      == DataRef(name, FALSE)
Store(name)       == DataRef(name, TRUE)

-----------------------------------------------------------------------------
(* s leads to the task a, which has the boundary event b, or to the gateway *)
(* g, and each of these back and forth in every way.                        *)

Small(s, a, b, g, kind, height) ==
    [nodes |-> [s |-> Start(s),
                a |-> [N("task", <<a>>) EXCEPT !.bounds = <<"b">>, !.y = height],
                b |-> On(N("boundaryEvent", b), "timer"),
                g |-> [Node(kind, If(g)) EXCEPT !.default = 1, !.y = 1],
                e |-> [Stop EXCEPT !.y = 2]],
     processes |-> [p |-> Process(<<"s">>, {"e"}, {})],
     files |-> <<File(<<"p">>, <<{}>>, {})>>]

Branches == {q \in UNION {[1..n -> {"a", "g", "e"}] : n \in 1..3} : IsInjective(q)}

AllSmall ==
    {Small(s, a, b, g, kind, height) :
        s \in {"a", "g"}, a \in {"a", "g", "e"}, b \in {<<>>, <<"a">>, <<"g">>}, g \in Branches,
        kind \in {"exclusiveGateway", "parallelGateway"}, height \in {0, 2}}

-----------------------------------------------------------------------------
Office ==
    [nodes |->
        [\* the process P
         s   |-> Start("xg"),
         xg  |-> [Node("exclusiveGateway", <<Flow("u", TRUE), Flow("ig", FALSE)>>) EXCEPT !.default = 2],
         u   |-> [Using(N("userTask", <<"xg">>), <<Object("o"), Store("store")>>)
                     EXCEPT !.bounds = <<"ut", "ue">>, !.y = 5],
         ut  |-> [On(N("boundaryEvent", <<"m">>), "timer") EXCEPT !.interrupts = FALSE],
         ue  |-> [N("boundaryEvent", <<"u">>) EXCEPT !.events = <<Event("signal"), Event("error")>>],
         ig  |-> Node("inclusiveGateway", If(<<"sub", "call", "m">>)),
         m   |-> [N("sendTask", <<"mi">>) EXCEPT !.events = <<[Event("message") EXCEPT !.key = "k"]>>],
         mi  |-> [Using(N("userTask", <<"ev">>), <<Object("o")>>)
                     EXCEPT !.loop = "ParallelMultiInstanceTask", !.bounds = <<"mb">>],
         mb  |-> On(N("boundaryEvent", <<"e">>), "escalation"),
         ev  |-> N("eventBasedGateway", <<"c1", "c2">>),
         c1  |-> [On(N("intermediateCatchEvent", <<"e">>), "message") EXCEPT !.y = 3],
         c2  |-> On(N("receiveTask", <<"tr">>), "message"),
         tr  |-> [N("transaction", <<"e">>) EXCEPT !.bounds = <<"tc">>],
         tc  |-> On(N("boundaryEvent", <<"th">>), "cancel"),
         th  |-> On(N("intermediateThrowEvent", <<"e">>), "escalation"),
         sub |-> [N("subProcess", <<"e">>) EXCEPT !.y = 1],
         call |-> [N("callActivity", <<"e">>) EXCEPT !.called = "Q"],
         e   |-> On(Stop, "terminate"),
         \* its subprocesses
         ss  |-> Start("st"),
         st  |-> Using([N("scriptTask", <<"inner">>) EXCEPT !.loop = "StandardLoopTask"],
                       <<Object("i"), Object("o")>>),
         inner |-> N("subProcess", <<"se">>),
         se  |-> Stop,
         is  |-> Start("it"),
         it  |-> Using(N("manualTask", <<"ie">>), <<Object("i")>>),
         ie  |-> Stop,
         ts  |-> Start("te"),
         te  |-> On(Stop, "cancel"),
         \* the process Q
         q1  |-> On(Start("j"), "message"),
         q2  |-> On(Start("j"), "timer"),
         j   |-> N("parallelGateway", <<"qs", "qc">>),
         qc  |-> [N("callActivity", <<"qe">>) EXCEPT !.called = "P"],
         qs  |-> N("serviceTask", <<"qe">>),
         qe  |-> Stop],
     processes |->
        [P     |-> Process(<<"s">>, {"e"}, {"o"}),
         sub   |-> [Process(<<"ss">>, {"se"}, {"i"}) EXCEPT !.parent = "P"],
         inner |-> [Process(<<"is">>, {"ie"}, {}) EXCEPT !.parent = "sub"],
         tr    |-> [Process(<<"ts">>, {"te"}, {}) EXCEPT !.parent = "P"],
         Q     |-> Process(<<"q1", "q2">>, {"qe"}, {}),
         Paper |-> [Process(<<>>, {}, {}) EXCEPT !.executable = FALSE]],
     files |->
        <<File(<<"P">>, <<{"Q"}>>, {"store"}),
          [File(<<"Q", "Paper">>, <<{"P"}, {}>>, {"other"})
              EXCEPT !.collaborations = "C" :> <<"P", "Q", "Nobody">>],
          File(<<"Paper", "P">>, <<{}, {"Q"}>>, {})>>]

-----------------------------------------------------------------------------
(* The process X has a fault in its task t; Y calls X. *)

Faulty(t) ==
    [nodes |-> [xs |-> Start("t"), t |-> t, x |-> N("task", <<"xe">>),
                b |-> On(N("boundaryEvent", <<"x">>), "cancel"),
                c |-> N("boundaryEvent", <<"x">>), xe |-> Stop,
                ys |-> Start("call"), call |-> [N("callActivity", <<"ye">>) EXCEPT !.called = "X"],
                ye |-> Stop],
     processes |-> [X |-> Process(<<"xs">>, {"xe"}, {}), Y |-> Process(<<"ys">>, {"ye"}, {}),
                    t |-> [Process(<<>>, {"xe"}, {}) EXCEPT !.parent = "X"]],
     files |-> <<File(<<"X">>, <<{}>>, {}), File(<<"Y">>, <<{"X"}>>, {})>>]

Faults ==
    {[N("scriptTask", <<"x">>) EXCEPT !.scripts = 0], N("complexGateway", <<"x">>), N("callActivity", <<"x">>), N("subProcess", <<"x">>),
     N("task", <<"x", "xe">>), N("exclusiveGateway", <<"x", "xe">>),
     N("eventBasedGateway", <<"x", "xe">>),
     [N("task", <<"x">>) EXCEPT !.bounds = <<"b">>], [N("task", <<"x">>) EXCEPT !.bounds = <<"c">>],
     [N("task", <<"x">>) EXCEPT !.loop = "unsound"],
     Using(N("task", <<"x">>), <<Store("gone")>>), Using(N("task", <<"x">>), <<Object("gone")>>),
     [N("intermediateCatchEvent", <<"x">>) EXCEPT !.events = <<[Event("timer") EXCEPT !.sound = FALSE]>>]}

\* A process that cannot start, and one that calls it.
Silent ==
    [nodes |-> [rs |-> Start("call"), call |-> [N("callActivity", <<"re">>) EXCEPT !.called = "p"],
                re |-> Stop],
     processes |-> [p |-> Process(<<>>, {}, {}), r |-> Process(<<"rs">>, {"re"}, {})],
     files |-> <<File(<<"p">>, <<{}>>, {}), File(<<"r">>, <<{"p"}>>, {})>>]

MCDiagrams == AllSmall \union {Office, Silent} \union {Faulty(t) : t \in Faults}

=============================================================================
