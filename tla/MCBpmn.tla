------------------------------- MODULE MCBpmn -------------------------------
(***************************************************************************)
(* The processes on which TLC checks the BPMN engine, with the specs that  *)
(* the parser puts around events and at the end of a process.              *)
(***************************************************************************)
EXTENDS BpmnProperties, TLC

Spec_(p, k, outs) == BpmnSpec(p, k, outs)
User(p, outs)     == [BpmnSpec(p, "Task", outs) EXCEPT !.manual = TRUE]
Ev(p, k, outs, e) == [BpmnSpec(p, k, outs) EXCEPT !.event = e]
Gw(p, k, outs, c) == [BpmnSpec(p, k, outs) EXCEPT !.cond = c]

\* A subprocess to which an interrupting error event and a cycle timer are
\* attached; the subprocess may throw the error itself.
BoundaryOrder == <<"BStart", "BS", "BP", "BI", "BN", "BA", "BH", "BR", "BJ", "BEJ", "BEnd",
                   "CStart", "CU", "CX", "CT", "CEJ", "CEnd">>
BoundaryNet ==
    Connected(BoundaryOrder,
        "BStart" :> Spec_("B", "Start", <<"BS">>)
        @@ "BS" :> Spec_("B", "Split", <<"BP", "BI", "BN">>)
        @@ "BP" :> [Spec_("B", "Subprocess", <<"BJ", "BA">>) EXCEPT !.calls = "C"]
        @@ "BI" :> [Ev("B", "Boundary", <<"BH", "BJ">>, "stop") EXCEPT !.cancel = TRUE]
        @@ "BN" :> Ev("B", "Boundary", <<"BR", "BJ">>, "remind")
        @@ "BJ" :> [Spec_("B", "BoundaryJoin", <<>>) EXCEPT !.cancel = TRUE, !.split = "BS"]
        @@ "BA" :> User("B", <<"BEJ">>)
        @@ "BH" :> User("B", <<"BEJ">>)
        @@ "BR" :> Spec_("B", "Task", <<"BEJ">>)
        @@ "BEJ" :> Spec_("B", "EndJoin", <<"BEnd">>)
        @@ "BEnd" :> Spec_("B", "Task", <<>>)
        @@ "CStart" :> Spec_("C", "Start", <<"CU">>)
        @@ "CU" :> User("C", <<"CX">>)
        @@ "CX" :> [Gw("C", "Exclusive", <<"CT", "CEJ">>, {"CT"}) EXCEPT !.default = "CEJ"]
        @@ "CT" :> Ev("C", "EndEvent", <<"CEJ">>, "fail")
        @@ "CEJ" :> Spec_("C", "EndJoin", <<"CEnd">>)
        @@ "CEnd" :> Spec_("C", "Task", <<>>))
BoundaryEvents ==
    "stop" :> EventDef("error", None)
    @@ "fail" :> EventDef("error", "E1")
    @@ "remind" :> [EventDef("cycle", "remind") EXCEPT !.cycles = 3]

\* A transaction that may be cancelled or terminated from inside, while a second
\* branch is at work, and an event gateway.
TransactionOrder == <<"DStart", "DS", "DP", "DI", "DH", "DG", "DM", "DT", "DA", "DE", "DJ", "DEJ",
                      "DEnd", "FStart", "FF", "FU", "FX", "FC", "FT", "FV", "FEJ", "FEnd">>
TransactionNet ==
    Connected(TransactionOrder,
        "DStart" :> Spec_("D", "Start", <<"DS">>)
        @@ "DS" :> Spec_("D", "Split", <<"DP", "DI">>)
        @@ "DP" :> [Spec_("D", "Subprocess", <<"DJ", "DG">>) EXCEPT !.calls = "F"]
        @@ "DI" :> [Ev("D", "Boundary", <<"DH", "DJ">>, "cancel") EXCEPT !.cancel = TRUE]
        @@ "DJ" :> [Spec_("D", "BoundaryJoin", <<>>) EXCEPT !.cancel = TRUE, !.split = "DS"]
        @@ "DH" :> User("D", <<"DEJ">>)
        @@ "DG" :> Ev("D", "EventGateway", <<"DM", "DT">>, "any")
        @@ "DM" :> Ev("D", "Catch", <<"DA">>, "sig")
        @@ "DT" :> Ev("D", "Catch", <<"DE">>, "late")
        @@ "DA" :> User("D", <<"DEJ">>)
        @@ "DE" :> Ev("D", "EndEvent", <<"DEJ">>, "halt")
        @@ "DEJ" :> Spec_("D", "EndJoin", <<"DEnd">>)
        @@ "DEnd" :> Spec_("D", "Task", <<>>)
        @@ "FStart" :> Spec_("F", "Start", <<"FF">>)
        @@ "FF" :> Spec_("F", "Parallel", <<"FU", "FV">>)
        @@ "FU" :> User("F", <<"FX">>)
        @@ "FV" :> User("F", <<"FEJ">>)
        @@ "FX" :> [Gw("F", "Exclusive", <<"FC", "FT", "FEJ">>, {"FC", "FT"})
                        EXCEPT !.default = "FEJ"]
        @@ "FC" :> Ev("F", "EndEvent", <<"FEJ">>, "cancel")
        @@ "FT" :> Ev("F", "EndEvent", <<"FEJ">>, "halt")
        @@ "FEJ" :> Spec_("F", "EndJoin", <<"FEnd">>)
        @@ "FEnd" :> Spec_("F", "Task", <<>>))
TransactionEvents ==
    "cancel" :> EventDef("cancel", None)
    @@ "halt" :> EventDef("terminate", None)
    @@ "late" :> EventDef("timer", "late")
    @@ "sig" :> EventDef("signal", "sig")
    @@ "any" :> [EventDef("multiple", None) EXCEPT !.events = {"sig", "late"}]

\* An inclusive choice between two branches that may turn away from the inclusive join
\* (one of them after a user task, so that only the search for active tasks behind the
\* inputs of the join tells that it may still come), and by default a parallel split
\* and join.
GatewayOrder == <<"GStart", "GI", "GA", "GB", "GX", "GY", "GP", "GC", "GD", "GQ", "GJ", "GL", "GE",
                  "GEJ", "GEnd">>
GatewaySpecs ==
        "GStart" :> Spec_("G", "Start", <<"GI">>)
        @@ "GI" :> Gw("G", "Inclusive", <<"GA", "GB", "GP">>, {"GA", "GB"})
        @@ "GA" :> User("G", <<"GX">>)
        @@ "GX" :> [Gw("G", "Exclusive", <<"GY", "GL">>, {"GY"}) EXCEPT !.default = "GL"]
        @@ "GY" :> User("G", <<"GJ">>)
        @@ "GB" :> [Gw("G", "Exclusive", <<"GJ", "GL">>, {"GJ"}) EXCEPT !.default = "GL"]
        @@ "GL" :> User("G", <<"GEJ">>)
        @@ "GP" :> Spec_("G", "Parallel", <<"GC", "GD">>)
        @@ "GC" :> User("G", <<"GQ">>)
        @@ "GD" :> User("G", <<"GQ">>)
        @@ "GQ" :> Spec_("G", "Parallel", <<"GJ">>)
        @@ "GJ" :> Gw("G", "Inclusive", <<"GE">>, {})
        @@ "GE" :> User("G", <<"GEJ">>)
        @@ "GEJ" :> Spec_("G", "EndJoin", <<"GEnd">>)
        @@ "GEnd" :> Spec_("G", "Task", <<>>)
GatewayNet == Connected(GatewayOrder, GatewaySpecs)

\* A process that sends a message to another one, which it starts, and waits for
\* the answer of its conversation; the other one can be started by a signal too.
ConversationOrder == <<"MStart", "MS", "MR", "MA", "MEJ", "MEnd", "NStart", "NS", "NM", "NG", "NJ",
                       "NA", "NE", "NEJ", "NEnd", "CallN">>
ConversationNet ==
    Connected(ConversationOrder,
        "MStart" :> Spec_("M", "Start", <<"MS">>)
        @@ "MS" :> Ev("M", "Throw", <<"MR">>, "order")
        @@ "MR" :> Ev("M", "Catch", <<"MA">>, "reply")
        @@ "MA" :> User("M", <<"MEJ">>)
        @@ "MEJ" :> Spec_("M", "EndJoin", <<"MEnd">>)
        @@ "MEnd" :> Spec_("M", "Task", <<>>)
        @@ "NStart" :> Spec_("N", "Start", <<"NS">>)
        @@ "NS" :> Spec_("N", "StartSplit", <<"NM", "NG">>)
        @@ "NM" :> Ev("N", "StartEvent", <<"NJ">>, "order")
        @@ "NG" :> Ev("N", "StartEvent", <<"NJ">>, "begin")
        @@ "NJ" :> [Spec_("N", "StartJoin", <<"NA">>) EXCEPT !.cancel = TRUE, !.split = "NS"]
        @@ "NA" :> User("N", <<"NE">>)
        @@ "NE" :> Ev("N", "EndEvent", <<"NEJ">>, "reply")
        @@ "NEJ" :> Spec_("N", "EndJoin", <<"NEnd">>)
        @@ "NEnd" :> Spec_("N", "Task", <<>>)
        @@ "CallN" :> [Spec_(None, "Subprocess", <<>>) EXCEPT !.calls = "N"])
ConversationEvents ==
    "order" :> [EventDef("message", "order") EXCEPT !.correlated = TRUE]
    @@ "reply" :> [EventDef("message", "reply") EXCEPT !.correlated = TRUE]
    @@ "begin" :> EventDef("signal", "begin")

BpmnNet  == BoundaryNet @@ TransactionNet @@ GatewayNet @@ ConversationNet
BpmnDefs == BoundaryEvents @@ TransactionEvents @@ ConversationEvents
\* The branches that may turn away from the inclusive join lead to it over one task,
\* whose first input is not the branch with the user task.
MergingNet ==
    Connected(GatewayOrder, [GatewaySpecs EXCEPT !["GB"].outputs = <<"GY", "GL">>, !["GB"].cond = {"GY"}])
TwoCycles == [BpmnDefs EXCEPT !["remind"].cycles = 2]
BpmnChoices ==
    "B" :> [key : {None}, holds : {{}, {"CT"}}]
    @@ "D" :> [key : {None}, holds : {{}, {"FC"}, {"FT"}}]
    @@ "G" :> [key : {None}, holds : {{}, {"GA"}, {"GB", "GY"}, {"GA", "GB", "GJ"}}]
    @@ "M" :> [key : {"k1", "k2"}, holds : {{}}]
AnyCall == "B" :> (CallNames \ {"reset early"}) @@ "D" :> {"event", "send", "timer", "cancel"} @@ "G" :> {"cancel"}
           @@ "M" :> {"event"}
EventAndTimer == [AnyCall EXCEPT !["D"] = {"event", "timer"}]
OutsideCalls == "B" :> 2 @@ "D" :> 2 @@ "G" :> 1 @@ "M" :> 2
\* Users run the user tasks; in the processes B and C the application runs every
\* other task one by one as well.
RunByHand == {s \in DOMAIN BpmnNet : BpmnNet[s].manual \/ BpmnNet[s].process \in {"B", "C"}}
Message(name, key) == BpmnEvent(ConversationEvents[name], key, FALSE)
Other(kind, name)  == BpmnEvent(EventDef(kind, name), None, FALSE)
FromOutside ==
    "B" :> {Other("error", "E2")}
    @@ "D" :> {Other("signal", "sig"), Other("timer", "late")}
    @@ "G" :> {}
    @@ "M" :> {Message("order", "k2"), Message("reply", "k1")}
=============================================================================
