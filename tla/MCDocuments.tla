----------------------------- MODULE MCDocuments -----------------------------
(***************************************************************************)
(* The documents on which TLC checks the serializers.                      *)
(***************************************************************************)
EXTENDS SpecSerializer, TLC

Plain(kind, fields) ==
    [kind |-> kind, manual |-> TRUE, data |-> Num("2"),
     assign |-> [right |-> Num("2"), attribute |-> Nothing],
     fields |-> fields, conds |-> <<>>]

Times      == {Num("2"), Attrib("a"), PathAttrib("a/b")}
Thresholds == {Nothing, Num("0"), Num("2"), Attrib("a")}

JoinFields == {"split_task" :> s @@ "threshold" :> n @@ "cancel_remaining" :> c :
                  s \in {Nothing, Text("Start")}, n \in Thresholds, c \in {Flag("True"), Flag("False")}}
TriggerFields == {"context" :> Text("Start") @@ "times" :> n @@ "queued" :> q :
                     n \in Times, q \in {Num("0"), Num("3")}}

\* The attributes that the class of a task spec adds to those of every TaskSpec.
ClassFields ==
    {<<kind, "mutex" :> Text("m")>> : kind \in {"AcquireMutex", "ReleaseMutex"}}
    \union {<<"Cancel", "cancel_successfully" :> b>> : b \in {Flag("True"), Flag("False")}}
    \union ({"Trigger", "CancelTask"} \X TriggerFields)
    \union {<<"Choose", "context" :> Text("M") @@ "choice" :> Text("A")>>}
    \union {<<"Execute", "args" :> a>> : a \in {Nothing, Text("ls"), PathAttrib("a/b")}}
    \union {<<"Gate", "context" :> Text("Start")>>}
    \union ({"Join", "Merge", "ThreadMerge"} \X JoinFields)
    \union ({"MultiInstance", "ThreadSplit"} \X {"times" :> n : n \in Times})
    \union {<<"SubWorkflow", "file" :> v @@ "assigns" :> Attrib("a")>> :
               v \in {Text("/d/f"), RelativePath("d/f")}}
    \union {<<"Transform", "transforms" :> v>> : v \in {Nothing, Text("x = 1")}}
    \union {<<"Simple", << >> >>}

\* Conditions on a number, a text, an attribute and a path.
Arguments  == {Num("2"), Text("2"), Attrib("a"), PathAttrib("a/b"), Nothing}
Conditions == {[op |-> o, regex |-> "2", args |-> <<v, w>>] :
                  o \in {"Equal", "NotEqual", "LessThan", "GreaterThan", "Match"},
                  v \in Arguments, w \in Arguments}

ChoiceFields == {"choice" :> c @@ "default_task_spec" :> d :
                    c \in {Nothing, Text("A")}, d \in {Nothing, Text("A")}}

Assigns == [right : {Nothing, Num("0"), Num("2"), Text("y"), Attrib("a")}, attribute : {Nothing, Text("a")}]

TaskSpecs ==
    {Plain(f[1], f[2]) : f \in ClassFields}
    \union {[Plain("ExclusiveChoice", f) EXCEPT !.conds = <<c>>] : f \in ChoiceFields, c \in Conditions}
    \union {[Plain("Simple", << >>) EXCEPT !.assign = a, !.data = v, !.manual = m] :
               a \in {b \in Assigns : b.right \notin Falsy \/ b.attribute # Nothing},
               v \in {Num("0"), Text("y"), Text(""), Attrib("a")}, m \in BOOLEAN}

WorkflowSpecs == {"Start" :> Plain("StartTask", << >>) @@ "t" :> o : o \in TaskSpecs}
=============================================================================
