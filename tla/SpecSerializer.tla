--------------------------- MODULE SpecSerializer ---------------------------
(***************************************************************************)
(* Saving and loading a workflow specification with the three serializers  *)
(* of the core library: the dictionary, its JSON form, and XML.            *)
(*                                                                         *)
(* A task spec is [kind, manual, data, assign, fields, conds]: its class,  *)
(* the attributes of every TaskSpec (one value of data, and the Assign of  *)
(* pre_assign), the attributes of its class, and the conditions of a       *)
(* choice.  A list of values is represented by one member of it.  A value  *)
(* is [type, text], text being what str() makes of it.                     *)
(*                                                                         *)
(* What cannot be saved, or cannot be loaded again, raises: the caller has *)
(* no specification then.                                                  *)
(***************************************************************************)
EXTENDS Naturals, Sequences

CONSTANTS
    Originals,  \* the specifications that are saved: sets of task specs by name
    MaxTrips    \* bound: how often a specification is saved and loaded

ASSUME MaxTripsAssumption == MaxTrips \in Nat

VARIABLES
    original,   \* the specification that was built
    specs,      \* the specification in memory, WorkflowSpec.task_specs
    trips,      \* the formats it went through, in order
    raised      \* whether a save or a load raised

documentVars == <<original, specs, trips, raised>>

Formats == {"dict", "json", "xml"}

Value(type, text) == [type |-> type, text |-> text]
Nothing   == Value("none", "None")
Text(s)   == Value("str", s)
Num(s)    == Value("int", s)
Flag(s)   == Value("bool", s)
Attrib(s) == Value("attrib", s)
PathAttrib(s) == Value("path", s)

RelativePath(s) == Value("relative", s)

Falsy == {Nothing, Text(""), Num("0"), Flag("False")}
Term(v) == v.type \in {"attrib", "path"}

-----------------------------------------------------------------------------
(* operators.py: what the engine makes of values and conditions.           *)
(* Task data is a function from names, and from paths "a/b", to values.    *)

\* valueof(): an attribute or a path is looked up in the data of the task.
ValueOf(data, v, default) ==
    IF v = Nothing THEN default
    ELSE IF Term(v) THEN (IF v.text \in DOMAIN data THEN data[v.text] ELSE default)
         ELSE v

Numerals == <<"0", "1", "2", "3">>
IsNumber(text) == \E i \in DOMAIN Numerals : Numerals[i] = text
Number(text)   == CHOOSE n \in 0..3 : Numerals[n + 1] = text

\* Operator._matches; every argument is turned into a string first.  A regular
\* expression is represented by the only text it matches.
Matches(data, c) ==
    LET values == [i \in DOMAIN c.args |-> ValueOf(data, c.args[i], Nothing).text]
        same   == \A i \in DOMAIN values : values[i] = values[1]
    IN  CASE c.op = "Equal"    -> <<same>>
          [] c.op = "NotEqual" -> <<~same>>
          [] c.op \in {"GreaterThan", "LessThan"} ->
               IF ~IsNumber(values[1]) \/ ~IsNumber(values[2]) THEN <<>>  \* int() raises
               ELSE <<IF c.op = "LessThan" THEN Number(values[1]) < Number(values[2])
                                           ELSE Number(values[1]) > Number(values[2])>>
          [] c.op = "Match" -> <<\A i \in DOMAIN values : values[i] = c.regex>>

\* Assign.assign: the value that is assigned.
Assigned(data, a) ==
    IF a.right # Nothing THEN a.right ELSE ValueOf(data, a.attribute, Nothing)

-----------------------------------------------------------------------------
(* The dictionary.  Attributes are kept as they are, arguments of          *)
(* operators with their type, data and assignments as pickles.             *)

\* The arguments of a Match do not include its regular expression, and become all
\* its arguments when it is loaded.
LoadedOperator(op, regex, args) ==
    IF op # "Match" THEN [op |-> op, regex |-> regex, args |-> args]
    ELSE [op |-> op, regex |-> Head(args).text, args |-> Tail(args)]

OperatorRaises(op, args) == op = "Match" /\ (Len(args) < 2 \/ Head(args).type # "str")

\* The constructor of a SubWorkflow looks for its file in the directory of the
\* workflow's, and once more when the specification is loaded.
Located(v) == IF v.type = "relative" THEN RelativePath("d/" \o v.text) ELSE v

DictCondition(c) == LoadedOperator(c.op, c.regex, c.args)

\* The attributes of each class that are loaded again, from AcquireMutex to
\* MultiChoice and from MultiInstance to Trigger.  (A Transform saves itself.)
DictFirst ==
    [AcquireMutex |-> {"mutex"}, Cancel |-> {"cancel_successfully"},
     CancelTask |-> {"context", "times"}, Choose |-> {"context", "choice"},
     ExclusiveChoice |-> {"choice", "default_task_spec"}, Execute |-> {"args"},
     Gate |-> {"context"}, Join |-> {"split_task", "threshold", "cancel_remaining"},
     MultiChoice |-> {"choice"}]

DictSecond ==
    [MultiInstance |-> {"times"}, ReleaseMutex |-> {"mutex"}, Simple |-> {}, StartTask |-> {},
     SubWorkflow |-> {"file", "assigns"}, ThreadMerge |-> {"split_task"},
     ThreadSplit |-> {"times"}, ThreadStart |-> {}, Merge |-> {"split_task"},
     Trigger |-> {"context", "times"}, Transform |-> {"transforms"}]

DictLoads(kind) == IF kind \in DOMAIN DictFirst THEN DictFirst[kind] ELSE DictSecond[kind]

\* What the constructors make of an attribute that they are not given.
Default(f) == CASE f = "queued" -> Num("0") [] f = "threshold" -> Nothing
                [] f = "cancel_remaining" -> Flag("False")

\* Mutant: a Join, too, is left its parameters to the constructor.
DictField_NoJoin(o, f) ==
    IF f \in {"threshold", "cancel_remaining"} THEN Default(f) ELSE o.fields[f]

\* The number of queued triggers is saved and not loaded; the threshold and the
\* cancel flag of a Merge and a ThreadMerge neither.
DictField(o, f) ==
    IF f \notin DictLoads(o.kind) THEN Default(f)
    ELSE IF f = "file" THEN Located(o.fields[f]) ELSE o.fields[f]

DictTaskSpec(o) ==
    [o EXCEPT !.fields = [f \in DOMAIN o.fields |-> DictField(o, f)],
              !.conds  = [i \in DOMAIN o.conds |-> DictCondition(o.conds[i])]]

DictRaises(o) == \E i \in DOMAIN o.conds : OperatorRaises(o.conds[i].op, o.conds[i].args)

\* JSON has a form for an Attrib that is an attribute itself, and none for a path.
JsonRaises(o) ==
    \/ DictRaises(o)
    \/ "args" \in DOMAIN o.fields /\ o.fields["args"].type = "path"

-----------------------------------------------------------------------------
(* XML.  An element has a text or children, and no types.                  *)

\* Mutant: an attribute name is written as text.
XmlValue_Untyped(v) == Text(v.text)

\* serialize_value and deserialize_value: a number becomes a string.
XmlValue(v) == IF Term(v) THEN v ELSE Text(v.text)

\* An element without text is read as one that has children.
ValueRaises(v) == v \in {Nothing, Text("")}

XmlArgs(c) == [i \in DOMAIN c.args |-> XmlValue(c.args[i])]
XmlCondition(c) == LoadedOperator(c.op, c.regex, XmlArgs(c))

\* Mutant: an empty element stands for a right side that is false, and is read as
\* one without text.
XmlAssign_Empty(a) == [right |-> IF a.right = Text("") THEN Nothing
                                 ELSE IF a.right \in Falsy THEN Text("") ELSE Text(a.right.text),
                       attribute |-> a.attribute]

\* A right side that is false is not written at all.  Of one that is an attribute or
\* a path, the text of the element is read, which has none but a child.
XmlAssign(a) ==
    [right     |-> IF a.right \in Falsy THEN Nothing
                   ELSE IF Term(a.right) THEN Text("") ELSE Text(a.right.text),
     attribute |-> a.attribute]
AssignRaises(a) == XmlAssign(a).right \in Falsy /\ a.attribute \in Falsy

\* How the attributes of each class are written, from AcquireMutex to Join and from
\* MultiChoice to Trigger: as a text, or the path of a file; as a value; as a value if
\* it is true, or if it is given; as a flag, an element that is there or not, or always
\* there.
TriggerForm == [context |-> "value", times |-> "value", queued |-> "number"]
JoinForm    == [split_task |-> "option", threshold |-> "given", cancel_remaining |-> "flag"]
ChoiceForm  == [choice |-> "option", default_task_spec |-> "text"]

XmlFirst ==
    [AcquireMutex |-> [mutex |-> "text"], Cancel |-> [cancel_successfully |-> "always"],
     CancelTask |-> TriggerForm, Choose |-> [context |-> "text", choice |-> "value"],
     ExclusiveChoice |-> ChoiceForm, Execute |-> [args |-> "value"],
     Gate |-> [context |-> "text"], Join |-> JoinForm]

XmlSecond ==
    [MultiChoice |-> [choice |-> "option"], MultiInstance |-> [times |-> "value"],
     ReleaseMutex |-> [mutex |-> "text"], Simple |-> << >>, StartTask |-> << >>,
     SubWorkflow |-> [file |-> "path", assigns |-> "value"], ThreadMerge |-> JoinForm,
     ThreadSplit |-> [times |-> "value"], ThreadStart |-> << >>, Merge |-> JoinForm,
     Trigger |-> TriggerForm, Transform |-> [transforms |-> "none"]]

Forms(kind) == IF kind \in DOMAIN XmlFirst THEN XmlFirst[kind] ELSE XmlSecond[kind]
Form(o, f)  == Forms(o.kind)[f]

XmlField(o, f) ==
    LET v == o.fields[f]
    IN  CASE Form(o, f) = "path" -> Located(v)
          [] Form(o, f) = "always" -> Flag("True")
          [] Form(o, f) \in {"flag", "number"} -> v
          [] Form(o, f) = "option" /\ v \in Falsy -> Nothing
          [] Form(o, f) = "given" /\ v = Nothing -> Nothing
          [] Form(o, f) = "text" /\ v = Nothing -> Text("")
          [] OTHER -> XmlValue(v)

\* A Merge is written, and loaded, as a Join.  manual is an empty element, whose
\* text is false.
XmlTaskSpec(o) ==
    [kind   |-> IF o.kind = "Merge" THEN "Join" ELSE o.kind,
     manual |-> FALSE,
     data   |-> XmlValue(o.data),
     assign |-> XmlAssign(o.assign),
     fields |-> [f \in DOMAIN o.fields |-> XmlField(o, f)],
     conds  |-> [i \in DOMAIN o.conds |-> XmlCondition(o.conds[i])]]

XmlRaises(o) ==
    \/ o.kind = "Transform"    \* has no XML form
    \/ ValueRaises(o.data)
    \/ AssignRaises(o.assign)
    \/ \E f \in DOMAIN o.fields : Form(o, f) = "value" /\ ValueRaises(o.fields[f])
    \/ \E i \in DOMAIN o.conds :
          \/ \E k \in DOMAIN o.conds[i].args : ValueRaises(o.conds[i].args[k])
          \/ OperatorRaises(o.conds[i].op, XmlArgs(o.conds[i]))

-----------------------------------------------------------------------------
(* What can be built: the constructors of the task specs and operators.    *)

Classes == DOMAIN XmlFirst \union DOMAIN XmlSecond

Operators == {"Equal", "NotEqual", "GreaterThan", "LessThan", "Match"}

\* The constants are strings, which the provers do not know.
Strings == STRING \union {"", "None", "0", "True", "False"}

\* Nothing but a text may be empty: an attribute or a path has a name.
Values == {v \in [type : {"none", "str", "int", "bool", "attrib", "path"}, text : Strings] :
             /\ v.type = "none" => v = Nothing
             /\ v.text = "" => v.type = "str"}

\* The attributes are those of the class.  Nothing is said of the path of a file.
IsRecord(o) ==
    /\ o \in [kind   : Classes,
             manual : BOOLEAN,
             data   : Values,
             assign : [right : Values, attribute : Values],
             fields : {[f \in DOMAIN Forms(o.kind) |-> o.fields[f]]},
             conds  : Seq([op : Operators, regex : Strings, args : Seq(Values)])]
    /\ \A f \in DOMAIN o.fields : f # "file" => o.fields[f] \in Values

\* The types that the constructors name for their parameters.
FieldTypes ==
    [mutex |-> {"str"}, context |-> {"str"}, transforms |-> {"none", "str"}, file |-> {"str", "relative"},
     choice |-> {"none", "str"}, split_task |-> {"none", "str"},
     default_task_spec |-> {"none", "str"}, args |-> {"none", "str", "attrib", "path"},
     assigns |-> {"attrib"}, times |-> {"int", "attrib", "path"}, queued |-> {"int"},
     threshold |-> {"none", "int", "attrib", "path"},
     cancel_remaining |-> {"bool"}, cancel_successfully |-> {"bool"}]

IsTaskSpec(o) ==
    /\ IsRecord(o)
    /\ \A f \in DOMAIN o.fields :
          /\ o.fields[f].type \in FieldTypes[f]
          /\ f \in {"choice", "split_task"} => o.fields[f].text # ""
    /\ o.assign.right \notin Falsy \/ o.assign.attribute \notin Falsy
    /\ o.assign.attribute.type \in {"none", "str"} /\ o.assign.attribute.text # ""

\* The specifications are functions from names to what the constructors build.
ASSUME OriginalsAssumption ==
    \A ss \in Originals : /\ ss = [s \in DOMAIN ss |-> ss[s]]
                          /\ \A s \in DOMAIN ss : IsTaskSpec(ss[s])

-----------------------------------------------------------------------------
(* Workflow specifications *)

Raises(format, o) == CASE format = "dict" -> DictRaises(o)
                       [] format = "json" -> JsonRaises(o)
                       [] format = "xml"  -> XmlRaises(o)

DictWorkflowSpec(ss) == [s \in DOMAIN ss |-> DictTaskSpec(ss[s])]
XmlWorkflowSpec(ss)  == [s \in DOMAIN ss |-> XmlTaskSpec(ss[s])]

\* serialize_workflow_spec and deserialize_workflow_spec: all task specs or none.
SaveAndLoad(format) ==
    /\ ~raised /\ Len(trips) < MaxTrips
    /\ trips' = Append(trips, format)
    /\ raised' = \E s \in DOMAIN specs : Raises(format, specs[s])
    /\ specs' = IF raised' THEN specs
                ELSE IF format = "xml" THEN XmlWorkflowSpec(specs) ELSE DictWorkflowSpec(specs)
    /\ UNCHANGED original

DocumentInit ==
    /\ original \in Originals
    /\ specs = original
    /\ trips = <<>>
    /\ raised = FALSE

DocumentNext == \E format \in Formats : SaveAndLoad(format)

DocumentSpec == DocumentInit /\ [][DocumentNext]_documentVars

-----------------------------------------------------------------------------
(* Properties *)

\* Some data of the task that evaluates a condition or an assignment.
Data == {[x \in {"a", "a/b"} |-> v] : v \in {Num("0"), Num("2"), Text("2"), Text("y")}}

\* However often and in whichever formats a specification was saved, a choice made
\* with a loaded condition is the choice the original condition would have made,
\* although XML loses the types of the arguments, and it raises when that would
\* have raised.  (Not so for Match, whose regular expression is lost.)
ConditionsKept ==
    \A s \in DOMAIN specs : \A i \in DOMAIN specs[s].conds : \A data \in Data :
        specs[s].conds[i].op # "Match" =>
            Matches(data, specs[s].conds[i]) = Matches(data, original[s].conds[i])

\* What the engine reads of an attribute: a number of instances through int(),
\* and whether there is a default output.
Read(o, f) ==
    IF f = "times" /\ ~Term(o.fields[f]) THEN Num(o.fields[f].text)
    ELSE IF f = "default_task_spec" /\ o.fields[f] = Text("") THEN Nothing
    ELSE o.fields[f]

\* The attributes that are known not to survive: the triggers that are queued, in
\* a dictionary; the parameters of a Merge or a ThreadMerge there; in XML the
\* success flag of a Cancel, and a number as a threshold, which a Join cannot
\* compare any more; the path of the file of a SubWorkflow, which grows every time
\* if it is relative.
Lost(o, f) ==
    \/ f = "queued" \/ f = "cancel_successfully"
    \/ o.kind \in {"Merge", "ThreadMerge"} /\ f \in {"threshold", "cancel_remaining"}
    \/ f = "threshold" /\ o.fields[f].type = "int"
    \/ o.fields[f].type = "relative"

\* Every other attribute a loaded specification runs by is the one it was built
\* with, after any number of trips in any formats; so is the assignment, unless
\* its right side is false, an attribute or a path (XML loses these beside the name
\* of an attribute), and the whole of it if XML was not involved.
AttributesKept ==
    \A s \in DOMAIN specs :
        /\ \A f \in DOMAIN specs[s].fields :
              Lost(original[s], f) \/ Read(specs[s], f) = Read(original[s], f)
        /\ \/ original[s].assign.right \notin Falsy /\ ~Term(original[s].assign.right)
           \/ original[s].assign.attribute = Nothing
           =>
              \A data \in Data : Assigned(data, specs[s].assign).text
                                     = Assigned(data, original[s].assign).text
        /\ (\A i \in DOMAIN trips : trips[i] # "xml") =>
              /\ specs[s].kind = original[s].kind /\ specs[s].data = original[s].data
              /\ specs[s].manual = original[s].manual /\ specs[s].assign = original[s].assign

\* What a format loses it loses at once: a specification that has been through it
\* comes back from it unchanged ever after, and is not refused the second time
\* (but for a Match, which loses one argument each time, for relative paths, and for
\* the assignment of a term, which XML makes an empty text and then nothing).
LossHappensOnce ==
    [][(/\ \E i \in DOMAIN trips : trips[i] = trips'[Len(trips')]
        /\ \A s \in DOMAIN specs :
              /\ \A k \in DOMAIN specs[s].conds : specs[s].conds[k].op # "Match"
              /\ \A f \in DOMAIN specs[s].fields : specs[s].fields[f].type # "relative"
              /\ ~Term(original[s].assign.right))
       => specs' = specs /\ ~raised']_documentVars
=============================================================================
