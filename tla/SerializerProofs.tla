-------------------------- MODULE SerializerProofs --------------------------
(***************************************************************************)
(* What a specification keeps when it is saved and loaded: proofs, for     *)
(* every specification that can be built and for any number of trips in    *)
(* any formats.  The invariant compares a specification with the original, *)
(* attribute by attribute and condition by condition, and says of every    *)
(* format that it went through that it would now come back unchanged.      *)
(***************************************************************************)
EXTENDS SpecSerializer, SequenceTheorems, TLAPS

\* Loading what was saved, and when it is refused.
Trip(format, o) == IF format = "xml" THEN XmlTaskSpec(o) ELSE DictTaskSpec(o)

\* A loaded attribute is the one it was built with, or stands for it.
SameAttribute(f, v, w) ==
    \/ w = v
    \/ f = "times" /\ w = XmlValue(v)
    \/ f = "default_task_spec" /\ v = Nothing /\ w = Text("")

SameCondition(c, d) ==
    /\ d.op = c.op
    /\ c.op # "Match" =>
          /\ DOMAIN d.args = DOMAIN c.args
          /\ \A k \in DOMAIN c.args : d.args[k] \in {c.args[k], XmlValue(c.args[k])}

SameAssign(a, b) ==
    /\ b.attribute = a.attribute
    /\ \/ b.right = a.right
       \/ a.right \in Falsy /\ b.right = Nothing
       \/ a.right \notin Falsy /\ ~Term(a.right) /\ b.right = Text(a.right.text)
       \/ Term(a.right) /\ a.attribute \notin Falsy /\ b.right \in {Text(""), Nothing}

\* p is what some trips have made of the original o.
Same(o, p) ==
    /\ p.kind = o.kind \/ (o.kind = "Merge" /\ p.kind = "Join")
    /\ DOMAIN p.fields = DOMAIN o.fields
    /\ \A f \in DOMAIN o.fields : Lost(o, f) \/ SameAttribute(f, o.fields[f], p.fields[f])
    /\ SameAssign(o.assign, p.assign)
    /\ DOMAIN p.conds = DOMAIN o.conds
    /\ \A i \in DOMAIN o.conds : SameCondition(o.conds[i], p.conds[i])

\* A spec without those parts of which each trip loses more.
Stable(o) ==
    /\ \A i \in DOMAIN o.conds : o.conds[i].op # "Match"
    /\ \A f \in DOMAIN o.fields : o.fields[f].type # "relative"

Settled(format, o) == Trip(format, o) = o /\ ~Raises(format, o)

DocumentInv ==
    /\ original \in Originals
    /\ specs = [s \in DOMAIN original |-> specs[s]]
    /\ trips \in Seq(Formats)
    /\ \A s \in DOMAIN original :
          /\ IsTaskSpec(original[s]) /\ IsRecord(specs[s]) /\ Same(original[s], specs[s])
          /\ (\A i \in DOMAIN trips : trips[i] # "xml") =>
                /\ specs[s].kind = original[s].kind /\ specs[s].data = original[s].data
                /\ specs[s].manual = original[s].manual /\ specs[s].assign = original[s].assign
          /\ ~raised /\ Stable(specs[s]) /\ ~Term(original[s].assign.right) =>
                \A i \in DOMAIN trips : Settled(trips[i], specs[s])
-----------------------------------------------------------------------------
(* The tables *)

Rare == {"queued", "threshold", "cancel_remaining"}

\* How the attributes of a class are written, and which are read.
FormOK(kind, f) ==
    /\ f \notin DictLoads(kind) =>
          f = "queued" \/ (kind \in {"Merge", "ThreadMerge"} /\ f \in Rare)
    /\ CASE f = "queued"                     -> Forms(kind)[f] = "number"
         [] f = "cancel_successfully"        -> Forms(kind)[f] = "always"
         [] f = "cancel_remaining"           -> Forms(kind)[f] = "flag"
         [] f = "threshold"                  -> Forms(kind)[f] = "given"
         [] f = "split_task"                 -> Forms(kind)[f] = "option"
         [] f = "choice"                     -> Forms(kind)[f] \in {"option", "value"}
         [] f \in {"times", "args", "assigns"} -> Forms(kind)[f] = "value"
         [] f = "context"                    -> Forms(kind)[f] \in {"text", "value"}
         [] f = "file"                       -> Forms(kind)[f] = "path"
         [] f \in {"mutex", "default_task_spec"} -> Forms(kind)[f] = "text"
         [] f = "transforms"                 -> Forms(kind)[f] = "none" /\ kind = "Transform"
         [] OTHER                            -> FALSE

LEMMA FirstForms ==
  ASSUME NEW kind \in DOMAIN XmlFirst, NEW f \in DOMAIN Forms(kind)
  PROVE  FormOK(kind, f)
  <1> USE DEF FormOK, Forms, XmlFirst, DictLoads, DictFirst, TriggerForm, JoinForm,
              ChoiceForm, Rare
  <1>1. CASE kind = "AcquireMutex"
    BY <1>1
  <1>2. CASE kind = "Cancel"
    BY <1>2
  <1>3. CASE kind = "CancelTask"
    BY <1>3
  <1>4. CASE kind = "Choose"
    BY <1>4
  <1>5. CASE kind = "ExclusiveChoice"
    BY <1>5
  <1>6. CASE kind = "Execute"
    BY <1>6
  <1>7. CASE kind = "Gate"
    BY <1>7
  <1>8. CASE kind = "Join"
    BY <1>8
  <1> QED
    BY <1>1, <1>2, <1>3, <1>4, <1>5, <1>6, <1>7, <1>8

LEMMA SecondForms ==
  ASSUME NEW kind \in DOMAIN XmlSecond, NEW f \in DOMAIN Forms(kind)
  PROVE  FormOK(kind, f)
  <1> USE DEF FormOK, Forms, XmlFirst, XmlSecond, DictLoads, DictFirst, DictSecond,
              TriggerForm, JoinForm, Rare
  <1>1. CASE kind = "MultiChoice"
    BY <1>1
  <1>2. CASE kind = "MultiInstance"
    BY <1>2
  <1>3. CASE kind = "ReleaseMutex"
    BY <1>3
  <1>4. CASE kind = "Simple"
    BY <1>4
  <1>5. CASE kind = "StartTask"
    BY <1>5
  <1>6. CASE kind = "SubWorkflow"
    BY <1>6
  <1>7. CASE kind = "ThreadMerge"
    BY <1>7
  <1>8. CASE kind = "ThreadSplit"
    BY <1>8
  <1>9. CASE kind = "ThreadStart"
    BY <1>9
  <1>10. CASE kind = "Merge"
    BY <1>10
  <1>11. CASE kind = "Trigger"
    BY <1>11
  <1>12. CASE kind = "Transform"
    BY <1>12
  <1> QED
    BY <1>1, <1>2, <1>3, <1>4, <1>5, <1>6, <1>7, <1>8, <1>9, <1>10, <1>11, <1>12

LEMMA FormFacts ==
  ASSUME NEW kind \in Classes, NEW f \in DOMAIN Forms(kind)
  PROVE  FormOK(kind, f)
  BY FirstForms, SecondForms DEF Classes

\* A Merge has the attributes of the Join that is made of it.
LEMMA MergeForms ==
  /\ Forms("Merge") = Forms("Join") /\ "Join" \in Classes
  /\ \A f : f \in DictLoads("Join") \/ f \notin {"split_task", "threshold", "cancel_remaining"}
  /\ DOMAIN Forms("Join") = {"split_task", "threshold", "cancel_remaining"}
  BY DEF Forms, XmlFirst, XmlSecond, Classes, DictLoads, DictFirst, JoinForm
-----------------------------------------------------------------------------
(* Values *)

LEMMA TextFacts ==
  /\ \A t : Text(t).text = t /\ Text(t).type = "str" /\ ~Term(Text(t)) /\ Text(t) # Nothing
  /\ \A t : Text(t) \in Falsy => t = ""
  /\ Nothing \in Falsy /\ Text("") \in Falsy
  <1>1. \A t : Text(t).text = t /\ Text(t).type = "str"
    BY DEF Text, Value
  <1>2. Nothing.type = "none" /\ Num("0").type = "int" /\ Flag("False").type = "bool"
    BY DEF Nothing, Num, Flag, Value
  <1>3. \A t : Text(t) # Nothing /\ Text(t) # Num("0") /\ Text(t) # Flag("False")
    BY <1>1, <1>2
  <1>4. \A t : Text(t) \in Falsy => Text(t) = Text("")
    BY <1>3 DEF Falsy
  <1>5. \A t : Text(t) \in Falsy => t = ""
    BY <1>1, <1>4
  <1> QED
    BY <1>1, <1>3, <1>5 DEF Term, Falsy

LEMMA ValueFacts ==
  ASSUME NEW v \in Values
  PROVE  /\ v.text \in Strings /\ v = Value(v.type, v.text)
         /\ v.text = "" => v = Text("")
         /\ v.type = "str" => v = Text(v.text)
         /\ v.type # "relative"
  BY DEF Values, Value, Text

LEMMA TextValue ==
  ASSUME NEW t \in Strings
  PROVE  Text(t) \in Values
  <1>1. Text(t) \in [type : {"none", "str", "int", "bool", "attrib", "path"}, text : Strings]
    BY DEF Text, Value
  <1> QED
    BY <1>1, TextFacts DEF Values

LEMMA Constants ==
  {Nothing, Text(""), Num("0"), Flag("True"), Flag("False")} \subseteq Values
  <1> DEFINE Raw == [type : {"none", "str", "int", "bool", "attrib", "path"}, text : Strings]
  <1>1. Nothing \in Raw /\ Nothing.text # ""
    BY DEF Nothing, Value, Strings
  <1>2. Num("0") \in Raw /\ Num("0").text # "" /\ Num("0").type = "int"
    BY DEF Num, Value, Strings
  <1>3. Flag("True") \in Raw /\ Flag("True").text # "" /\ Flag("True").type = "bool"
    BY DEF Flag, Value, Strings
  <1>4. Flag("False") \in Raw /\ Flag("False").text # "" /\ Flag("False").type = "bool"
    BY DEF Flag, Value, Strings
  <1>5. Text("") \in Values
    BY TextValue DEF Strings
  <1>6. Nothing \in Values
    BY <1>1 DEF Values
  <1>7. Num("0") \in Values
    BY <1>2 DEF Values
  <1>8. Flag("True") \in Values
    BY <1>3 DEF Values
  <1>9. Flag("False") \in Values
    BY <1>4 DEF Values
  <1> QED
    BY <1>5, <1>6, <1>7, <1>8, <1>9

LEMMA XmlValueFacts ==
  ASSUME NEW v \in Values
  PROVE  /\ XmlValue(v) \in Values /\ XmlValue(v).text = v.text
         /\ XmlValue(XmlValue(v)) = XmlValue(v)
         /\ Term(v) => XmlValue(v) = v
         /\ v.type = "str" => XmlValue(v) = v
         /\ ~Term(v) => XmlValue(v) = Text(v.text)
         /\ ~ValueRaises(v) => ~ValueRaises(XmlValue(v))
         /\ v \notin Falsy => XmlValue(v) \notin Falsy /\ v.text # ""
         /\ v.type # "path" => XmlValue(v).type # "path"
  <1>1. v.text = "" => v = Text("")
    BY ValueFacts
  <1>2. v \notin Falsy => v.text # ""
    BY <1>1, TextFacts
  <1>3. CASE Term(v)
    <2>1. XmlValue(v) = v
      BY <1>3 DEF XmlValue
    <2>2. v.type # "str"
      BY <1>3 DEF Term
    <2> QED
      BY <1>2, <1>3, <2>1, <2>2
  <1>4. CASE ~Term(v)
    <2>1. XmlValue(v) = Text(v.text)
      BY <1>4 DEF XmlValue
    <2>2. Text(v.text) \in Values
      BY ValueFacts, TextValue
    <2>3. XmlValue(Text(v.text)) = Text(v.text)
      BY TextFacts DEF XmlValue
    <2>4. v.type = "str" => XmlValue(v) = v
      BY <2>1, ValueFacts
    <2>5. ~ValueRaises(v) => ~ValueRaises(Text(v.text))
      BY <1>1, TextFacts DEF ValueRaises
    <2>6. v \notin Falsy => Text(v.text) \notin Falsy
      BY <1>2, TextFacts
    <2>7. Text(v.text).text = v.text /\ Text(v.text).type # "path"
      BY TextFacts
    <2> QED
      BY <1>2, <1>4, <2>1, <2>2, <2>3, <2>4, <2>5, <2>6, <2>7
  <1> QED
    BY <1>3, <1>4

\* What the engine makes of it is the same.
LEMMA XmlValueOf ==
  ASSUME NEW v \in Values, NEW data
  PROVE  ValueOf(data, XmlValue(v), Nothing).text = ValueOf(data, v, Nothing).text
  <1>1. CASE v = Nothing
    <2>1. ~Term(v) /\ v.text = "None"
      BY <1>1 DEF Nothing, Value, Term
    <2>2. XmlValue(v) = Text("None")
      BY <2>1, XmlValueFacts
    <2>3. ValueOf(data, Text("None"), Nothing) = Text("None")
      BY TextFacts DEF ValueOf
    <2>4. ValueOf(data, v, Nothing) = v
      BY <1>1 DEF ValueOf
    <2> QED
      BY <2>1, <2>2, <2>3, <2>4, TextFacts
  <1>2. CASE v # Nothing /\ Term(v)
    BY <1>2, XmlValueFacts
  <1>3. CASE v # Nothing /\ ~Term(v)
    <2>1. XmlValue(v) = Text(v.text) /\ ~Term(Text(v.text))
      BY <1>3, XmlValueFacts, TextFacts
    <2> QED
      BY <1>3, <2>1, TextFacts DEF ValueOf
  <1> QED
    BY <1>1, <1>2, <1>3
-----------------------------------------------------------------------------
(* One trip of a task spec *)

Condition == [op : Operators, regex : Strings, args : Seq(Values)]
Assignment == [right : Values, attribute : Values]

LEMMA RecordFacts ==
  ASSUME NEW o, IsRecord(o)
  PROVE  /\ o.kind \in Classes /\ o.manual \in BOOLEAN /\ o.data \in Values
         /\ o.assign \in Assignment
         /\ o.fields = [f \in DOMAIN Forms(o.kind) |-> o.fields[f]]
         /\ DOMAIN o.fields = DOMAIN Forms(o.kind)
         /\ \A f \in DOMAIN o.fields : f # "file" => o.fields[f] \in Values
         /\ o.conds \in Seq(Condition)
         /\ \A i \in DOMAIN o.conds : o.conds[i] \in Condition
         /\ o = [kind |-> o.kind, manual |-> o.manual, data |-> o.data, assign |-> o.assign,
                 fields |-> o.fields, conds |-> o.conds]
  <1>1. o.conds \in Seq(Condition)
    BY DEF IsRecord, Condition
  <1>2. \A i \in DOMAIN o.conds : o.conds[i] \in Condition
    BY <1>1
  <1>3. o.fields = [f \in DOMAIN Forms(o.kind) |-> o.fields[f]]
    BY DEF IsRecord
  <1>4. DOMAIN o.fields = DOMAIN Forms(o.kind)
    BY <1>3
  <1>5. o.kind \in Classes /\ o.manual \in BOOLEAN /\ o.data \in Values /\ o.assign \in Assignment
    BY DEF IsRecord, Assignment
  <1>6. o = [kind |-> o.kind, manual |-> o.manual, data |-> o.data, assign |-> o.assign,
             fields |-> o.fields, conds |-> o.conds]
    BY DEF IsRecord
  <1> QED
    BY <1>1, <1>2, <1>3, <1>4, <1>5, <1>6 DEF IsRecord

\* A record that has the parts of a task spec is one.
LEMMA RecordFrom ==
  ASSUME NEW k \in Classes, NEW m \in BOOLEAN, NEW d \in Values, NEW a \in Assignment,
         NEW g, g = [f \in DOMAIN Forms(k) |-> g[f]],
         \A f \in DOMAIN Forms(k) : f # "file" => g[f] \in Values,
         NEW c \in Seq(Condition)
  PROVE  IsRecord([kind |-> k, manual |-> m, data |-> d, assign |-> a, fields |-> g, conds |-> c])
  <1> DEFINE o == [kind |-> k, manual |-> m, data |-> d, assign |-> a, fields |-> g, conds |-> c]
  <1>1. o.kind = k /\ o.fields = g
    OBVIOUS
  <1>2. DOMAIN g = DOMAIN Forms(k)
    OBVIOUS
  <1>3. o \in [kind : Classes, manual : BOOLEAN, data : Values, assign : Assignment,
               fields : {g}, conds : Seq(Condition)]
    OBVIOUS
  <1> HIDE DEF o
  <1>4. o \in [kind : Classes, manual : BOOLEAN, data : Values,
               assign : [right : Values, attribute : Values],
               fields : {[f \in DOMAIN Forms(o.kind) |-> o.fields[f]]},
               conds : Seq([op : Operators, regex : Strings, args : Seq(Values)])]
    BY <1>1, <1>3 DEF Assignment, Condition
  <1>5. IsRecord(o)
    BY <1>1, <1>2, <1>4 DEF IsRecord
  <1> QED
    BY <1>5 DEF o

LEMMA ConditionFacts ==
  ASSUME NEW c \in Condition
  PROVE  /\ c.op \in Operators /\ c.regex \in Strings /\ c.args \in Seq(Values)
         /\ c = [op |-> c.op, regex |-> c.regex, args |-> c.args]
         /\ \A k \in DOMAIN c.args : c.args[k] \in Values
  <1>1. c.op \in Operators /\ c.regex \in Strings /\ c.args \in Seq(Values)
    BY DEF Condition
  <1> QED
    BY <1>1 DEF Condition

\* Arguments that may be values of a condition, before and after a trip.
LEMMA LoadedCondition ==
  ASSUME NEW c \in Condition, NEW args \in Seq(Values), ~OperatorRaises(c.op, args)
  PROVE  /\ LoadedOperator(c.op, c.regex, args) \in Condition
         /\ LoadedOperator(c.op, c.regex, args).op = c.op
         /\ c.op # "Match" =>
              LoadedOperator(c.op, c.regex, args) = [op |-> c.op, regex |-> c.regex, args |-> args]
  <1>1. CASE c.op # "Match"
    BY <1>1, ConditionFacts DEF LoadedOperator, Condition
  <1>2. CASE c.op = "Match"
    <2>1. Len(args) >= 2
      BY <1>2, LenProperties DEF OperatorRaises
    <2>2. args # << >>
      BY <2>1
    <2>3. Head(args) \in Values /\ Tail(args) \in Seq(Values)
      BY <2>2, HeadTailProperties
    <2>4. Head(args).text \in Strings
      BY <2>3, ValueFacts
    <2> QED
      BY <1>2, <2>3, <2>4, ConditionFacts DEF LoadedOperator, Condition
  <1> QED
    BY <1>1, <1>2

\* A condition before and after a trip.
LEMMA XmlArgsFacts ==
  ASSUME NEW c \in Condition
  PROVE  /\ XmlArgs(c) \in Seq(Values) /\ DOMAIN XmlArgs(c) = DOMAIN c.args
         /\ \A k \in DOMAIN c.args : XmlArgs(c)[k] = XmlValue(c.args[k])
         /\ (\A k \in DOMAIN c.args : XmlValue(c.args[k]) = c.args[k]) <=> XmlArgs(c) = c.args
  <1>1. c.args \in Seq(Values) /\ \A k \in DOMAIN c.args : c.args[k] \in Values
    BY ConditionFacts
  <1>2. DOMAIN c.args = 1..Len(c.args) /\ Len(c.args) \in Nat
    BY <1>1, LenProperties
  <1>3. \A k \in DOMAIN c.args : XmlValue(c.args[k]) \in Values
    BY <1>1, XmlValueFacts
  <1>4. XmlArgs(c) = [k \in 1..Len(c.args) |-> XmlValue(c.args[k])]
    BY <1>2 DEF XmlArgs
  <1>5. XmlArgs(c) \in Seq(Values)
    BY <1>2, <1>3, <1>4, IsASeq
  <1>6. c.args = [k \in 1..Len(c.args) |-> c.args[k]]
    BY <1>1, <1>2
  <1> QED
    BY <1>2, <1>4, <1>5, <1>6

LEMMA TripCondition ==
  ASSUME NEW c \in Condition, NEW format \in Formats,
         NEW args, args = (IF format = "xml" THEN XmlArgs(c) ELSE c.args),
         NEW d, d = LoadedOperator(c.op, c.regex, args), ~OperatorRaises(c.op, args)
  PROVE  /\ d \in Condition /\ d.op = c.op
         /\ c.op # "Match" => /\ d.args = args /\ d.regex = c.regex /\ DOMAIN d.args = DOMAIN c.args
                             /\ \A k \in DOMAIN c.args : d.args[k] \in {c.args[k], XmlValue(c.args[k])}
  <1>1. args \in Seq(Values) /\ DOMAIN args = DOMAIN c.args
    BY XmlArgsFacts, ConditionFacts
  <1>2. \A k \in DOMAIN c.args : args[k] \in {c.args[k], XmlValue(c.args[k])}
    BY XmlArgsFacts
  <1>3. d \in Condition /\ d.op = c.op
    BY <1>1, LoadedCondition
  <1>4. c.op # "Match" => d = [op |-> c.op, regex |-> c.regex, args |-> args]
    BY <1>1, LoadedCondition
  <1>5. c.op # "Match" => d.args = args /\ d.regex = c.regex
    BY <1>4
  <1> QED
    BY <1>1, <1>2, <1>3, <1>5
-----------------------------------------------------------------------------
(* Attributes *)

Optional == {"threshold", "split_task", "choice"}
Textual  == {"mutex", "context", "default_task_spec"}
Valued   == {"times", "args", "assigns"}
Copied   == {"queued", "cancel_remaining"}

OptionMade(form, v, w) ==
    w = IF (form = "option" /\ v \in Falsy) \/ (form = "given" /\ v = Nothing)
        THEN Nothing ELSE XmlValue(v)

TextMade(form, v, w) ==
    w = IF form # "value" /\ v = Nothing THEN Text("") ELSE XmlValue(v)

\* What XML makes of an attribute.
XmlMade(form, f, v, w) ==
    /\ f = "file" => w = Located(v)
    /\ f = "cancel_successfully" => w = Flag("True")
    /\ f \in Copied => w = v
    /\ f \in Optional => form \in {"option", "given", "value"} /\ OptionMade(form, v, w)
    /\ f \in Textual => TextMade(form, v, w)
    /\ f \in Valued => form = "value" /\ w = XmlValue(v)
    /\ f = "transforms" => w = XmlValue(v)
    /\ f \in {"file", "cancel_successfully", "transforms"} \union Copied \union Optional
             \union Textual \union Valued
    /\ form = "value" => f \in Optional \union Textual \union Valued /\ f # "threshold"

LEMMA XmlFieldIs ==
  ASSUME NEW p, IsRecord(p), NEW f \in DOMAIN p.fields
  PROVE  XmlMade(Form(p, f), f, p.fields[f], XmlField(p, f))
  <1> DEFINE v == p.fields[f]
             form == Form(p, f)
             w == XmlField(p, f)
  <1>1. w = CASE form = "path" -> Located(v)
              [] form = "always" -> Flag("True")
              [] form \in {"flag", "number"} -> v
              [] form = "option" /\ v \in Falsy -> Nothing
              [] form = "given" /\ v = Nothing -> Nothing
              [] form = "text" /\ v = Nothing -> Text("")
              [] OTHER -> XmlValue(v)
    BY DEF XmlField
  <1>2. FormOK(p.kind, f) /\ Forms(p.kind)[f] = form
    BY FormFacts, RecordFacts DEF Form
  <1> HIDE DEF v, form, w
  <1>3. f = "file" => w = Located(v)
    BY <1>1, <1>2 DEF FormOK
  <1>4. f = "cancel_successfully" => w = Flag("True")
    BY <1>1, <1>2 DEF FormOK
  <1>5. f \in Copied => w = v
    BY <1>1, <1>2 DEF FormOK, Copied
  <1>6. ASSUME f \in Optional
        PROVE  form \in {"option", "given", "value"} /\ OptionMade(form, v, w)
    <2>1. form \in {"option", "given", "value"}
      BY <1>2, <1>6 DEF FormOK, Optional
    <2> QED
      BY <1>1, <2>1 DEF OptionMade
  <1>7. ASSUME f \in Textual PROVE TextMade(form, v, w)
    <2>1. form \in {"text", "value"}
      BY <1>2, <1>7 DEF FormOK, Textual
    <2> QED
      BY <1>1, <2>1 DEF TextMade
  <1>8. f \in Valued => form = "value" /\ w = XmlValue(v)
    BY <1>1, <1>2 DEF FormOK, Valued
  <1>9. f = "transforms" => w = XmlValue(v)
    BY <1>1, <1>2 DEF FormOK
  <1>10. f \in {"file", "cancel_successfully", "transforms"} \union Copied \union Optional
                 \union Textual \union Valued
    BY <1>2 DEF FormOK, Copied, Optional, Textual, Valued
  <1>11. form = "value" => f \in Optional \union Textual \union Valued /\ f # "threshold"
    BY <1>2 DEF FormOK, Optional, Textual, Valued
  <1>12. XmlMade(form, f, v, w)
    BY <1>3, <1>4, <1>5, <1>6, <1>7, <1>8, <1>9, <1>10, <1>11 DEF XmlMade
  <1> QED
    BY <1>12 DEF v, form, w

\* It makes a value of a value, and the same of what it has made.
LEMMA XmlFieldValue ==
  ASSUME NEW p, IsRecord(p), NEW f \in DOMAIN p.fields, f # "file"
  PROVE  XmlField(p, f) \in Values
  <1>1. p.fields[f] \in Values
    BY RecordFacts
  <1>2. XmlValue(p.fields[f]) \in Values
    BY <1>1, XmlValueFacts
  <1>3. XmlMade(Form(p, f), f, p.fields[f], XmlField(p, f))
    BY XmlFieldIs
  <1> QED
    BY <1>1, <1>2, <1>3, Constants DEF XmlMade, OptionMade, TextMade

LEMMA XmlMadeTwice ==
  ASSUME NEW form, NEW f, NEW v, NEW w, NEW x, XmlMade(form, f, v, w), XmlMade(form, f, w, x),
         f # "file" => v \in Values, f = "file" => w.type # "relative",
         form = "value" => ~ValueRaises(v)
  PROVE  /\ x = w
         /\ form = "value" => ~ValueRaises(w)
  <1>1. CASE f = "file"
    BY <1>1 DEF XmlMade, Located, Optional, Textual, Valued
  <1>2. CASE f \in Copied \union {"cancel_successfully"}
    BY <1>2 DEF XmlMade, Copied, Optional, Textual, Valued
  <1>3. CASE f \notin Copied \union {"cancel_successfully", "file"}
    <2>1. /\ XmlValue(XmlValue(v)) = XmlValue(v)
          /\ v \notin Falsy => XmlValue(v) \notin Falsy
          /\ ~ValueRaises(v) => ~ValueRaises(XmlValue(v))
      BY <1>3, XmlValueFacts
    <2>2. XmlValue(Text("")) = Text("") /\ Nothing \in Falsy /\ Text("") # Nothing
      BY TextFacts DEF XmlValue
    <2>3. ~ValueRaises(v) => v # Nothing
      BY DEF ValueRaises
    <2>4. XmlValue(v) = Nothing => v = Nothing
      BY TextFacts DEF XmlValue
    <2>5. CASE f \in Optional
      BY <2>1, <2>2, <2>5 DEF XmlMade, OptionMade
    <2>6. CASE f \in Textual
      BY <2>1, <2>2, <2>3, <2>4, <2>6 DEF XmlMade, TextMade
    <2>7. CASE f \in Valued \union {"transforms"}
      BY <2>1, <2>7 DEF XmlMade
    <2> QED
      BY <1>3, <2>5, <2>6, <2>7 DEF XmlMade
  <1> QED
    BY <1>1, <1>2, <1>3

\* The types of the attributes of what can be built.
LEMMA BuiltTypes ==
  ASSUME NEW o, IsTaskSpec(o), NEW f \in DOMAIN o.fields
  PROVE  LET v == o.fields[f] IN
         /\ f \in {"mutex", "context"} => v.type = "str"
         /\ f \in {"choice", "split_task"} => v.type \in {"none", "str"} /\ v.text # ""
         /\ f = "default_task_spec" => v.type \in {"none", "str"}
         /\ f = "args" => v.type \in {"none", "str", "attrib", "path"}
         /\ f = "assigns" => v.type = "attrib"
         /\ f = "threshold" => v.type \in {"none", "int", "attrib", "path"}
  <1>1. /\ o.fields[f].type \in FieldTypes[f]
        /\ f \in {"choice", "split_task"} => o.fields[f].text # ""
    BY DEF IsTaskSpec
  <1>2. /\ FieldTypes["mutex"] = {"str"} /\ FieldTypes["context"] = {"str"}
        /\ FieldTypes["assigns"] = {"attrib"}
    BY DEF FieldTypes
  <1>3. /\ FieldTypes["choice"] = {"none", "str"} /\ FieldTypes["split_task"] = {"none", "str"}
        /\ FieldTypes["default_task_spec"] = {"none", "str"}
        /\ FieldTypes["args"] = {"none", "str", "attrib", "path"}
        /\ FieldTypes["threshold"] = {"none", "int", "attrib", "path"}
    BY DEF FieldTypes
  <1> QED
    BY <1>1, <1>2, <1>3

\* A text is written as it is, and so is an attribute or a path.
LEMMA Untouched ==
  ASSUME NEW v \in Values
  PROVE  /\ v.type \in {"str", "attrib", "path"} => XmlValue(v) = v
         /\ v.type = "none" => v = Nothing
         /\ v.type \in {"attrib", "path"} => v \notin Falsy
         /\ v.type = "str" /\ v.text # "" => v \notin Falsy
         /\ v.type = "str" => v # Nothing
  <1>1. v.type \in {"str", "attrib", "path"} => XmlValue(v) = v
    BY XmlValueFacts DEF Term
  <1>2. v.type = "none" => v = Nothing
    BY DEF Values
  <1>3. \A u \in Falsy : u.type \notin {"attrib", "path"}
    <2>1. /\ Nothing.type = "none" /\ Text("").type = "str"
          /\ Num("0").type = "int" /\ Flag("False").type = "bool"
      BY DEF Nothing, Text, Num, Flag, Value
    <2> QED
      BY <2>1 DEF Falsy
  <1>4. v.type = "str" /\ v.text # "" => v \notin Falsy
    BY ValueFacts, TextFacts
  <1>5. v.type = "str" => v # Nothing
    BY ValueFacts, TextFacts
  <1> QED
    BY <1>1, <1>2, <1>3, <1>4, <1>5

\* What XML makes of a loaded attribute still stands for the original one.
LEMMA XmlKeepsAttribute ==
  ASSUME NEW o, IsTaskSpec(o), NEW f \in DOMAIN o.fields, NEW form, NEW w, NEW x,
         ~Lost(o, f), SameAttribute(f, o.fields[f], w), XmlMade(form, f, w, x),
         form = "value" => ~ValueRaises(w), f # "transforms"
  PROVE  SameAttribute(f, o.fields[f], x)
  <1> DEFINE v == o.fields[f]
  <1>1. f # "file" => v \in Values
    BY RecordFacts DEF IsTaskSpec
  <1>2. v.type # "relative" /\ (f = "threshold" => v.type # "int")
    BY DEF Lost
  <1>3. f \notin {"times", "default_task_spec"} => w = v
    BY DEF SameAttribute
  <1>4. v.type = "none" /\ f # "file" => v = Nothing
    BY <1>1, Untouched
  <1>5. CASE f = "file"
    BY <1>2, <1>3, <1>5 DEF XmlMade, Located, SameAttribute
  <1>6. CASE f \in {"queued", "cancel_successfully"}
    BY <1>6 DEF Lost
  <1>7. CASE f = "cancel_remaining"
    BY <1>3, <1>7 DEF XmlMade, Copied, SameAttribute
  <1>8. CASE f \in {"mutex", "context"}
    <2>1. v.type = "str"
      BY <1>8, BuiltTypes
    <2>2. XmlValue(v) = v /\ v # Nothing
      BY <1>1, <1>8, <2>1, Untouched
    <2> QED
      BY <1>3, <1>8, <2>2 DEF XmlMade, TextMade, Textual, SameAttribute
  <1>9. CASE f \in {"choice", "split_task", "threshold"}
    <2>1. v.type \in {"none", "str", "attrib", "path"} /\ (v.type = "str" => v.text # "")
      BY <1>2, <1>9, BuiltTypes
    <2>2. v = Nothing \/ (XmlValue(v) = v /\ v \notin Falsy)
      BY <1>1, <1>9, <2>1, Untouched
    <2>3. form = "value" => v # Nothing
      BY <1>3, <1>9 DEF ValueRaises
    <2>4. OptionMade(form, v, x) /\ form \in {"option", "given", "value"}
      BY <1>3, <1>9 DEF XmlMade, Optional
    <2> QED
      BY <2>2, <2>3, <2>4, TextFacts DEF OptionMade, SameAttribute
  <1>10. CASE f = "default_task_spec"
    <2>1. v = Nothing \/ (XmlValue(v) = v /\ v # Nothing)
      BY <1>1, <1>10, BuiltTypes, Untouched
    <2>2. XmlValue(Text("")) = Text("") /\ Text("") # Nothing
      BY TextFacts DEF XmlValue
    <2>3. TextMade(form, w, x) /\ w \in {v, Text("")} /\ (w = v \/ v = Nothing)
      BY <1>10 DEF XmlMade, Textual, SameAttribute
    <2>4. form = "value" => w # Nothing
      BY DEF ValueRaises
    <2> QED
      BY <1>10, <2>1, <2>2, <2>3, <2>4 DEF TextMade, SameAttribute
  <1>11. CASE f \in {"args", "assigns"}
    <2>1. form = "value" /\ x = XmlValue(v) /\ v # Nothing
      BY <1>3, <1>11 DEF XmlMade, Valued, ValueRaises
    <2>2. v.type \in {"none", "str", "attrib", "path"}
      BY <1>11, BuiltTypes
    <2>3. XmlValue(v) = v
      BY <1>1, <1>4, <1>11, <2>1, <2>2, Untouched
    <2> QED
      BY <2>1, <2>3 DEF SameAttribute
  <1>12. CASE f = "times"
    <2>1. x = XmlValue(w) /\ w \in {v, XmlValue(v)}
      BY <1>12 DEF XmlMade, Valued, SameAttribute
    <2>2. XmlValue(XmlValue(v)) = XmlValue(v)
      BY <1>1, <1>12, XmlValueFacts
    <2> QED
      BY <1>12, <2>1, <2>2 DEF SameAttribute
  <1> QED
    BY <1>5, <1>6, <1>7, <1>8, <1>9, <1>10, <1>11, <1>12
       DEF XmlMade, Copied, Optional, Textual, Valued
-----------------------------------------------------------------------------
(* One trip of a task spec *)

\* What is read from a dictionary.
LEMMA DictFieldFacts ==
  ASSUME NEW p, IsRecord(p), NEW f \in DOMAIN p.fields
  PROVE  LET w == DictField(p, f)
         IN  /\ f # "file" => w \in Values
             /\ f \in DictLoads(p.kind) => w = IF f = "file" THEN Located(p.fields[f])
                                               ELSE p.fields[f]
             /\ f \notin DictLoads(p.kind) =>
                  /\ w = Default(f) /\ f # "file"
                  /\ f = "queued" \/ (p.kind \in {"Merge", "ThreadMerge"} /\ f \in Rare)
  <1>1. FormOK(p.kind, f)
    BY FormFacts, RecordFacts
  <1>2. f \notin DictLoads(p.kind) => /\ f \in Rare /\ f # "file"
                                      /\ f = "queued" \/ p.kind \in {"Merge", "ThreadMerge"}
    BY <1>1 DEF FormOK, Rare
  <1>3. \A r \in Rare : Default(r) \in Values
    BY Constants DEF Rare, Default
  <1>4. f # "file" => p.fields[f] \in Values
    BY RecordFacts
  <1> QED
    BY <1>2, <1>3, <1>4 DEF DictField

\* When a trip is not refused.
LEMMA NotRefused ==
  ASSUME NEW p, IsRecord(p), NEW format \in Formats, ~Raises(format, p)
  PROVE  /\ \A i \in DOMAIN p.conds :
              ~OperatorRaises(p.conds[i].op, IF format = "xml" THEN XmlArgs(p.conds[i])
                                             ELSE p.conds[i].args)
         /\ format = "xml" => ~XmlRaises(p)
  <1>1. CASE format = "xml"
    BY <1>1 DEF Raises, XmlRaises
  <1>2. CASE format = "dict"
    BY <1>2 DEF Raises, DictRaises
  <1>3. CASE format = "json"
    BY <1>3 DEF Raises, DictRaises, JsonRaises
  <1> QED
    BY <1>1, <1>2, <1>3 DEF Formats

TripCond(format, c) == IF format = "xml" THEN XmlCondition(c) ELSE DictCondition(c)
TripField(format, p, f) == IF format = "xml" THEN XmlField(p, f) ELSE DictField(p, f)

LEMMA TripFieldFacts ==
  ASSUME NEW p, IsRecord(p), NEW format, NEW f \in DOMAIN p.fields
  PROVE  f # "file" => TripField(format, p, f) \in Values
  BY XmlFieldValue, DictFieldFacts DEF TripField

LEMMA TripCondFacts ==
  ASSUME NEW p, IsRecord(p), NEW format \in Formats, ~Raises(format, p), NEW i \in DOMAIN p.conds
  PROVE  LET c == p.conds[i]
             d == TripCond(format, c)
         IN  /\ d \in Condition /\ d.op = c.op
             /\ c.op # "Match" =>
                  /\ d.args = IF format = "xml" THEN XmlArgs(c) ELSE c.args
                  /\ d.regex = c.regex /\ DOMAIN d.args = DOMAIN c.args
                  /\ \A k \in DOMAIN c.args : d.args[k] \in {c.args[k], XmlValue(c.args[k])}
  <1> DEFINE c == p.conds[i]
             args == IF format = "xml" THEN XmlArgs(c) ELSE c.args
  <1>1. c \in Condition /\ ~OperatorRaises(c.op, args)
    BY RecordFacts, NotRefused
  <1>2. TripCond(format, c) = LoadedOperator(c.op, c.regex, args)
    BY DEF TripCond, XmlCondition, DictCondition
  <1> QED
    BY <1>1, <1>2, TripCondition

LEMMA XmlAssignFacts ==
  ASSUME NEW a \in Assignment
  PROVE  /\ XmlAssign(a) \in Assignment
         /\ ~Term(a.right) => XmlAssign(XmlAssign(a)) = XmlAssign(a)
         /\ XmlAssign(a).attribute = a.attribute
         /\ XmlAssign(a).right = IF a.right \in Falsy THEN Nothing
                                 ELSE IF Term(a.right) THEN Text("") ELSE Text(a.right.text)
         /\ ~Term(XmlAssign(a).right)
  <1>1. a.right \in Values /\ a.attribute \in Values
    BY DEF Assignment
  <1>2. /\ XmlAssign(a).attribute = a.attribute
        /\ XmlAssign(a).right = IF a.right \in Falsy THEN Nothing
                                ELSE IF Term(a.right) THEN Text("") ELSE Text(a.right.text)
    BY DEF XmlAssign
  <1>3. Text(a.right.text) \in Values /\ Nothing \in Values /\ Text("") \in Values
    BY <1>1, ValueFacts, TextValue, Constants
  <1>4. XmlAssign(a) \in Assignment
    BY <1>1, <1>3 DEF XmlAssign, Assignment
  <1>5. a.right \notin Falsy => a.right.text # ""
    BY <1>1, XmlValueFacts
  <1>6. a.right \notin Falsy => Text(a.right.text) \notin Falsy
    BY <1>5, TextFacts
  <1>11. \A t : ~Term(Text(t)) /\ ~Term(Nothing) /\ Text(t).text = t
    BY DEF Term, Text, Nothing, Value
  <1>7. ASSUME ~Term(a.right) PROVE XmlAssign(XmlAssign(a)).right = XmlAssign(a).right
    BY <1>2, <1>6, <1>7, <1>11, TextFacts DEF XmlAssign
  <1>8. XmlAssign(XmlAssign(a)).attribute = XmlAssign(a).attribute
    BY DEF XmlAssign
  <1>9. \A b : XmlAssign(b) = [right |-> XmlAssign(b).right, attribute |-> XmlAssign(b).attribute]
    BY DEF XmlAssign
  <1>10. ~Term(a.right) => XmlAssign(XmlAssign(a)) = XmlAssign(a)
    BY <1>7, <1>8, <1>9
  <1>12. ~Term(XmlAssign(a).right)
    BY <1>2, <1>11
  <1> QED
    BY <1>2, <1>4, <1>10, <1>12

\* The parts of what was loaded.
LEMMA TripParts ==
  ASSUME NEW p, IsRecord(p), NEW format \in Formats, ~Raises(format, p)
  PROVE  LET q == Trip(format, p)
         IN  /\ q.kind = IF format = "xml" /\ p.kind = "Merge" THEN "Join" ELSE p.kind
             /\ q.manual = IF format = "xml" THEN FALSE ELSE p.manual
             /\ q.data = IF format = "xml" THEN XmlValue(p.data) ELSE p.data
             /\ q.assign = IF format = "xml" THEN XmlAssign(p.assign) ELSE p.assign
             /\ q.fields = [f \in DOMAIN p.fields |-> TripField(format, p, f)]
             /\ q.conds = [i \in DOMAIN p.conds |-> TripCond(format, p.conds[i])]
             /\ Forms(q.kind) = Forms(p.kind)
             /\ IsRecord(q)
  <1> DEFINE q == Trip(format, p)
             k == IF format = "xml" /\ p.kind = "Merge" THEN "Join" ELSE p.kind
             m == IF format = "xml" THEN FALSE ELSE p.manual
             d == IF format = "xml" THEN XmlValue(p.data) ELSE p.data
             a == IF format = "xml" THEN XmlAssign(p.assign) ELSE p.assign
             g == [f \in DOMAIN p.fields |-> TripField(format, p, f)]
             c == [i \in DOMAIN p.conds |-> TripCond(format, p.conds[i])]
             r == [kind |-> k, manual |-> m, data |-> d, assign |-> a, fields |-> g, conds |-> c]
  <1>1. q = r
    <2>1. CASE format = "xml"
      BY <2>1 DEF Trip, XmlTaskSpec, TripField, TripCond
    <2>2. CASE format # "xml"
      <3>1. p = [kind |-> p.kind, manual |-> p.manual, data |-> p.data, assign |-> p.assign,
                 fields |-> p.fields, conds |-> p.conds]
        BY RecordFacts
      <3>2. g = [f \in DOMAIN p.fields |-> DictField(p, f)]
        BY <2>2 DEF TripField
      <3>3. c = [i \in DOMAIN p.conds |-> DictCondition(p.conds[i])]
        BY <2>2 DEF TripCond
      <3>4. q = [p EXCEPT !.fields = g, !.conds = c]
        BY <2>2, <3>2, <3>3 DEF Trip, DictTaskSpec
      <3>5. k = p.kind /\ m = p.manual /\ d = p.data /\ a = p.assign
        BY <2>2
      <3> HIDE DEF g, c, q, k, m, d, a
      <3> QED
        BY <3>1, <3>4, <3>5
    <2> QED
      BY <2>1, <2>2
  <1>2. k \in Classes /\ Forms(k) = Forms(p.kind)
    BY RecordFacts, MergeForms
  <1>3. m \in BOOLEAN /\ d \in Values /\ a \in Assignment
    BY RecordFacts, XmlValueFacts, XmlAssignFacts
  <1>4. /\ g = [f \in DOMAIN Forms(k) |-> g[f]]
        /\ \A f \in DOMAIN Forms(k) : f # "file" => g[f] \in Values
    BY <1>2, RecordFacts, TripFieldFacts
  <1>5. c \in Seq(Condition)
    <2>1. DOMAIN p.conds = 1..Len(p.conds) /\ Len(p.conds) \in Nat
      BY RecordFacts, LenProperties
    <2>2. \A i \in DOMAIN p.conds : TripCond(format, p.conds[i]) \in Condition
      BY TripCondFacts
    <2> QED
      BY <2>1, <2>2, IsASeq
  <1> HIDE DEF q, k, m, d, a, g, c
  <1>6. IsRecord(r)
    BY <1>2, <1>3, <1>4, <1>5, RecordFrom
  <1>7. r.kind = k /\ r.manual = m /\ r.data = d /\ r.assign = a /\ r.fields = g /\ r.conds = c
    OBVIOUS
  <1> HIDE DEF r
  <1> QED
    BY <1>1, <1>2, <1>6, <1>7 DEF q, k, m, d, a, g, c

\* A loaded task spec still stands for the original one.
LEMMA TripSame ==
  ASSUME NEW o, IsTaskSpec(o), NEW p, IsRecord(p), Same(o, p),
         NEW format \in Formats, ~Raises(format, p)
  PROVE  Same(o, Trip(format, p))
  <1> DEFINE q == Trip(format, p)
  <1>1. /\ q.kind = IF format = "xml" /\ p.kind = "Merge" THEN "Join" ELSE p.kind
        /\ q.assign = IF format = "xml" THEN XmlAssign(p.assign) ELSE p.assign
        /\ q.fields = [f \in DOMAIN p.fields |-> TripField(format, p, f)]
        /\ q.conds = [i \in DOMAIN p.conds |-> TripCond(format, p.conds[i])]
    BY TripParts
  <1> HIDE DEF q
  <1>2. q.kind = o.kind \/ (o.kind = "Merge" /\ q.kind = "Join")
    BY <1>1 DEF Same
  <1>3. DOMAIN q.fields = DOMAIN o.fields /\ DOMAIN q.conds = DOMAIN o.conds
    BY <1>1 DEF Same
  <1>4. ASSUME NEW f \in DOMAIN o.fields, ~Lost(o, f)
        PROVE  SameAttribute(f, o.fields[f], q.fields[f])
    <2>1. f \in DOMAIN p.fields /\ SameAttribute(f, o.fields[f], p.fields[f])
      BY <1>4 DEF Same
    <2>2. q.fields[f] = TripField(format, p, f)
      BY <1>1, <2>1
    <2>3. CASE format = "xml"
      <3>1. XmlMade(Form(p, f), f, p.fields[f], q.fields[f])
        BY <2>1, <2>2, <2>3, XmlFieldIs DEF TripField
      <3>2. Form(p, f) = "value" => ~ValueRaises(p.fields[f])
        BY <2>1, <2>3, NotRefused DEF XmlRaises
      <3>3. p.kind # "Transform"
        BY <2>3, NotRefused DEF XmlRaises
      <3>4. f # "transforms"
        <4>1. FormOK(p.kind, f)
          BY <2>1, FormFacts, RecordFacts
        <4>2. SUFFICES ASSUME f = "transforms" PROVE FALSE
          OBVIOUS
        <4> QED
          BY <3>3, <4>1, <4>2 DEF FormOK
      <3> QED
        BY <1>4, <2>1, <3>1, <3>2, <3>4, XmlKeepsAttribute
    <2>4. CASE format # "xml"
      <3>1. q.fields[f] = DictField(p, f)
        BY <2>2, <2>4 DEF TripField
      <3>2. f \in DictLoads(p.kind)
        <4>1. SUFFICES ASSUME f \notin DictLoads(p.kind) PROVE FALSE
          OBVIOUS
        <4>2. f = "queued" \/ (p.kind \in {"Merge", "ThreadMerge"} /\ f \in Rare)
          BY <2>1, <4>1, DictFieldFacts
        <4>3. p.kind \in {"Merge", "ThreadMerge"} => o.kind = p.kind
          BY DEF Same
        <4> QED
          BY <1>4, <4>2, <4>3 DEF Lost, Rare
      <3>3. q.fields[f] = IF f = "file" THEN Located(p.fields[f]) ELSE p.fields[f]
        BY <2>1, <3>1, <3>2, DictFieldFacts
      <3>4. CASE f = "file"
        <4>1. p.fields[f] = o.fields[f] /\ o.fields[f].type # "relative"
          BY <1>4, <2>1, <3>4 DEF SameAttribute, Lost
        <4> QED
          BY <3>3, <3>4, <4>1 DEF Located, SameAttribute
      <3> QED
        BY <2>1, <3>3, <3>4
    <2> QED
      BY <2>3, <2>4
  <1>5. SameAssign(o.assign, q.assign)
    <2> DEFINE a == o.assign
               b == p.assign
    <2>1. SameAssign(a, b) /\ a \in Assignment /\ b \in Assignment
      BY RecordFacts DEF Same, IsTaskSpec
    <2>2. CASE format # "xml"
      BY <1>1, <2>1, <2>2
    <2>3. CASE format = "xml"
      <3>1. /\ q.assign.attribute = b.attribute
            /\ q.assign.right = IF b.right \in Falsy THEN Nothing
                                ELSE IF Term(b.right) THEN Text("") ELSE Text(b.right.text)
        BY <1>1, <2>1, <2>3, XmlAssignFacts
      <3>6. q.assign.right \in Falsy => a.attribute \notin Falsy
        <4>1. ~AssignRaises(b) /\ q.assign.right = XmlAssign(b).right
          BY <1>1, <2>3, NotRefused DEF XmlRaises
        <4> QED
          BY <2>1, <4>1 DEF AssignRaises, SameAssign
      <3>2. a.right \notin Falsy => a.right.text # ""
        BY <2>1, XmlValueFacts DEF Assignment
      <3>3. a.right \notin Falsy => Text(a.right.text) \notin Falsy
        BY <3>2, TextFacts
      <3>4. /\ Nothing \in Falsy /\ Text("") \in Falsy
            /\ Text(a.right.text).text = a.right.text /\ ~Term(Text(a.right.text))
        BY TextFacts
      <3> HIDE DEF a, b
      <3>7. ASSUME b.right = a.right PROVE SameAssign(a, q.assign)
        BY <2>1, <3>1, <3>4, <3>6, <3>7 DEF SameAssign
      <3>8. ASSUME b.right # a.right PROVE SameAssign(a, q.assign)
        BY <2>1, <3>1, <3>3, <3>4, <3>8 DEF SameAssign
      <3>5. SameAssign(a, q.assign)
        BY <3>7, <3>8
      <3> QED
        BY <3>5 DEF a
    <2> QED
      BY <2>2, <2>3
  <1>6. ASSUME NEW i \in DOMAIN o.conds
        PROVE  SameCondition(o.conds[i], q.conds[i])
    <2> DEFINE c == o.conds[i]
               d == p.conds[i]
               e == q.conds[i]
    <2>1. i \in DOMAIN p.conds /\ SameCondition(c, d)
      BY DEF Same
    <2>2. c \in Condition
      BY RecordFacts DEF IsTaskSpec
    <2>3. e = TripCond(format, d)
      BY <1>1, <2>1
    <2>4. /\ e.op = d.op
          /\ d.op # "Match" =>
               /\ DOMAIN e.args = DOMAIN d.args
               /\ \A k \in DOMAIN d.args : e.args[k] \in {d.args[k], XmlValue(d.args[k])}
      BY <2>1, <2>3, TripCondFacts
    <2>5. \A k \in DOMAIN c.args : XmlValue(XmlValue(c.args[k])) = XmlValue(c.args[k])
      BY <2>2, ConditionFacts, XmlValueFacts
    <2> HIDE DEF c, d, e
    <2>6. SameCondition(c, e)
      BY <2>1, <2>4, <2>5 DEF SameCondition
    <2> QED
      BY <2>6 DEF c, e
  <1>7. Same(o, q)
    BY <1>2, <1>3, <1>4, <1>5, <1>6 DEF Same
  <1> QED
    BY <1>7 DEF q
-----------------------------------------------------------------------------
(* The second time *)

\* When a trip of a spec without those parts is not refused.
LEMMA Accepted ==
  ASSUME NEW p, IsRecord(p), Stable(p), NEW format \in Formats,
         format = "json" /\ "args" \in DOMAIN p.fields => p.fields["args"].type # "path",
         format = "xml" =>
           /\ p.kind # "Transform" /\ ~ValueRaises(p.data) /\ ~AssignRaises(p.assign)
           /\ \A f \in DOMAIN p.fields : Form(p, f) = "value" => ~ValueRaises(p.fields[f])
           /\ \A i \in DOMAIN p.conds : \A k \in DOMAIN p.conds[i].args :
                 ~ValueRaises(p.conds[i].args[k])
  PROVE  ~Raises(format, p)
  <1>1. \A i \in DOMAIN p.conds : \A args : ~OperatorRaises(p.conds[i].op, args)
    BY DEF Stable, OperatorRaises
  <1>2. ~DictRaises(p)
    BY <1>1 DEF DictRaises
  <1>3. CASE format = "xml"
    BY <1>1, <1>3 DEF Raises, XmlRaises
  <1>4. CASE format = "dict"
    BY <1>2, <1>4 DEF Raises
  <1>5. CASE format = "json"
    BY <1>2, <1>5 DEF Raises, JsonRaises
  <1> QED
    BY <1>3, <1>4, <1>5 DEF Formats

\* When it makes no difference.
LEMMA Fixed ==
  ASSUME NEW p, IsRecord(p), Stable(p), NEW format \in Formats, ~Raises(format, p),
         \A f \in DOMAIN p.fields : TripField(format, p, f) = p.fields[f],
         format = "xml" =>
           /\ p.kind # "Merge" /\ p.manual = FALSE
           /\ XmlValue(p.data) = p.data /\ XmlAssign(p.assign) = p.assign
           /\ \A i \in DOMAIN p.conds : XmlArgs(p.conds[i]) = p.conds[i].args
  PROVE  Settled(format, p)
  <1> DEFINE q == Trip(format, p)
  <1>0. /\ q.kind = IF format = "xml" /\ p.kind = "Merge" THEN "Join" ELSE p.kind
        /\ q.manual = IF format = "xml" THEN FALSE ELSE p.manual
        /\ q.data = IF format = "xml" THEN XmlValue(p.data) ELSE p.data
        /\ q.assign = IF format = "xml" THEN XmlAssign(p.assign) ELSE p.assign
        /\ q.fields = [f \in DOMAIN p.fields |-> TripField(format, p, f)]
        /\ q.conds = [i \in DOMAIN p.conds |-> TripCond(format, p.conds[i])]
        /\ IsRecord(q)
    BY TripParts
  <1> HIDE DEF q
  <1>1. /\ q.kind = p.kind /\ q.manual = p.manual /\ q.data = p.data /\ q.assign = p.assign
        /\ q.fields = [f \in DOMAIN p.fields |-> p.fields[f]]
        /\ q.conds = [i \in DOMAIN p.conds |-> TripCond(format, p.conds[i])]
        /\ IsRecord(q)
    BY <1>0
  <1>2. q.fields = p.fields
    BY <1>1, RecordFacts
  <1>3. ASSUME NEW i \in DOMAIN p.conds PROVE TripCond(format, p.conds[i]) = p.conds[i]
    <2> DEFINE c == p.conds[i]
               d == TripCond(format, c)
    <2>1. d \in Condition /\ d.op = c.op /\ c \in Condition
      BY TripCondFacts, RecordFacts
    <2>2. d.regex = c.regex /\ d.args = IF format = "xml" THEN XmlArgs(c) ELSE c.args
      BY TripCondFacts DEF Stable
    <2>3. d.args = c.args
      BY <2>2
    <2> HIDE DEF c, d
    <2>4. d = c
      BY <2>1, <2>2, <2>3, ConditionFacts
    <2> QED
      BY <2>4 DEF c, d
  <1>4. q.conds = p.conds
    <2>1. DOMAIN p.conds = 1..Len(p.conds) /\ p.conds = [i \in DOMAIN p.conds |-> p.conds[i]]
      BY RecordFacts, LenProperties
    <2> QED
      BY <1>1, <1>3, <2>1
  <1>5. q = p
    <2>1. q = [kind |-> q.kind, manual |-> q.manual, data |-> q.data, assign |-> q.assign,
               fields |-> q.fields, conds |-> q.conds]
      BY <1>1, RecordFacts
    <2>2. p = [kind |-> p.kind, manual |-> p.manual, data |-> p.data, assign |-> p.assign,
               fields |-> p.fields, conds |-> p.conds]
      BY RecordFacts
    <2> QED
      BY <1>1, <1>2, <1>4, <2>1, <2>2
  <1> QED
    BY <1>5 DEF Settled, q

\* The parts of a settled spec.
LEMMA SettledParts ==
  ASSUME NEW p, IsRecord(p), NEW format \in Formats, Settled(format, p)
  PROVE  /\ \A f \in DOMAIN p.fields : TripField(format, p, f) = p.fields[f]
         /\ format = "json" /\ "args" \in DOMAIN p.fields => p.fields["args"].type # "path"
         /\ format = "xml" =>
              /\ p.kind # "Merge" /\ p.kind # "Transform" /\ p.manual = FALSE
              /\ XmlValue(p.data) = p.data /\ XmlAssign(p.assign) = p.assign
              /\ ~ValueRaises(p.data) /\ ~AssignRaises(p.assign)
              /\ \A f \in DOMAIN p.fields : Form(p, f) = "value" => ~ValueRaises(p.fields[f])
              /\ \A i \in DOMAIN p.conds : \A k \in DOMAIN p.conds[i].args :
                    ~ValueRaises(p.conds[i].args[k])
  <1>1. ~Raises(format, p) /\ Trip(format, p) = p
    BY DEF Settled
  <1> DEFINE q == Trip(format, p)
  <1>0. /\ q.kind = IF format = "xml" /\ p.kind = "Merge" THEN "Join" ELSE p.kind
        /\ q.manual = IF format = "xml" THEN FALSE ELSE p.manual
        /\ q.data = IF format = "xml" THEN XmlValue(p.data) ELSE p.data
        /\ q.assign = IF format = "xml" THEN XmlAssign(p.assign) ELSE p.assign
        /\ q.fields = [f \in DOMAIN p.fields |-> TripField(format, p, f)]
    BY <1>1, TripParts
  <1>6. q = p
    BY <1>1
  <1> HIDE DEF q
  <1>2. \A f \in DOMAIN p.fields : p.fields[f] = TripField(format, p, f)
    BY <1>0, <1>6
  <1>3. format = "xml" => /\ p.kind # "Merge" /\ p.manual = FALSE
                          /\ p.data = XmlValue(p.data) /\ p.assign = XmlAssign(p.assign)
    BY <1>0, <1>6
  <1>4. format = "xml" => ~XmlRaises(p)
    BY <1>1, NotRefused
  <1>5. format = "json" => ~JsonRaises(p)
    BY <1>1 DEF Raises
  <1> QED
    BY <1>2, <1>3, <1>4, <1>5 DEF XmlRaises, JsonRaises

\* What was loaded comes back unchanged from the format it was loaded from.
LEMMA SettledOnce ==
  ASSUME NEW p, IsRecord(p), NEW format \in Formats, ~Raises(format, p), ~Term(p.assign.right),
         NEW q, q = Trip(format, p), Stable(q)
  PROVE  Settled(format, q)
  <1>1. /\ q.kind = IF format = "xml" /\ p.kind = "Merge" THEN "Join" ELSE p.kind
        /\ q.manual = IF format = "xml" THEN FALSE ELSE p.manual
        /\ q.data = IF format = "xml" THEN XmlValue(p.data) ELSE p.data
        /\ q.assign = IF format = "xml" THEN XmlAssign(p.assign) ELSE p.assign
        /\ q.fields = [f \in DOMAIN p.fields |-> TripField(format, p, f)]
        /\ q.conds = [i \in DOMAIN p.conds |-> TripCond(format, p.conds[i])]
        /\ Forms(q.kind) = Forms(p.kind) /\ IsRecord(q)
    BY TripParts
  <1>2. DOMAIN q.fields = DOMAIN p.fields /\ DOMAIN q.conds = DOMAIN p.conds
    BY <1>1
  <1>3. CASE format # "xml"
    <2>1. \A f \in DOMAIN p.fields : q.fields[f] = DictField(p, f) /\ q.kind = p.kind
      BY <1>1, <1>3 DEF TripField
    <2>2. ASSUME NEW f \in DOMAIN p.fields PROVE DictField(q, f) = q.fields[f]
      <3>1. CASE f \in DictLoads(p.kind)
        <4>1. q.fields[f] = IF f = "file" THEN Located(p.fields[f]) ELSE p.fields[f]
          BY <2>1, <3>1, DictFieldFacts
        <4>2. q.fields[f].type # "relative"
          BY <1>2 DEF Stable
        <4> QED
          BY <2>1, <3>1, <4>1, <4>2 DEF DictField, Located
      <3>2. CASE f \notin DictLoads(p.kind)
        BY <2>1, <3>2 DEF DictField
      <3> QED
        BY <3>1, <3>2
    <2>3. format = "json" /\ "args" \in DOMAIN p.fields => q.fields["args"] = p.fields["args"]
      BY <2>1, DictFieldFacts DEF Rare
    <2>4. format = "json" /\ "args" \in DOMAIN p.fields => p.fields["args"].type # "path"
      BY DEF Raises, JsonRaises
    <2>5. ~Raises(format, q)
      BY <1>1, <1>2, <1>3, <2>3, <2>4, Accepted
    <2> QED
      BY <1>1, <1>2, <1>3, <2>2, <2>5, Fixed DEF TripField
  <1>4. CASE format = "xml"
    <2>1. ~XmlRaises(p)
      BY <1>4, NotRefused
    <2>2. /\ XmlValue(q.data) = q.data /\ ~ValueRaises(q.data)
          /\ XmlAssign(q.assign) = q.assign /\ ~AssignRaises(q.assign)
      <3>1. p.data \in Values /\ p.assign \in Assignment
        BY RecordFacts
      <3>2. ~ValueRaises(p.data) /\ ~AssignRaises(p.assign)
        BY <2>1 DEF XmlRaises
      <3>3. q.data = XmlValue(p.data) /\ q.assign = XmlAssign(p.assign)
        BY <1>1, <1>4
      <3>4. XmlAssign(q.assign) = q.assign /\ q.assign.attribute = p.assign.attribute
        BY <3>1, <3>3, XmlAssignFacts
      <3>5. ~AssignRaises(q.assign)
        BY <3>2, <3>3, <3>4 DEF AssignRaises
      <3> QED
        BY <3>1, <3>2, <3>3, <3>4, <3>5, XmlValueFacts
    <2>3. ASSUME NEW f \in DOMAIN p.fields
          PROVE  /\ XmlField(q, f) = q.fields[f]
                 /\ Form(q, f) = "value" => ~ValueRaises(q.fields[f])
      <3>1. Form(q, f) = Form(p, f) /\ q.fields[f] = XmlField(p, f)
        BY <1>1, <1>4 DEF Form, TripField
      <3>2. XmlMade(Form(p, f), f, p.fields[f], q.fields[f])
        BY <3>1, XmlFieldIs
      <3>3. XmlMade(Form(p, f), f, q.fields[f], XmlField(q, f))
        BY <1>1, <1>2, <3>1, XmlFieldIs
      <3>4. Form(p, f) = "value" => ~ValueRaises(p.fields[f])
        BY <2>1 DEF XmlRaises
      <3>5. f # "file" => p.fields[f] \in Values
        BY RecordFacts
      <3>6. q.fields[f].type # "relative"
        BY <1>2 DEF Stable
      <3> QED
        BY <3>1, <3>2, <3>3, <3>4, <3>5, <3>6, XmlMadeTwice
    <2>4. ASSUME NEW i \in DOMAIN p.conds
          PROVE  /\ XmlArgs(q.conds[i]) = q.conds[i].args
                 /\ \A k \in DOMAIN q.conds[i].args : ~ValueRaises(q.conds[i].args[k])
      <3> DEFINE c == p.conds[i]
                 d == q.conds[i]
      <3>1. c \in Condition /\ d \in Condition /\ d = TripCond(format, c)
        BY <1>1, <1>2, RecordFacts
      <3>2. d.op = c.op /\ d.op # "Match"
        BY <1>2, <3>1, TripCondFacts DEF Stable
      <3>3. d.args = XmlArgs(c)
        BY <1>4, <3>1, <3>2, TripCondFacts
      <3>4. \A k \in DOMAIN c.args : ~ValueRaises(c.args[k])
        BY <2>1 DEF XmlRaises
      <3>5. \A k \in DOMAIN c.args : c.args[k] \in Values
        BY <3>1, ConditionFacts
      <3> HIDE DEF c, d
      <3>6. /\ DOMAIN d.args = DOMAIN c.args
            /\ \A k \in DOMAIN c.args : d.args[k] = XmlValue(c.args[k])
        BY <3>1, <3>3, XmlArgsFacts
      <3>7. \A k \in DOMAIN d.args : XmlValue(d.args[k]) = d.args[k] /\ ~ValueRaises(d.args[k])
        BY <3>4, <3>5, <3>6, XmlValueFacts
      <3>8. XmlArgs(d) = d.args
        BY <3>1, <3>7, XmlArgsFacts
      <3> QED
        BY <3>7, <3>8 DEF d
    <2>5. q.kind # "Merge" /\ q.kind # "Transform" /\ q.manual = FALSE
      BY <1>1, <1>4, <2>1 DEF XmlRaises
    <2>6. ~Raises(format, q)
      BY <1>1, <1>2, <1>4, <2>2, <2>3, <2>4, <2>5, Accepted
    <2> QED
      BY <1>1, <1>2, <1>4, <2>2, <2>3, <2>4, <2>5, <2>6, Fixed DEF TripField
  <1> QED
    BY <1>3, <1>4

\* And still does after trips in the other formats.
LEMMA SettledKept ==
  ASSUME NEW p, IsRecord(p), NEW old \in Formats, Settled(old, p),
         NEW format \in Formats, ~Raises(format, p),
         NEW q, q = Trip(format, p), Stable(q)
  PROVE  Settled(old, q)
  <1>1. /\ q.kind = IF format = "xml" /\ p.kind = "Merge" THEN "Join" ELSE p.kind
        /\ q.manual = IF format = "xml" THEN FALSE ELSE p.manual
        /\ q.data = IF format = "xml" THEN XmlValue(p.data) ELSE p.data
        /\ q.assign = IF format = "xml" THEN XmlAssign(p.assign) ELSE p.assign
        /\ q.fields = [f \in DOMAIN p.fields |-> TripField(format, p, f)]
        /\ q.conds = [i \in DOMAIN p.conds |-> TripCond(format, p.conds[i])]
        /\ Forms(q.kind) = Forms(p.kind) /\ IsRecord(q)
    BY TripParts
  <1>2. DOMAIN q.fields = DOMAIN p.fields /\ DOMAIN q.conds = DOMAIN p.conds
    BY <1>1
  <1>3. /\ \A f \in DOMAIN p.fields : TripField(old, p, f) = p.fields[f]
        /\ old = "json" /\ "args" \in DOMAIN p.fields => p.fields["args"].type # "path"
    BY SettledParts
  <1>4. \A i \in DOMAIN p.conds :
          /\ p.conds[i].op # "Match" /\ p.conds[i] \in Condition /\ q.conds[i] \in Condition
          /\ q.conds[i] = TripCond(format, p.conds[i])
          /\ q.conds[i].args = IF format = "xml" THEN XmlArgs(p.conds[i]) ELSE p.conds[i].args
    <2> TAKE i \in DOMAIN p.conds
    <2>1. p.conds[i] \in Condition /\ q.conds[i] = TripCond(format, p.conds[i])
      BY <1>1, RecordFacts
    <2>2. q.conds[i].op = p.conds[i].op /\ q.conds[i] \in Condition
      BY <2>1, TripCondFacts
    <2>3. p.conds[i].op # "Match"
      BY <1>2, <2>2 DEF Stable
    <2> QED
      BY <2>1, <2>2, <2>3, TripCondFacts
  <1>5. CASE (format = "xml") <=> (old = "xml")
    <2>1. q = p
      BY <1>5 DEF Settled, Trip
    <2> QED
      BY <2>1
  <1>6. CASE format = "xml" /\ old # "xml"
    <2>1. ASSUME NEW f \in DOMAIN p.fields
          PROVE  /\ XmlMade(Form(p, f), f, p.fields[f], q.fields[f])
                 /\ DictField(q, f) = q.fields[f]
      <3>1. q.fields[f] = XmlField(p, f)
        BY <1>1, <1>6 DEF TripField
      <3>2. XmlMade(Form(p, f), f, p.fields[f], q.fields[f])
        BY <3>1, XmlFieldIs
      <3>3. CASE f \in DictLoads(q.kind)
        <4>1. q.fields[f].type # "relative"
          BY <1>2 DEF Stable
        <4> QED
          BY <3>2, <3>3, <4>1 DEF DictField, Located
      <3>4. CASE f \notin DictLoads(q.kind)
        <4>1. q.kind # "Join"
          BY <1>1, <1>2, <3>4, MergeForms, RecordFacts
        <4>2. q.kind = p.kind
          BY <1>1, <4>1
        <4>3. p.fields[f] = Default(f) /\ f \in Rare
          BY <1>3, <1>6, <3>4, <4>2, DictFieldFacts DEF TripField, Rare
        <4>4. q.fields[f] = Default(f)
          <5>1. CASE f \in {"queued", "cancel_remaining"}
            BY <3>2, <4>3, <5>1 DEF XmlMade, Copied
          <5>2. CASE f = "threshold"
            <6>1. /\ Form(p, f) \in {"option", "given"}
                  /\ OptionMade(Form(p, f), p.fields[f], q.fields[f])
              BY <3>2, <5>2 DEF XmlMade, Optional
            <6>2. p.fields[f] = Nothing
              BY <4>3, <5>2 DEF Default
            <6> QED
              BY <4>3, <6>1, <6>2, TextFacts DEF OptionMade
          <5> QED
            BY <4>3, <5>1, <5>2 DEF Rare
        <4> QED
          BY <3>2, <3>4, <4>4 DEF DictField
      <3> QED
        BY <3>2, <3>3, <3>4
    <2>2. old = "json" /\ "args" \in DOMAIN p.fields => q.fields["args"].type # "path"
      <3>1. "args" \in DOMAIN p.fields => q.fields["args"] = XmlValue(p.fields["args"])
        BY <2>1 DEF XmlMade, Valued
      <3>2. "args" \in DOMAIN p.fields => p.fields["args"] \in Values
        BY RecordFacts
      <3> QED
        BY <1>3, <3>1, <3>2, XmlValueFacts
    <2>3. ~Raises(old, q)
      BY <1>1, <1>2, <1>6, <2>2, Accepted
    <2> QED
      BY <1>1, <1>2, <1>6, <2>1, <2>3, Fixed DEF TripField
  <1>7. CASE format # "xml" /\ old = "xml"
    <2>1. /\ p.kind # "Merge" /\ p.kind # "Transform" /\ p.manual = FALSE
          /\ XmlValue(p.data) = p.data /\ XmlAssign(p.assign) = p.assign
          /\ ~ValueRaises(p.data) /\ ~AssignRaises(p.assign)
          /\ \A f \in DOMAIN p.fields : Form(p, f) = "value" => ~ValueRaises(p.fields[f])
          /\ \A i \in DOMAIN p.conds : \A k \in DOMAIN p.conds[i].args :
                ~ValueRaises(p.conds[i].args[k])
      BY <1>7, SettledParts
    <2>2. ASSUME NEW f \in DOMAIN p.fields
          PROVE  /\ XmlField(q, f) = q.fields[f]
                 /\ Form(q, f) = "value" => ~ValueRaises(q.fields[f])
      <3>1. q.fields[f] = DictField(p, f) /\ q.kind = p.kind /\ Form(q, f) = Form(p, f)
        BY <1>1, <1>7 DEF TripField, Form
      <3>2. XmlField(p, f) = p.fields[f]
        BY <1>3, <1>7 DEF TripField
      <3>3. XmlMade(Form(p, f), f, p.fields[f], p.fields[f])
        BY <3>2, XmlFieldIs
      <3>4. XmlMade(Form(p, f), f, q.fields[f], XmlField(q, f))
        BY <1>1, <1>2, <3>1, XmlFieldIs
      <3>5. CASE f \in DictLoads(p.kind)
        <4>1. q.fields[f] = p.fields[f]
          <5>1. CASE f = "file"
            BY <3>1, <3>3, <3>5, <5>1, DictFieldFacts DEF XmlMade
          <5>2. CASE f # "file"
            BY <3>1, <3>5, <5>2, DictFieldFacts
          <5> QED
            BY <5>1, <5>2
        <4>2. XmlField(q, f) = XmlField(p, f)
          BY <3>1, <4>1 DEF XmlField
        <4> QED
          BY <2>1, <3>1, <3>2, <4>1, <4>2
      <3>6. CASE f \notin DictLoads(p.kind)
        <4>1. q.fields[f] = Default(f) /\ f \in Rare
          BY <3>1, <3>6, DictFieldFacts DEF Rare
        <4>2. CASE f \in {"queued", "cancel_remaining"}
          BY <3>1, <3>4, <4>2 DEF XmlMade, Copied, Optional, Textual, Valued
        <4>3. CASE f = "threshold"
          <5>1. /\ Form(p, f) \in {"option", "given"}
                /\ OptionMade(Form(p, f), q.fields[f], XmlField(q, f))
            BY <3>4, <4>3 DEF XmlMade, Optional
          <5>2. q.fields[f] = Nothing
            BY <4>1, <4>3 DEF Default
          <5> QED
            BY <3>1, <5>1, <5>2, TextFacts DEF OptionMade
        <4> QED
          BY <4>1, <4>2, <4>3 DEF Rare
      <3> QED
        BY <3>5, <3>6
    <2>3. \A i \in DOMAIN p.conds : q.conds[i].args = p.conds[i].args
      BY <1>4, <1>7
    <2>4. ASSUME NEW i \in DOMAIN p.conds PROVE XmlArgs(q.conds[i]) = q.conds[i].args
      <3>1. Trip(old, p) = p /\ ~Raises(old, p)
        BY DEF Settled
      <3> DEFINE r == Trip(old, p)
      <3>2. r.conds = [j \in DOMAIN p.conds |-> TripCond(old, p.conds[j])]
        BY <3>1, TripParts
      <3>3. r = p
        BY <3>1
      <3> HIDE DEF r
      <3>4. p.conds[i] = TripCond(old, p.conds[i])
        BY <3>2, <3>3
      <3>5. XmlArgs(p.conds[i]) = p.conds[i].args
        BY <1>4, <1>7, <3>1, <3>4, TripCondFacts
      <3> QED
        BY <2>3, <3>5 DEF XmlArgs
    <2>5. \A i \in DOMAIN q.conds : \A k \in DOMAIN q.conds[i].args :
            ~ValueRaises(q.conds[i].args[k])
      BY <1>2, <2>1, <2>3
    <2>6. ~Raises(old, q)
      BY <1>1, <1>2, <1>7, <2>1, <2>2, <2>5, Accepted
    <2>7. /\ q.kind # "Merge" /\ q.manual = FALSE
          /\ XmlValue(q.data) = q.data /\ XmlAssign(q.assign) = q.assign
      BY <1>1, <1>7, <2>1
    <2>8. \A f \in DOMAIN q.fields : TripField(old, q, f) = q.fields[f]
      BY <1>2, <1>7, <2>2 DEF TripField
    <2>9. \A i \in DOMAIN q.conds : XmlArgs(q.conds[i]) = q.conds[i].args
      BY <1>2, <2>4
    <2> QED
      BY <1>1, <2>6, <2>7, <2>8, <2>9, Fixed
  <1> QED
    BY <1>5, <1>6, <1>7

\* No trip rids a spec of its unstable parts.
LEMMA StableBefore ==
  ASSUME NEW p, IsRecord(p), NEW format \in Formats, ~Raises(format, p), Stable(Trip(format, p))
  PROVE  Stable(p)
  <1> DEFINE q == Trip(format, p)
  <1>1. /\ q.fields = [f \in DOMAIN p.fields |-> TripField(format, p, f)]
        /\ q.conds = [i \in DOMAIN p.conds |-> TripCond(format, p.conds[i])]
    BY TripParts
  <1>2. Stable(q)
    OBVIOUS
  <1> HIDE DEF q
  <1>3. ASSUME NEW i \in DOMAIN p.conds PROVE p.conds[i].op # "Match"
    <2>1. q.conds[i].op = p.conds[i].op
      BY <1>1, TripCondFacts
    <2>2. i \in DOMAIN q.conds
      BY <1>1
    <2> QED
      BY <1>2, <2>1, <2>2 DEF Stable
  <1>4. ASSUME NEW f \in DOMAIN p.fields PROVE p.fields[f].type # "relative"
    <2>1. CASE f # "file"
      BY <2>1, RecordFacts, ValueFacts
    <2>2. CASE f = "file"
      <3>1. XmlField(p, f) = Located(p.fields[f])
        BY <2>2, XmlFieldIs DEF XmlMade
      <3>2. DictField(p, f) = Located(p.fields[f])
        BY <2>2, DictFieldFacts
      <3>3. q.fields[f] = Located(p.fields[f])
        BY <1>1, <3>1, <3>2 DEF TripField
      <3>4. \A t : RelativePath(t).type = "relative"
        BY DEF RelativePath, Value
      <3> QED
        BY <1>1, <1>2, <3>3, <3>4 DEF Stable, Located
    <2> QED
      BY <2>1, <2>2
  <1> QED
    BY <1>3, <1>4 DEF Stable
-----------------------------------------------------------------------------
(* The invariant *)

LEMMA SameAtFirst ==
  ASSUME NEW o
  PROVE  Same(o, o)
  <1>1. SameAssign(o.assign, o.assign)
    BY DEF SameAssign
  <1>2. \A c : SameCondition(c, c)
    BY DEF SameCondition
  <1>3. \A f : SameAttribute(f, o.fields[f], o.fields[f])
    BY DEF SameAttribute
  <1> QED
    BY <1>1, <1>2, <1>3 DEF Same

LEMMA DocumentInitially == DocumentInit => DocumentInv
  <1> SUFFICES ASSUME DocumentInit PROVE DocumentInv
    OBVIOUS
  <1>1. original \in Originals /\ specs = original /\ trips = <<>>
    BY DEF DocumentInit
  <1>2. /\ original = [s \in DOMAIN original |-> original[s]]
        /\ \A s \in DOMAIN original : IsTaskSpec(original[s])
    BY <1>1, OriginalsAssumption
  <1>3. trips \in Seq(Formats) /\ DOMAIN trips = {}
    BY <1>1
  <1>4. \A s \in DOMAIN original : IsRecord(original[s]) /\ Same(original[s], original[s])
    BY <1>2, SameAtFirst DEF IsTaskSpec
  <1> QED
    BY <1>1, <1>2, <1>3, <1>4 DEF DocumentInv

\* The formats that were used, and the task specs that were loaded.
LEMMA TripStep ==
  ASSUME DocumentInv, NEW format \in Formats, SaveAndLoad(format)
  PROVE  /\ ~raised /\ original' = original /\ trips' \in Seq(Formats)
         /\ trips'[Len(trips')] = format
         /\ \E i \in DOMAIN trips' : trips'[i] = format
         /\ \A i \in DOMAIN trips' : \/ trips'[i] = format
                                     \/ i \in DOMAIN trips /\ trips'[i] = trips[i]
         /\ \A i \in DOMAIN trips : i \in DOMAIN trips' /\ trips'[i] = trips[i]
         /\ raised' => specs' = specs
         /\ ~raised' => /\ specs' = [s \in DOMAIN original |-> Trip(format, specs[s])]
                        /\ \A s \in DOMAIN original : ~Raises(format, specs[s])
         /\ (\A s \in DOMAIN original : ~Raises(format, specs[s])) => ~raised'
  <1>1. trips \in Seq(Formats) /\ DOMAIN specs = DOMAIN original
    BY DEF DocumentInv
  <1>2. ~raised /\ original' = original /\ trips' = Append(trips, format)
    BY DEF SaveAndLoad
  <1>3. /\ trips' \in Seq(Formats) /\ Len(trips') = Len(trips) + 1 /\ Len(trips) \in Nat
        /\ \A i \in 1..Len(trips) : trips'[i] = trips[i]
        /\ trips'[Len(trips) + 1] = format
        /\ DOMAIN trips = 1..Len(trips) /\ DOMAIN trips' = 1..(Len(trips) + 1)
    BY <1>1, <1>2
  <1>4. raised' <=> \E s \in DOMAIN original : Raises(format, specs[s])
    BY <1>1 DEF SaveAndLoad
  <1>5. raised' => specs' = specs
    BY DEF SaveAndLoad
  <1>6. ~raised' => specs' = [s \in DOMAIN original |-> Trip(format, specs[s])]
    <2>1. ~raised' => specs' = IF format = "xml" THEN XmlWorkflowSpec(specs)
                               ELSE DictWorkflowSpec(specs)
      BY DEF SaveAndLoad
    <2>2. CASE format = "xml"
      BY <1>1, <2>1, <2>2 DEF XmlWorkflowSpec, Trip
    <2>3. CASE format # "xml"
      BY <1>1, <2>1, <2>3 DEF DictWorkflowSpec, Trip
    <2> QED
      BY <2>2, <2>3
  <1>7. Len(trips) + 1 \in DOMAIN trips'
    BY <1>3
  <1>8. \A i \in DOMAIN trips' : trips'[i] = format \/ (i \in DOMAIN trips /\ trips'[i] = trips[i])
    BY <1>3
  <1>9. \A i \in DOMAIN trips : i \in DOMAIN trips' /\ trips'[i] = trips[i]
    BY <1>3
  <1> QED
    BY <1>2, <1>3, <1>4, <1>5, <1>6, <1>7, <1>8, <1>9

LEMMA DocumentStep == DocumentInv /\ [DocumentNext]_documentVars => DocumentInv'
  <1> SUFFICES ASSUME DocumentInv, [DocumentNext]_documentVars PROVE DocumentInv'
    OBVIOUS
  <1>1. CASE UNCHANGED documentVars
    BY <1>1 DEF DocumentInv, documentVars
  <1>2. ASSUME NEW format \in Formats, SaveAndLoad(format) PROVE DocumentInv'
    <2>1. /\ ~raised /\ original' = original /\ trips' \in Seq(Formats)
          /\ \E i \in DOMAIN trips' : trips'[i] = format
          /\ \A i \in DOMAIN trips' : \/ trips'[i] = format
                                      \/ i \in DOMAIN trips /\ trips'[i] = trips[i]
          /\ \A i \in DOMAIN trips : i \in DOMAIN trips' /\ trips'[i] = trips[i]
          /\ raised' => specs' = specs
          /\ ~raised' => /\ specs' = [s \in DOMAIN original |-> Trip(format, specs[s])]
                         /\ \A s \in DOMAIN original : ~Raises(format, specs[s])
      BY <1>2, TripStep
    <2>2. \A i \in DOMAIN trips : trips[i] \in Formats
      BY DEF DocumentInv
    <2>3. specs' = [s \in DOMAIN original |-> specs'[s]]
      BY <2>1 DEF DocumentInv
    <2>4. ASSUME NEW s \in DOMAIN original
          PROVE  /\ IsTaskSpec(original[s]) /\ IsRecord(specs'[s]) /\ Same(original[s], specs'[s])
                 /\ (\A i \in DOMAIN trips' : trips'[i] # "xml") =>
                      /\ specs'[s].kind = original[s].kind /\ specs'[s].data = original[s].data
                      /\ specs'[s].manual = original[s].manual
                      /\ specs'[s].assign = original[s].assign
                 /\ ~raised' /\ Stable(specs'[s]) /\ ~Term(original[s].assign.right) =>
                      \A i \in DOMAIN trips' : Settled(trips'[i], specs'[s])
      <3> DEFINE o == original[s]
                 p == specs[s]
                 q == specs'[s]
      <3>1. /\ IsTaskSpec(o) /\ IsRecord(p) /\ Same(o, p)
            /\ (\A i \in DOMAIN trips : trips[i] # "xml") =>
                 p.kind = o.kind /\ p.data = o.data /\ p.manual = o.manual /\ p.assign = o.assign
            /\ Stable(p) /\ ~Term(o.assign.right) =>
                 \A i \in DOMAIN trips : Settled(trips[i], p)
        BY <2>1 DEF DocumentInv
      <3>2. (\A i \in DOMAIN trips' : trips'[i] # "xml")
               => format # "xml" /\ \A i \in DOMAIN trips : trips[i] # "xml"
        BY <2>1
      <3>3. CASE raised'
        <4>1. q = p
          BY <2>1, <3>3
        <4> QED
          BY <3>1, <3>2, <3>3, <4>1
      <3>4. CASE ~raised'
        <4>1. q = Trip(format, p) /\ ~Raises(format, p)
          BY <2>1, <3>4
        <4> HIDE DEF o, p, q
        <4>2. IsRecord(q) /\ Same(o, q)
          BY <3>1, <4>1, TripSame, TripParts
        <4>3. format # "xml" => /\ q.kind = p.kind /\ q.data = p.data
                                /\ q.manual = p.manual /\ q.assign = p.assign
          BY <3>1, <4>1, TripParts
        <4>4. ASSUME Stable(q), ~Term(o.assign.right), NEW i \in DOMAIN trips'
              PROVE  Settled(trips'[i], q)
          <5>3. ~Term(p.assign.right)
            <6>1. SameAssign(o.assign, p.assign)
              BY <3>1 DEF Same
            <6>2. ~Term(Nothing) /\ \A t : ~Term(Text(t))
              BY TextFacts DEF Term, Nothing, Value
            <6> QED
              BY <4>4, <6>1, <6>2 DEF SameAssign
          <5>1. CASE trips'[i] = format
            BY <3>1, <4>1, <4>4, <5>1, <5>3, SettledOnce
          <5>2. CASE trips'[i] # format
            <6>1. i \in DOMAIN trips /\ trips'[i] = trips[i] /\ trips[i] \in Formats
              BY <2>1, <2>2, <4>4, <5>2
            <6>2. Stable(p)
              BY <2>1, <3>1, <4>1, <4>4, StableBefore
            <6>3. Settled(trips[i], p)
              BY <3>1, <4>4, <6>1, <6>2
            <6> QED
              BY <3>1, <4>1, <4>4, <6>1, <6>3, SettledKept
          <5> QED
            BY <5>1, <5>2
        <4>5. /\ IsTaskSpec(o) /\ IsRecord(q) /\ Same(o, q)
              /\ (\A i \in DOMAIN trips' : trips'[i] # "xml") =>
                   q.kind = o.kind /\ q.data = o.data /\ q.manual = o.manual /\ q.assign = o.assign
              /\ Stable(q) /\ ~Term(o.assign.right) =>
                   \A i \in DOMAIN trips' : Settled(trips'[i], q)
          BY <3>1, <3>2, <4>2, <4>3, <4>4
        <4> QED
          BY <4>5 DEF o, q
      <3> QED
        BY <3>3, <3>4
    <2> QED
      BY <2>1, <2>3, <2>4 DEF DocumentInv
  <1> QED
    BY <1>1, <1>2 DEF DocumentNext

\* A specification is always one that can be saved, as far as its attributes go, and
\* stands for the one that was built; what it lost, it lost at once.
THEOREM DocumentInvariant == DocumentSpec => []DocumentInv
  <1> QED
    BY DocumentInitially, DocumentStep, PTL DEF DocumentSpec
-----------------------------------------------------------------------------
(* What the properties say *)

LEMMA SameMatches ==
  ASSUME NEW c \in Condition, NEW d, SameCondition(c, d), c.op # "Match", NEW data
  PROVE  Matches(data, d) = Matches(data, c)
  <1> DEFINE vs(e) == [k \in DOMAIN e.args |-> ValueOf(data, e.args[k], Nothing).text]
  <1>1. DOMAIN d.args = DOMAIN c.args /\ d.op = c.op
    BY DEF SameCondition
  <1>2. ASSUME NEW k \in DOMAIN c.args
        PROVE  ValueOf(data, d.args[k], Nothing).text = ValueOf(data, c.args[k], Nothing).text
    <2>1. d.args[k] \in {c.args[k], XmlValue(c.args[k])} /\ c.args[k] \in Values
      BY ConditionFacts DEF SameCondition
    <2> QED
      BY <2>1, XmlValueOf
  <1>3. vs(d) = vs(c)
    BY <1>1, <1>2
  <1> HIDE DEF vs
  <1> DEFINE same(v) == \A i \in DOMAIN v : v[i] = v[1]
             result(op, v, regex) ==
                CASE op = "Equal"    -> <<same(v)>>
                  [] op = "NotEqual" -> <<~same(v)>>
                  [] op \in {"GreaterThan", "LessThan"} ->
                       IF ~IsNumber(v[1]) \/ ~IsNumber(v[2]) THEN <<>>
                       ELSE <<IF op = "LessThan" THEN Number(v[1]) < Number(v[2])
                                                 ELSE Number(v[1]) > Number(v[2])>>
                  [] op = "Match" -> <<\A i \in DOMAIN v : v[i] = regex>>
  <1>4. Matches(data, d) = result(d.op, vs(d), d.regex)
    BY DEF Matches, vs
  <1>5. Matches(data, c) = result(c.op, vs(c), c.regex)
    BY DEF Matches, vs
  <1>6. result(d.op, vs(d), d.regex) = result(c.op, vs(c), c.regex)
    BY <1>1, <1>3
  <1> QED
    BY <1>4, <1>5, <1>6

LEMMA ConditionsFollow == DocumentInv => ConditionsKept
  <1> SUFFICES ASSUME DocumentInv, NEW s \in DOMAIN specs, NEW i \in DOMAIN specs[s].conds,
                      NEW data \in Data, specs[s].conds[i].op # "Match"
               PROVE  Matches(data, specs[s].conds[i]) = Matches(data, original[s].conds[i])
    BY DEF ConditionsKept
  <1>1. s \in DOMAIN original
    BY DEF DocumentInv
  <1>2. Same(original[s], specs[s]) /\ IsRecord(original[s])
    BY <1>1 DEF DocumentInv, IsTaskSpec
  <1>3. i \in DOMAIN original[s].conds /\ SameCondition(original[s].conds[i], specs[s].conds[i])
    BY <1>2 DEF Same
  <1>4. original[s].conds[i] \in Condition /\ original[s].conds[i].op # "Match"
    BY <1>2, <1>3, RecordFacts DEF SameCondition
  <1> QED
    BY <1>3, <1>4, SameMatches

LEMMA AttributesFollow == DocumentInv => AttributesKept
  <1> SUFFICES ASSUME DocumentInv, NEW s \in DOMAIN original
               PROVE  /\ \A f \in DOMAIN specs[s].fields :
                            Lost(original[s], f) \/ Read(specs[s], f) = Read(original[s], f)
                      /\ \/ original[s].assign.right \notin Falsy /\ ~Term(original[s].assign.right)
                         \/ original[s].assign.attribute = Nothing
                         =>
                            \A data \in Data : Assigned(data, specs[s].assign).text
                                                  = Assigned(data, original[s].assign).text
                      /\ (\A i \in DOMAIN trips : trips[i] # "xml") =>
                            /\ specs[s].kind = original[s].kind /\ specs[s].data = original[s].data
                            /\ specs[s].manual = original[s].manual
                            /\ specs[s].assign = original[s].assign
    <2>1. DocumentInv => DOMAIN specs = DOMAIN original
      BY DEF DocumentInv
    <2> QED
      BY <2>1 DEF AttributesKept
  <1> DEFINE o == original[s]
             p == specs[s]
  <1>1. /\ IsTaskSpec(o) /\ IsRecord(o) /\ IsRecord(p) /\ Same(o, p)
        /\ (\A i \in DOMAIN trips : trips[i] # "xml") =>
             p.kind = o.kind /\ p.data = o.data /\ p.manual = o.manual /\ p.assign = o.assign
    BY DEF DocumentInv, IsTaskSpec
  <1> HIDE DEF o, p
  <1>2. ASSUME NEW f \in DOMAIN p.fields, ~Lost(o, f) PROVE Read(p, f) = Read(o, f)
    <2>1. f \in DOMAIN o.fields /\ SameAttribute(f, o.fields[f], p.fields[f])
      BY <1>1, <1>2 DEF Same
    <2>2. CASE p.fields[f] = o.fields[f]
      BY <2>2 DEF Read
    <2>3. CASE f = "times" /\ p.fields[f] = XmlValue(o.fields[f])
      <3>1. o.fields[f] \in Values
        BY <1>1, <2>1, <2>3, RecordFacts
      <3>2. CASE Term(o.fields[f])
        BY <2>3, <3>1, <3>2, XmlValueFacts DEF Read
      <3>3. CASE ~Term(o.fields[f])
        <4> DEFINE t == o.fields[f].text
        <4>1. p.fields[f] = Text(t)
          BY <2>3, <3>1, <3>3, XmlValueFacts
        <4>2. ~Term(Text(t)) /\ Text(t).text = t
          BY TextFacts
        <4>3. Read(p, f) = Num(t)
          BY <2>3, <4>1, <4>2 DEF Read
        <4>4. Read(o, f) = Num(t)
          BY <2>3, <3>3 DEF Read
        <4> QED
          BY <4>3, <4>4
      <3> QED
        BY <3>2, <3>3
    <2>4. CASE f = "default_task_spec" /\ o.fields[f] = Nothing /\ p.fields[f] = Text("")
      BY <2>4, TextFacts DEF Read
    <2> QED
      BY <2>1, <2>2, <2>3, <2>4 DEF SameAttribute
  <1>3. ASSUME (o.assign.right \notin Falsy /\ ~Term(o.assign.right)) \/ o.assign.attribute = Nothing,
               NEW data
        PROVE  Assigned(data, p.assign).text = Assigned(data, o.assign).text
    <2>1. o.assign.right \notin Falsy
      BY <1>1, <1>3, TextFacts DEF IsTaskSpec
    <2>5. Term(o.assign.right) => o.assign.attribute \in Falsy
      BY <1>3, TextFacts
    <2>2. p.assign.right = o.assign.right \/ p.assign.right = Text(o.assign.right.text)
      BY <1>1, <2>1, <2>5 DEF Same, SameAssign
    <2>3. o.assign.right # Nothing /\ p.assign.right # Nothing
      BY <2>1, <2>2, TextFacts
    <2>4. p.assign.right.text = o.assign.right.text
      BY <2>2, TextFacts
    <2> QED
      BY <2>3, <2>4 DEF Assigned
  <1> QED
    BY <1>1, <1>2, <1>3 DEF o, p

\* For every specification that can be built, and however often and in whichever of
\* the three formats it was saved and loaded, a choice is made as its original
\* conditions would have made it.
THEOREM ConditionsAlwaysKept == DocumentSpec => []ConditionsKept
  BY DocumentInvariant, ConditionsFollow, PTL

\* And what the engine reads of its attributes and of its assignment is what it was
\* built with, but for the attributes that are known not to survive.
THEOREM AttributesAlwaysKept == DocumentSpec => []AttributesKept
  BY DocumentInvariant, AttributesFollow, PTL

\* A format that a specification went through makes no difference to it any more,
\* and does not refuse it.
THEOREM LossOnce == DocumentSpec => LossHappensOnce
  <1> DEFINE Before == /\ \E i \in DOMAIN trips : trips[i] = trips'[Len(trips')]
                       /\ \A s \in DOMAIN specs :
                             /\ \A k \in DOMAIN specs[s].conds : specs[s].conds[k].op # "Match"
                             /\ \A f \in DOMAIN specs[s].fields :
                                   specs[s].fields[f].type # "relative"
                             /\ ~Term(original[s].assign.right)
  <1>1. ASSUME DocumentInv, [DocumentNext]_documentVars
        PROVE  [Before => specs' = specs /\ ~raised']_documentVars
    <2> SUFFICES ASSUME NEW format \in Formats, SaveAndLoad(format), Before
                 PROVE  specs' = specs /\ ~raised'
      BY <1>1 DEF DocumentNext
    <2>1. /\ ~raised /\ trips'[Len(trips')] = format
          /\ ~raised' => specs' = [s \in DOMAIN original |-> Trip(format, specs[s])]
          /\ (\A s \in DOMAIN original : ~Raises(format, specs[s])) => ~raised'
      BY <1>1, TripStep
    <2>2. specs = [s \in DOMAIN original |-> specs[s]]
      BY <1>1 DEF DocumentInv
    <2>3. ASSUME NEW s \in DOMAIN original PROVE Settled(format, specs[s])
      <3>1. Stable(specs[s]) /\ ~Term(original[s].assign.right)
        BY <2>2 DEF Stable
      <3>2. PICK i \in DOMAIN trips : trips[i] = format
        BY <2>1
      <3> QED
        BY <1>1, <2>1, <3>1, <3>2 DEF DocumentInv
    <2>4. ~raised' /\ \A s \in DOMAIN original : Trip(format, specs[s]) = specs[s]
      BY <2>1, <2>3 DEF Settled
    <2> QED
      BY <2>1, <2>2, <2>4
  <1> QED
    BY <1>1, DocumentInvariant, PTL DEF DocumentSpec, LossHappensOnce
=============================================================================
