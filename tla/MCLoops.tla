------------------------------ MODULE MCLoops ------------------------------
(***************************************************************************)
(* The loop tasks that TLC checks: up to three instances.                  *)
(***************************************************************************)
EXTENDS MultiInstance

Limited ==
    [mode : {"standard"}, size : 0..3, limited : {TRUE}, input : {"count"}, output : {"data"},
     item : {"none"}, none : {0}, condition : BOOLEAN, first : BOOLEAN]

Unlimited ==
    [mode : {"standard"}, size : {0}, limited : {FALSE}, input : {"count"}, output : {"data"},
     item : {"none"}, none : {0}, condition : {TRUE}, first : BOOLEAN]

Multiple ==
    [mode : {"sequential", "parallel"}, size : 0..3, limited : {TRUE},
     input : {"count", "list", "map", "set"}, output : {"data", "new", "list", "map", "place"},
     item : {"none"}, none : {0}, condition : BOOLEAN, first : {FALSE}]

\* With an item that is named, or that exists; with the wrong input or output.
WithItems ==
    {[l EXCEPT !.item = i] : l \in {m \in Multiple : m.size \in {0, 2}},
                             i \in {"named", "exists", "result exists"}}
Wrong ==
    {[l EXCEPT !.input = "missing"] : l \in {m \in Multiple : m.size = 2 /\ m.output = "new"}}
    \union {[l EXCEPT !.output = "used"] : l \in {m \in Multiple : m.size = 2 /\ m.output = "list"}}

\* With an item that is None, as the first or between others.
WithNone == {[l EXCEPT !.none = n] : l \in {m \in Multiple : m.input = "list"}, n \in 1..2}

AllLoops == Limited \union Unlimited \union Multiple \union WithItems \union Wrong \union WithNone
=============================================================================
