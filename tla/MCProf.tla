------------------------------- MODULE MCProf -------------------------------
(***************************************************************************)
(* Environments for checking Prof: any mode, from either place, together   *)
(* with any other setting that has any string from either place.           *)
(***************************************************************************)
EXTENDS Prof

Text(t) == [text |-> t, number |-> 0, whole |-> FALSE]
Number(n) == [text |-> "number", number |-> n, whole |-> TRUE]

ModeStrings == {Text("sampling"), Text("func"), Text("opcode"), Text("bad"), Text("")}

OutputStrings == {Text("console"), Text("callgrind"), Text("pprof"), Text("bad"), Text("")}

NumberStrings == {Text(""), [Number(500) EXCEPT !.whole = FALSE], Number(-1), Number(0),
                  Number(99), Number(100), Number(1000000), Number(3000000)}

Optional(strings) == {{}} \cup {{v} : v \in strings}   \* one of them, or none

Given(mode, name, value) ==
  [n \in (IF mode = {} THEN {} ELSE {"mode"}) \cup (IF value = {} THEN {} ELSE {name}) |->
     CHOOSE v \in IF n = "mode" THEN mode ELSE value : TRUE]

EnvironmentsOf(names, strings) ==
  {[sapi |-> sapi, ini |-> Given(m, name, v), env |-> Given(n, name, w)] :
     sapi \in {"cli", "fpm"}, name \in names,
     m \in Optional(ModeStrings), v \in Optional(strings),
     n \in Optional({Text("func"), Text("")}), w \in Optional(strings)}

MCEnvironments ==
  EnvironmentsOf(Numbers, NumberStrings) \cup EnvironmentsOf({"output_mode"}, OutputStrings)
=============================================================================
