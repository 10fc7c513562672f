---------------------------- MODULE SampleLedger ----------------------------
(***************************************************************************)
(* What sampling mode promises on the console, without saying how: each    *)
(* sample is kept, for the function it was due to, or known to be lost     *)
(* when it is raised; and at the end of a request either an error is       *)
(* printed, or the number of samples kept, of which none is added or lost  *)
(* from then on, and below it as many as there are under each name.        *)
(*                                                                         *)
(* Sampling is shown to implement this module.                             *)
(***************************************************************************)
EXTENDS Integers, Functions, ProfHelpers

CONSTANT Functions

VARIABLES
  due,      \* function -> samples due to it
  lost,     \* function -> those that were lost
  report    \* the last report

vars == <<due, lost, report>>

NothingDue == [f \in Functions |-> 0]
NoRows == [n \in {} |-> 0]

NoReport == [kind |-> "none", total |-> 0, rows |-> NoRows]
ErrorReport == [NoReport EXCEPT !.kind = "errors"]

ByName(counts) ==
  [name \in {get_function_name(f) : f \in {g \in Functions : counts[g] > 0}} |->
     SumFunctionOnSet(counts, {f \in Functions : get_function_name(f) = name})]

Kept == [f \in Functions |-> due[f] - lost[f]]

Init == due = NothingDue /\ lost = NothingDue /\ report = NoReport

Begin == due' = NothingDue /\ lost' = NothingDue /\ report' = NoReport

Sample(f) ==
  /\ report = NoReport
  /\ due' = [due EXCEPT ![f] = @ + 1]
  /\ UNCHANGED <<lost, report>>

Lose(f) ==
  /\ report = NoReport
  /\ due' = [due EXCEPT ![f] = @ + 1] /\ lost' = [lost EXCEPT ![f] = @ + 1]
  /\ UNCHANGED report

PrintErrors == report = NoReport /\ report' = ErrorReport /\ UNCHANGED <<due, lost>>

PrintTotal ==
  /\ report = NoReport
  /\ report' = [kind |-> "total", total |-> SumFunction(Kept), rows |-> NoRows]
  /\ UNCHANGED <<due, lost>>

PrintRows ==
  /\ report.kind = "total"
  /\ report' = [report EXCEPT !.kind = "table", !.rows = ByName(Kept)]
  /\ UNCHANGED <<due, lost>>

Next ==
  \/ Begin \/ PrintErrors \/ PrintTotal \/ PrintRows
  \/ \E f \in Functions : Sample(f) \/ Lose(f)

Spec == Init /\ [][Next]_vars
=============================================================================
