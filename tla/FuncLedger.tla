------------------------------ MODULE FuncLedger ------------------------------
(***************************************************************************)
(* What func mode promises, without saying how: for every function, how    *)
(* often it was called and how much time passed between the start and the  *)
(* end of those same calls; and at the end of a request either exactly     *)
(* those figures are printed, or no figures at all.                        *)
(*                                                                         *)
(* FuncProfiler is shown to implement this module.                         *)
(***************************************************************************)
EXTENDS Integers, SequencesExt, ProfHelpers

CONSTANT Functions

VARIABLES
  now,      \* the clock
  open,     \* the calls in progress, innermost last: [fn, began]
  ledger,   \* name -> what its completed calls took
  printed   \* the last report

vars == <<now, open, ledger, printed>>

LedgerNames == {get_function_name(f) : f \in Functions}

Zero == [n \in LedgerNames |-> [wall |-> 0, calls |-> 0]]

NoReport    == [kind |-> "none",   table |-> Zero]
ErrorReport == [kind |-> "errors", table |-> Zero]

(***************************************************************************)
(* The code of a file is not reported.                                     *)
(***************************************************************************)
Reported(f) == f.name # NoName

Credit(l, call, time) ==
  IF Reported(call.fn)
  THEN [l EXCEPT ![get_function_name(call.fn)] =
          [wall |-> @.wall + (time - call.began), calls |-> @.calls + 1]]
  ELSE l

Init == now = 0 /\ open = << >> /\ ledger = Zero /\ printed = NoReport

Tick == now' = now + 1 /\ UNCHANGED <<open, ledger, printed>>

Begin ==            \* a request starts with a clean ledger
  /\ open = << >>
  /\ ledger' = Zero /\ printed' = NoReport
  /\ UNCHANGED <<now, open>>

Enter(f) ==
  /\ open' = Append(open, [fn |-> f, began |-> now])
  /\ UNCHANGED <<now, ledger, printed>>

Leave ==
  /\ open # << >>
  /\ ledger' = Credit(ledger, Last(open), now)
  /\ open' = Front(open)
  /\ UNCHANGED <<now, printed>>

Abandon ==          \* the engine drops the calls in progress
  /\ open' = << >>
  /\ UNCHANGED <<now, ledger, printed>>

Report ==
  /\ open = << >>
  /\ printed' \in {NoReport, ErrorReport, [kind |-> "table", table |-> ledger]}
  /\ UNCHANGED <<now, open, ledger>>

Next ==
  \/ Tick \/ Begin \/ Leave \/ Abandon \/ Report
  \/ \E f \in Functions : Enter(f)

Spec == Init /\ [][Next]_vars
=============================================================================
