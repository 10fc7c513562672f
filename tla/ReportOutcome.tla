---------------------------- MODULE ReportOutcome ----------------------------
(***************************************************************************)
(* What printing a profile may come to (the switch over the mode in        *)
(* PHP_RSHUTDOWN, prof.c): what is shown or written, the levels of what is *)
(* added to the error log, and whether the memory limit abandoned it.      *)
(*                                                                         *)
(* Prof has this in the place of the reports, and Reports is shown to keep *)
(* to it.                                                                  *)
(***************************************************************************)

Shown(what)    == [shown |-> <<what>>, levels |-> {}, abandoned |-> FALSE]
Failed(levels) == [shown |-> << >>, levels |-> levels, abandoned |-> FALSE]
Abandoned      == [shown |-> << >>, levels |-> {}, abandoned |-> TRUE]

(***************************************************************************)
(* Func and opcode mode print to the console, whatever the output mode.    *)
(***************************************************************************)
ToConsole(mode, output_mode) == mode # "sampling" \/ output_mode = "console"

Outcomes(mode, output_mode) ==
  {Abandoned}
  \cup IF ToConsole(mode, output_mode) THEN {Shown("table")}
       ELSE {Shown("file"), Failed({"error"})}
            \cup IF output_mode = "pprof" THEN {Failed({"warning"})} ELSE {}
=============================================================================
