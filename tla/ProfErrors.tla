----------------------------- MODULE ProfErrors -----------------------------
(***************************************************************************)
(* The error log of one request (src/errors.c).  Code that cannot measure  *)
(* something, or cannot write a result, adds an entry; request shutdown    *)
(* prints either the entries or the profile.                               *)
(*                                                                         *)
(* The table is modelled by whether it is initialised and by the set of    *)
(* levels it holds: the texts of the messages and how often one occurs     *)
(* change nothing but the lines that are printed.                          *)
(***************************************************************************)

VARIABLE errors

ErrorLevels == {"warning", "error"}

ErrorsType == [live : BOOLEAN, levels : SUBSET ErrorLevels]

NoErrorTable == [live |-> FALSE, levels |-> {}]

prof_init_errors == errors' = [live |-> TRUE, levels |-> {}]

prof_shutdown_errors == errors' = NoErrorTable

prof_add_error_message(level) ==
  errors' = [errors EXCEPT !.levels = @ \cup {level}]

prof_add_warning == prof_add_error_message("warning")

prof_add_error == prof_add_error_message("error")

prof_has_errors == errors.levels # {}

(***************************************************************************)
(* What prof_print_errors puts on the output for a log e: one line per     *)
(* error, or a single general line when there are only warnings.           *)
(***************************************************************************)
prof_print_errors(e) ==
  IF "error" \in e.levels THEN "messages"
  ELSE IF e.levels # {} THEN "general" ELSE "nothing"
=============================================================================
