----------------------------- MODULE ProfHelpers -----------------------------
(***************************************************************************)
(* The helpers that the modes share (src/helpers.c): how the name under    *)
(* which a function is reported is derived from the engine's function.     *)
(*                                                                         *)
(* A zend_function is a record                                             *)
(*   [user     : is it user code, as opposed to a function written in C,   *)
(*    closure  : is ZEND_ACC_CLOSURE set,                                  *)
(*    scope    : its class, or NoName,                                     *)
(*    name     : its function_name, NoName for the code of a file,         *)
(*    filename, line : where it starts].                                   *)
(* A name is a tuple: what is printed between its parts is left out.       *)
(***************************************************************************)

CONSTANT NoName

Main == <<"main">>

(***************************************************************************)
(* The engine's own name of a function, get_function_or_method_name.       *)
(***************************************************************************)
get_function_or_method_name(func) ==
  IF func.name = NoName THEN Main
  ELSE IF func.scope = NoName THEN <<func.name>> ELSE <<func.scope, func.name>>

get_function_name(func) ==
  IF func.closure /\ func.user THEN <<"closure", func.filename, func.line>>
  ELSE IF func.scope # NoName /\ func.name = NoName THEN Main
  ELSE get_function_or_method_name(func)
=============================================================================
