---------------------------- MODULE MCFuncFibers ----------------------------
(***************************************************************************)
(* Functions for checking FuncFibers: the code of a file, and two          *)
(* functions that any fiber may call.                                      *)
(***************************************************************************)
EXTENDS FuncFibers

CONSTANTS a, b, file, none

FileCode == [user |-> TRUE, closure |-> FALSE, scope |-> none,
             name |-> none, filename |-> file, line |-> 1]

MCFunctions == {FileCode, [FileCode EXCEPT !.name = a], [FileCode EXCEPT !.name = b]}
=============================================================================
