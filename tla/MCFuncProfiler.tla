--------------------------- MODULE MCFuncProfiler ---------------------------
(***************************************************************************)
(* Functions for checking FuncProfiler: the code of a file, a plain        *)
(* function and a closure.  Any of them may call any of them.              *)
(***************************************************************************)
EXTENDS FuncProfiler

CONSTANTS a, file, none

FileCode == [user |-> TRUE, closure |-> FALSE, scope |-> none,
             name |-> none, filename |-> file, line |-> 1]
Plain    == [FileCode EXCEPT !.name = a, !.line = 2]
Closure  == [FileCode EXCEPT !.name = "{closure}", !.closure = TRUE, !.line = 3]

MCFunctions == {FileCode, Plain, Closure}
=============================================================================
