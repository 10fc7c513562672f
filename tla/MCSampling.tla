----------------------------- MODULE MCSampling -----------------------------
(***************************************************************************)
(* Functions for checking Sampling: the code of two files, a function of   *)
(* the first, and a function written in C.                                 *)
(***************************************************************************)
EXTENDS Sampling

CONSTANTS a, c, file1, file2, none

File1 == [user |-> TRUE, closure |-> FALSE, scope |-> none,
          name |-> none, filename |-> file1, line |-> 1]
File2 == [File1 EXCEPT !.filename = file2]
User  == [File1 EXCEPT !.name = a, !.line = 2]
Native == [File1 EXCEPT !.user = FALSE, !.name = c, !.filename = none]

MCFunctions == {File1, File2, User, Native}
=============================================================================
