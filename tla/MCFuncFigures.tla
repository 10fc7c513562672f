---------------------------- MODULE MCFuncFigures ----------------------------
(***************************************************************************)
(* Two functions for checking FuncFigures, with a stack that is full at    *)
(* each second call, in integers of six bits.                              *)
(***************************************************************************)
EXTENDS FuncFigures

CONSTANTS f, g

MCNames == {f, g}
=============================================================================
