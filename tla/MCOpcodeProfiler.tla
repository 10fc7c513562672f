-------------------------- MODULE MCOpcodeProfiler --------------------------
(***************************************************************************)
(* Files for checking OpcodeProfiler: one of three lines alone, and one of *)
(* two lines that includes another one with a line more.                   *)
(***************************************************************************)
EXTENDS OpcodeProfiler

CONSTANTS file1, file2

OneFile == [f \in {file1} |-> 1..3]
TwoFiles == [f \in {file1, file2} |-> IF f = file1 THEN {1, 2} ELSE {1, 3}]
=============================================================================
