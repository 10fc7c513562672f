------------------------------ MODULE MCReports ------------------------------
(***************************************************************************)
(* Tables for checking Reports: up to three units, in any order and with   *)
(* values below, at and above the threshold; one function has the name of  *)
(* a sample type, and one the name of its file.  With a uint32_t of three  *)
(* bits and a memory for four slots there are limits below, at and above   *)
(* the number of functions, one that wraps to a size that is too small,    *)
(* and ones that ask for more than there is.                               *)
(***************************************************************************)
EXTENDS Reports

MCLimits == {1, 2, 3, 4, 5, 7, 9, 10}

MCStrings == {"", "main", "cpu", "a", "b", "samples", "count", "nanoseconds"}

InFile(name) == IF name = "cpu" THEN {"b"} ELSE {"a"}

Units ==
  UNION {[name : {n}, filename : InFile(n), lineno : {1}, hits : 1..3] :
         n \in {"main", "cpu", "a"}}

MCTables ==
  {t \in SeqOf(Units, 3) :
     \A i, j \in DOMAIN t : i # j => t[i].name # t[j].name}
=============================================================================
