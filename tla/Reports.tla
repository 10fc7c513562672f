------------------------------- MODULE Reports -------------------------------
(***************************************************************************)
(* The report of a request of func or sampling mode (PHP_RSHUTDOWN,        *)
(* prof.c, with an empty error log): the switch over the mode and the      *)
(* output mode leads to the console table (ResultTable) or to one of the   *)
(* writers (ProfileFiles), and what was logged on the way is printed.      *)
(* step is that of the writers; at "table" the console table is built.     *)
(***************************************************************************)
EXTENDS ResultTable, ProfileFiles, ReportOutcome

VARIABLE mode      \* "func" or "sampling"

vars == <<mode, tableVars, filesVars>>

(***************************************************************************)
(* Both modes' units are taken from Tables: the hits of a unit are its     *)
(* wall time in func mode.                                                 *)
(***************************************************************************)
Values(table) ==
  [i \in DOMAIN table |-> [name |-> table[i].name, value |-> table[i].hits]]

Init ==
  /\ mode \in {"func", "sampling"} /\ output_mode \in {"console", "callgrind", "pprof"}
  /\ FilesInit /\ TableInit(Values(collected))
  /\ step = IF ToConsole(mode, output_mode) THEN "table" ELSE "open"
  /\ mode = "sampling" => threshold = sampling_threshold
  /\ mode = "func" => file = "absent"
  /\ step = "open" => limit = CHOOSE l \in Limits : TRUE

-----------------------------------------------------------------------------
(***************************************************************************)
(* Sampling mode prints no table when there was no sample.                 *)
(***************************************************************************)
NoSamples == mode = "sampling" /\ table_step = "sort" /\ units = << >>

BuildTable ==
  /\ step = "table" /\ ~ NoSamples
  /\ TableNext
  /\ UNCHANGED <<mode, filesVars>>

(***************************************************************************)
(* The table is complete, or an allocation has ended RSHUTDOWN.            *)
(***************************************************************************)
TableOver ==
  /\ step = "table"
  /\ \/ table_step = "printed" /\ step' = "errors"
     \/ NoSamples /\ step' = "errors"
     \/ table_step = "bailed" /\ step' = "abandoned"
  /\ UNCHANGED <<mode, tableVars, output_mode, sampling_units, collected, next,
                 written, file, message, errors>>

WriteFile == FilesNext /\ UNCHANGED <<mode, tableVars>>

Next == BuildTable \/ TableOver \/ WriteFile

Spec == Init /\ [][Next]_vars

-----------------------------------------------------------------------------
TypeOK ==
  /\ mode \in {"func", "sampling"} /\ output_mode \in {"console", "callgrind", "pprof"}
  /\ step \in Steps \cup {"table"}
  /\ TableTypeOK /\ FilesTypeOK

(***************************************************************************)
(* Each failure that the writers look at (sampling.c:165-180, 287-319) has *)
(* its message: a request that prints none has stored some of its samples, *)
(* and left neither the file of an earlier one, nor an empty one.  That it *)
(* has stored all of them does not hold: nobody looks at the results of    *)
(* fprintf and fclose (sampling.c:153, 159, 320).                          *)
(***************************************************************************)
MissingIsReported ==
  step = "done" /\ ~ ToConsole(mode, output_mode) /\ message = "nothing" =>
    file \in {"complete", "partial"}

(***************************************************************************)
(* A report comes to nothing that Prof does not reckon with: it is shown,  *)
(* or its failure is in the log at the level that the kind of output can   *)
(* have, or it is abandoned; never a file that is missing while the log is *)
(* empty, or a profile together with an entry (prof.c:95-118).             *)
(***************************************************************************)
Outcome ==
  IF step = "abandoned" THEN Abandoned
  ELSE [shown |-> IF ToConsole(mode, output_mode) THEN <<"table">>
                  ELSE IF errors.levels = {} /\ file \in {"complete", "partial"}
                  THEN <<"file">> ELSE << >>,
        levels |-> errors.levels, abandoned |-> FALSE]

OutcomeExpected ==
  step \in {"errors", "abandoned"} => Outcome \in Outcomes(mode, output_mode)
=============================================================================
