--------------------------- MODULE OpcodeProfiler ---------------------------
(***************************************************************************)
(* Opcode mode (src/opcode.c, prof.c).  The engine calls                   *)
(* prof_opcode_handler before every opcode.  The handler remembers the     *)
(* file, the line and the time of the last opcode that began a line; an    *)
(* opcode of another line closes that one and records how long it took.    *)
(*                                                                         *)
(* A request may follow another in the same process (the script, after a   *)
(* preload script).  Nothing resets what the handler remembers, and the    *)
(* file name it remembers is a pointer: after the first request it may     *)
(* equal that of any file of the next one, or of none.                     *)
(*                                                                         *)
(* visit, took, executed and unlogged are history: the line that runs      *)
(* since when, what the last completed visit of each line took, the lines  *)
(* that have run in this request, and whether a time that could not be     *)
(* read was remembered without an entry in the log.                        *)
(***************************************************************************)
EXTENDS Integers, FiniteSets, ProfErrors

CONSTANTS
  Files, NULL, Dangling,  \* file names; no file name; one that was freed
  Lines,                  \* file -> the lines that have opcodes
  Faults,                 \* what may happen: "clock" (clock_gettime fails),
                          \*   "memory" (the handler hits the memory limit)
  opcode_threshold,       \* prof.opcode_threshold
  MaxTime, MaxRequests    \* bounds of the model

ASSUME OpcodeAssumption ==
  /\ IsFiniteSet(Files) /\ NULL \notin Files /\ Dangling \notin Files
  /\ \A file \in Files : Lines[file] \subseteq Nat \ {0}
  /\ Faults \subseteq {"clock", "memory"}
  /\ opcode_threshold \in Nat /\ MaxTime \in Nat /\ MaxRequests \in Nat

VARIABLES
  now,                 \* the clock, 0 being the value get_time fails with
  phase,               \* "idle", "running", "dead" (PHP did not start), or
                       \*   "lost" (a table of a file is not there)
  requests,            \* requests started
  opcode_last_file, opcode_last_lineno, opcode_last_time,
  opcode_timings,      \* file -> line -> time, for what was recorded
  visit, took, executed, unlogged,
  printed              \* the last report

lastVars == <<opcode_last_file, opcode_last_lineno, opcode_last_time>>
visits == <<visit, took, executed>>
history == <<visits, unlogged>>
vars == <<now, phase, requests, lastVars, opcode_timings, errors, history, printed>>

Nothing == [x \in {} |-> 0]
NoVisit == [file |-> NULL, line |-> 0, since |-> 0]
NoReport == [kind |-> "none", rows |-> Nothing]

Update(table, key, value) ==
  [k \in DOMAIN table \cup {key} |-> IF k = key THEN value ELSE table[k]]

Init ==
  /\ now = 1 /\ phase = "idle" /\ requests = 0
  /\ opcode_last_file = NULL /\ opcode_last_lineno = 0 /\ opcode_last_time = 0
  /\ opcode_timings = Nothing /\ errors = NoErrorTable
  /\ visit = NoVisit /\ took = Nothing /\ executed = {} /\ unlogged = FALSE
  /\ printed = NoReport

Tick ==
  /\ phase = "running" /\ now < MaxTime
  /\ now' = now + 1
  /\ UNCHANGED <<phase, requests, lastVars, opcode_timings, errors, history, printed>>

Rinit ==
  /\ phase = "idle" /\ requests < MaxRequests
  /\ prof_init_errors
  /\ \/ phase' = "dead" /\ "clock" \in Faults /\ UNCHANGED opcode_timings
     \/ phase' = "running" /\ opcode_timings' = Nothing   \* prof_opcode_setup
  /\ opcode_last_file' \in IF opcode_last_file = NULL THEN {NULL}
                           ELSE Files \cup {Dangling}
  /\ requests' = requests + 1
  /\ visit' = NoVisit /\ took' = Nothing /\ executed' = {} /\ unlogged' = FALSE
  /\ printed' = NoReport
  /\ UNCHANGED <<now, opcode_last_lineno, opcode_last_time>>

-----------------------------------------------------------------------------
GetTime == {now} \cup IF "clock" \in Faults THEN {0} ELSE {}

Remember(filename, lineno, time) ==
  /\ opcode_last_file' = filename
  /\ opcode_last_lineno' = lineno
  /\ opcode_last_time' = time

First(filename, lineno) ==
  /\ opcode_last_file = NULL /\ opcode_last_lineno = 0
  /\ \E time \in GetTime :
       /\ Remember(filename, lineno, time)
       /\ IF time = 0 THEN prof_add_warning ELSE UNCHANGED errors
  /\ UNCHANGED opcode_timings

SameLine(filename, lineno) ==
  /\ filename = opcode_last_file /\ lineno = opcode_last_lineno
  /\ UNCHANGED <<lastVars, errors, opcode_timings>>

\* A mutated form: the time goes to the line that is entered.
RecordEntered(filename, lineno, time) ==
  LET lines == IF filename \in DOMAIN opcode_timings
               THEN opcode_timings[filename] ELSE Nothing
  IN  opcode_timings' =
        Update(opcode_timings, filename, Update(lines, lineno, time - opcode_last_time))

(***************************************************************************)
(* The time goes to the line that was left, in the table of the file that  *)
(* was entered.                                                            *)
(***************************************************************************)
Record(filename, lineno, time) ==
  LET lines == IF filename \in DOMAIN opcode_timings
               THEN opcode_timings[filename] ELSE Nothing
  IN  opcode_timings' =
        Update(opcode_timings, filename,
               Update(lines, opcode_last_lineno, time - opcode_last_time))

\* A mutated form: the clock is not checked.
SwitchUnchecked(filename, lineno) ==
  /\ ~ (opcode_last_file = NULL /\ opcode_last_lineno = 0)
  /\ ~ (filename = opcode_last_file /\ lineno = opcode_last_lineno)
  /\ \E end_time \in GetTime :
       Record(filename, lineno, end_time) /\ Remember(filename, lineno, end_time)
  /\ UNCHANGED errors

Switch(filename, lineno) ==
  /\ ~ (opcode_last_file = NULL /\ opcode_last_lineno = 0)
  /\ ~ (filename = opcode_last_file /\ lineno = opcode_last_lineno)
  /\ \E end_time \in GetTime :
       IF end_time = 0
       THEN prof_add_warning /\ UNCHANGED <<lastVars, opcode_timings>>
       ELSE /\ Record(filename, lineno, end_time)
            /\ Remember(filename, lineno, end_time)
            /\ UNCHANGED errors

(***************************************************************************)
(* The engine executes an opcode of a line.                                *)
(***************************************************************************)
Execute(filename, lineno) ==
  /\ phase = "running"
  /\ \/ First(filename, lineno)
     \/ SameLine(filename, lineno)
     \/ Switch(filename, lineno)
  /\ IF visit.file = filename /\ visit.line = lineno THEN UNCHANGED visits
     ELSE /\ visit' = [file |-> filename, line |-> lineno, since |-> now]
          /\ took' = IF visit = NoVisit THEN took
                     ELSE Update(took, <<visit.file, visit.line>>, now - visit.since)
          /\ executed' = executed \cup {<<filename, lineno>>}
  /\ UNCHANGED <<now, phase, requests, unlogged, printed>>

\* A mutated form: the opcode is remembered before its time is recorded.
BailoutRemembered(filename, lineno) ==
  /\ phase = "running" /\ "memory" \in Faults
  /\ ~ (opcode_last_file = NULL /\ opcode_last_lineno = 0)
  /\ Remember(filename, lineno, now)
  /\ UNCHANGED <<now, phase, requests, errors, opcode_timings, history, printed>>

(***************************************************************************)
(* There is no memory for the tables that the time is recorded in: the     *)
(* handler is left, and the opcode is not executed.  The entry of the file *)
(* may have been added by then, and its table not.  The script is over;    *)
(* the code of shutdown functions may follow.                              *)
(***************************************************************************)
Bailout(filename, lineno) ==
  /\ phase = "running" /\ "memory" \in Faults
  /\ ~ (opcode_last_file = NULL /\ opcode_last_lineno = 0)
  /\ ~ (filename = opcode_last_file /\ lineno = opcode_last_lineno)
  /\ \/ UNCHANGED opcode_timings
     \/ /\ filename \notin DOMAIN opcode_timings
        /\ opcode_timings' = Update(opcode_timings, filename, Nothing)
  /\ UNCHANGED <<now, phase, requests, lastVars, errors, history, printed>>

(***************************************************************************)
(* The clock fails before the first opcode, and there is no memory for the *)
(* entry of the log either: the opcode is remembered with the time 0 and   *)
(* is not executed.                                                        *)
(***************************************************************************)
FirstBails(filename, lineno) ==
  /\ phase = "running" /\ {"clock", "memory"} \subseteq Faults
  /\ opcode_last_file = NULL /\ opcode_last_lineno = 0
  /\ Remember(filename, lineno, 0)
  /\ unlogged' = TRUE
  /\ UNCHANGED <<now, phase, requests, errors, opcode_timings, visits, printed>>

-----------------------------------------------------------------------------
(***************************************************************************)
(* PHP_RSHUTDOWN: prof_opcode_print_result, with a row for every time      *)
(* above the threshold, and prof_opcode_teardown.  Both go through the     *)
(* table of every file, whether there is one or not.                       *)
(***************************************************************************)
AboveThreshold(rows) ==
  [x \in {y \in DOMAIN rows : rows[y] > opcode_threshold} |-> rows[x]]

Rows(timings) ==
  [x \in UNION {{file} \X DOMAIN timings[file] : file \in DOMAIN timings} |->
     timings[x[1]][x[2]]]

HalfMade == \E file \in DOMAIN opcode_timings : opcode_timings[file] = Nothing

Rshutdown ==
  /\ phase = "running" /\ phase' = IF HalfMade THEN "lost" ELSE "idle"
  /\ printed' = IF prof_has_errors THEN [NoReport EXCEPT !.kind = "errors"]
                ELSE IF HalfMade THEN NoReport
                ELSE [kind |-> "table", rows |-> AboveThreshold(Rows(opcode_timings))]
  /\ prof_shutdown_errors
  /\ opcode_timings' = Nothing
  /\ UNCHANGED <<now, requests, lastVars, history>>

Next ==
  \/ Tick \/ Rinit \/ Rshutdown
  \/ \E filename \in Files : \E lineno \in Lines[filename] :
       Execute(filename, lineno) \/ Bailout(filename, lineno) \/ FirstBails(filename, lineno)

Spec == Init /\ [][Next]_vars

-----------------------------------------------------------------------------
TypeOK ==
  /\ now \in Nat /\ phase \in {"idle", "running", "dead", "lost"} /\ requests \in Nat
  /\ opcode_last_file \in Files \cup {NULL, Dangling}
  /\ opcode_last_lineno \in Nat /\ opcode_last_time \in Nat
  /\ \A x \in DOMAIN Rows(opcode_timings) : Rows(opcode_timings)[x] \in Nat
  /\ errors \in ErrorsType

(***************************************************************************)
(* In the first request of a process, the table of a script of one file    *)
(* has for each line what its last completed visit took, whichever order   *)
(* the lines run in, however often the clock fails, and also when the      *)
(* handler is left for want of memory (lines 102-109).  That is fatal to   *)
(* the report (line 53) only when there was nothing to report yet.  The    *)
(* exception is a first time that could not be read and left no entry      *)
(* (lines 85-87).                                                          *)
(***************************************************************************)
OneFileIsTrue ==
  requests = 1 /\ Cardinality(Files) = 1 /\ ~ unlogged =>
    /\ printed.kind = "table" => printed.rows = AboveThreshold(took)
    /\ phase = "lost" => took = Nothing \/ printed.kind = "errors"

(***************************************************************************)
(* A line that did not run has no row (readme.md:9: the mode "hooks into   *)
(* every opcode", and readme.md:114-116: a row is a file and a line).      *)
(***************************************************************************)
RowsAreExecuted ==
  printed.kind = "table" => DOMAIN printed.rows \subseteq executed
=============================================================================
