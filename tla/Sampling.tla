------------------------------ MODULE Sampling ------------------------------
(***************************************************************************)
(* Sampling mode with console output (src/sampling.c, prof.c).  A CPU-time *)
(* timer raises SIGPROF every prof.sampling_interval; its handler finds    *)
(* the innermost call of user code and counts a hit for that function.     *)
(*                                                                         *)
(* The process has one thread.  The handler interrupts it between any two  *)
(* of its steps, and returns or is left by a bailout before anything else  *)
(* runs; it is one action, and the set-up and tear-down of the mode are    *)
(* one action per statement that the handler could tell apart.  step says  *)
(* which of them comes next.                                               *)
(*                                                                         *)
(* The engine's side, taken from how the extension uses it:                *)
(*  - current_execute_data is empty while RINIT and RSHUTDOWN run.         *)
(*  - set_time_limit(n) sets the same timer, to expire once, and leaves    *)
(*    the handler as it is.  The engine stops the timer at the end of a    *)
(*    script that has a time limit, and else leaves it alone.              *)
(*  - pcntl_fork leaves the child without the timer; the model goes on     *)
(*    with the child, which has a copy of all the rest.                    *)
(*  - A bailout in RSHUTDOWN skips the rest of it.  One in the handler     *)
(*    ends the calls in progress, after which shutdown functions may run;  *)
(*    where the jump does not restore the signal mask, SIGPROF stays       *)
(*    blocked.                                                             *)
(*  - SIGPROF without a handler, or with one whose module was unloaded,    *)
(*    kills the process.                                                   *)
(*                                                                         *)
(* taken, lost, disturbed and abandoned are history: the SIGPROFs raised   *)
(* while a function was the innermost one of user code, those of them      *)
(* whose handler was left, whether this request has called set_time_limit  *)
(* or pcntl_fork or has lost a sample, and whether an RSHUTDOWN ended      *)
(* early.                                                                  *)
(***************************************************************************)
EXTENDS Integers, SequencesExt, ProfErrors, ProfHelpers

CONSTANTS
  Functions,   \* the functions of the program, records as in ProfHelpers
  Faults,      \* what may happen beside the script running:
               \*   "clock"    clock_gettime fails
               \*   "start"    setitimer fails to start the timer
               \*   "stop"     setitimer fails to stop it
               \*   "name"     a function has no name
               \*   "bailout"  printing or the handler hits the memory limit
               \*   "limit"    the script calls set_time_limit
               \*   "fork"     the script calls pcntl_fork
  MaxDepth, MaxSamples, MaxRequests   \* bounds of the model

ASSUME SamplingAssumption ==
  /\ Faults \subseteq {"clock", "start", "stop", "name", "bailout", "limit", "fork"}
  /\ IsFiniteSet(Functions)
  /\ MaxDepth \in Nat /\ MaxSamples \in Nat /\ MaxRequests \in Nat

VARIABLES
  step,                  \* what the thread does next, see Steps
  current_execute_data,  \* the calls in progress, innermost last
  timer,                 \* "off", "every" or "once"
  handler,               \* is prof_sigprof_handler the handler of SIGPROF
  sampling_enabled,
  sampling_units,        \* name -> [hits, filename], or Freed
  requests,              \* requests started
  taken,                 \* function -> samples due to it
  lost,                  \* function -> those of them whose handler was left
  disturbed, abandoned,    \* see above
  report                 \* what was printed last

modeVars == <<sampling_enabled, sampling_units, errors>>
history == <<taken, lost, disturbed, abandoned>>
cutShort == <<current_execute_data, lost, disturbed>>   \* by a bailout in the handler
vars == <<step, current_execute_data, timer, handler, modeVars, requests,
          history, report>>

Steps == {"idle", "init", "handle", "arm", "running",
          "total", "rows", "shutdown_errors", "disable", "disarm", "free",
          "unloaded", "exited", "killed"}

(***************************************************************************)
(* A table that was destroyed, or not created yet.                         *)
(***************************************************************************)
Freed == [live |-> FALSE, units |-> [n \in {} |-> 0]]
Fresh == [live |-> TRUE, units |-> [n \in {} |-> 0]]

NoReport == [kind |-> "none", total |-> 0, rows |-> [n \in {} |-> 0]]

NothingTaken == [f \in Functions |-> 0]

Sum(counts) == FoldFunction(+, 0, counts)

Hits(units) == [n \in DOMAIN units |-> units[n].hits]

Init ==
  /\ step = "idle" /\ current_execute_data = << >>
  /\ timer = "off" /\ handler = FALSE
  /\ sampling_enabled = FALSE /\ sampling_units = Freed /\ errors = NoErrorTable
  /\ requests = 0 /\ report = NoReport
  /\ taken = NothingTaken /\ lost = NothingTaken
  /\ disturbed = FALSE /\ abandoned = FALSE

-----------------------------------------------------------------------------
(***************************************************************************)
(* RINIT: prof_sampling_setup.                                             *)
(***************************************************************************)
Rinit ==
  /\ step = "idle" /\ requests < MaxRequests
  /\ prof_init_errors
  /\ \/ step' = "exited" /\ "clock" \in Faults /\ UNCHANGED sampling_enabled
     \/ step' = "init" /\ sampling_enabled' = TRUE
  /\ requests' = requests + 1 /\ report' = NoReport
  /\ taken' = NothingTaken /\ lost' = NothingTaken /\ disturbed' = FALSE
  /\ UNCHANGED <<current_execute_data, timer, handler, sampling_units, abandoned>>

InitTable ==
  /\ step = "init" /\ step' = "handle"
  /\ sampling_units' = Fresh
  /\ UNCHANGED <<current_execute_data, timer, handler, sampling_enabled, errors,
                 requests, history, report>>

SetHandler ==
  /\ step = "handle" /\ step' = "arm"
  /\ handler' = TRUE
  /\ UNCHANGED <<current_execute_data, timer, modeVars, requests, history, report>>

StartsOnce ==      \* a mutated form: it_interval is not set
  /\ step = "arm" /\ step' = "running" /\ timer' = "once"
  /\ UNCHANGED <<current_execute_data, handler, modeVars, requests, history, report>>

StartTimer ==
  /\ step = "arm"
  /\ \/ timer' = "every" /\ step' = "running"
     \/ "start" \in Faults /\ step' = "exited" /\ UNCHANGED timer
  /\ UNCHANGED <<current_execute_data, handler, modeVars, requests, history, report>>

-----------------------------------------------------------------------------
(***************************************************************************)
(* The script.  Its outermost call is the code of a file; that of a        *)
(* shutdown function or a destructor is any function.                      *)
(***************************************************************************)
Enter(f) ==
  /\ step = "running" /\ Len(current_execute_data) < MaxDepth
  /\ current_execute_data' = Append(current_execute_data, f)
  /\ UNCHANGED <<step, timer, handler, modeVars, requests, history, report>>

Leave ==
  /\ step = "running" /\ current_execute_data # << >>
  /\ current_execute_data' = Front(current_execute_data)
  /\ UNCHANGED <<step, timer, handler, modeVars, requests, history, report>>

SetTimeLimit ==
  /\ "limit" \in Faults
  /\ step = "running" /\ current_execute_data # << >>
  /\ timer' = "once" /\ disturbed' = TRUE
  /\ UNCHANGED <<step, current_execute_data, handler, modeVars, requests, taken,
                 lost, abandoned, report>>

Fork ==
  /\ "fork" \in Faults
  /\ step = "running" /\ current_execute_data # << >>
  /\ timer' = "off" /\ disturbed' = TRUE
  /\ UNCHANGED <<step, current_execute_data, handler, modeVars, requests, taken,
                 lost, abandoned, report>>

(***************************************************************************)
(* The script ends, in whichever way.  An error log with entries is        *)
(* printed instead of the profile.                                         *)
(***************************************************************************)
ScriptOver ==
  /\ step = "running"
  /\ current_execute_data' = << >>
  /\ timer' = IF timer = "every" THEN timer ELSE "off"
  /\ IF prof_has_errors
     THEN report' = [NoReport EXCEPT !.kind = "errors"] /\ step' = "shutdown_errors"
     ELSE step' = "total" /\ UNCHANGED report
  /\ UNCHANGED <<handler, modeVars, requests, history>>

-----------------------------------------------------------------------------
(***************************************************************************)
(* SIGPROF.  The code reads the units and the log where they are; when     *)
(* they have been destroyed the process is lost.                           *)
(***************************************************************************)
UserFrames(frames) == {i \in DOMAIN frames : frames[i].user}

InnermostUser(frames) ==
  frames[CHOOSE i \in UserFrames(frames) : \A j \in UserFrames(frames) : j <= i]

\* A mutated form: a new unit is not zeroed.
CountUninitialised(f, units) ==
  LET name == get_function_name(f)
  IN  [n \in DOMAIN units \cup {name} |->
         IF n \in DOMAIN units THEN units[n] ELSE [hits |-> -1, filename |-> f.filename]]

Count(f, units) ==
  LET name == get_function_name(f)
      unit == IF name \in DOMAIN units THEN units[name]
              ELSE [hits |-> 0, filename |-> f.filename]
  IN  [n \in DOMAIN units \cup {name} |->
         IF n = name THEN [unit EXCEPT !.hits = @ + 1] ELSE units[n]]

HitSilent(f) ==      \* a mutated form: a name that is missing is not logged
  \/ "name" \in Faults /\ UNCHANGED <<step, sampling_units, errors>>
  \/ /\ sampling_units' = [sampling_units EXCEPT !.units = Count(f, @)]
     /\ UNCHANGED <<step, errors>>

Hit(f) ==
  \/ /\ "name" \in Faults
     /\ IF errors.live THEN prof_add_warning /\ UNCHANGED step
        ELSE step' = "killed" /\ UNCHANGED errors
     /\ UNCHANGED sampling_units
  \/ /\ IF sampling_units.live
        THEN /\ sampling_units' = [sampling_units EXCEPT !.units = Count(f, @)]
             /\ UNCHANGED step
        ELSE step' = "killed" /\ UNCHANGED sampling_units
     /\ UNCHANGED errors

(***************************************************************************)
(* The memory limit is hit by the string of a name (that of a plain        *)
(* function is shared), by a new unit and its place in the table, or by an *)
(* entry of the log.  The handler is left, with the sample in neither the  *)
(* units nor the log.                                                      *)
(***************************************************************************)
HitBails(f) ==
  /\ "bailout" \in Faults
  /\ \/ f.closure \/ f.scope # NoName \/ f.name = NoName
     \/ get_function_name(f) \notin DOMAIN sampling_units.units
     \/ "name" \in Faults
  /\ current_execute_data' = << >>
  /\ lost' = [lost EXCEPT ![f] = @ + 1] /\ disturbed' = TRUE
  /\ UNCHANGED <<step, sampling_units, errors>>

\* A mutated form: the check for user code is dropped.
CountsInnermost ==
  IF ~ sampling_enabled \/ current_execute_data = << >>
  THEN UNCHANGED <<step, sampling_units, errors, cutShort>>
  ELSE Hit(Last(current_execute_data)) /\ UNCHANGED cutShort

prof_sigprof_handler ==
  IF ~ sampling_enabled \/ UserFrames(current_execute_data) = {}
  THEN UNCHANGED <<step, sampling_units, errors, cutShort>>
  ELSE LET f == InnermostUser(current_execute_data)
       IN  \/ Hit(f) /\ UNCHANGED cutShort
           \/ HitBails(f)

Due(frames) ==
  IF UserFrames(frames) = {} THEN taken
  ELSE [taken EXCEPT ![InnermostUser(frames)] = @ + 1]

Sigprof ==
  /\ timer # "off" /\ step \notin {"exited", "killed"}
  /\ Sum(taken) < MaxSamples
  /\ timer' = IF timer = "once" THEN "off" ELSE timer
  /\ taken' = Due(current_execute_data)
  /\ IF handler /\ step # "unloaded" THEN prof_sigprof_handler
     ELSE step' = "killed" /\ UNCHANGED <<sampling_units, errors, cutShort>>
  /\ UNCHANGED <<handler, sampling_enabled, requests, abandoned, report>>

-----------------------------------------------------------------------------
(***************************************************************************)
(* RSHUTDOWN: prof_sampling_print_result_console adds up the hits, prints  *)
(* the sum, and walks the units again for the rows.                        *)
(***************************************************************************)
PrintTotal ==
  /\ step = "total"
  /\ LET total == Sum(Hits(sampling_units.units))
     IN  /\ report' = [NoReport EXCEPT !.kind = "table", !.total = total]
         /\ step' = IF total = 0 THEN "shutdown_errors" ELSE "rows"
  /\ UNCHANGED <<current_execute_data, timer, handler, modeVars, requests, history>>

(***************************************************************************)
(* The engine frees the memory of the request.  Another request follows    *)
(* (the script, after a preload script), or the module is unloaded.        *)
(***************************************************************************)
EndOfRequest ==
  /\ step' \in {"idle", "unloaded"}
  /\ sampling_units' = Freed /\ errors' = NoErrorTable

PrintRows ==
  /\ step = "rows"
  /\ \/ report' = [report EXCEPT !.rows = sampling_units.units]
        /\ step' = "shutdown_errors"
        /\ UNCHANGED <<modeVars, abandoned>>
     \/ "bailout" \in Faults /\ EndOfRequest /\ abandoned' = TRUE
        /\ UNCHANGED <<sampling_enabled, report>>
  /\ UNCHANGED <<current_execute_data, timer, handler, requests, taken, lost, disturbed>>

ShutdownErrors ==
  /\ step = "shutdown_errors" /\ step' = "disable"
  /\ prof_shutdown_errors
  /\ UNCHANGED <<current_execute_data, timer, handler, sampling_enabled,
                 sampling_units, requests, history, report>>

(***************************************************************************)
(* prof_sampling_teardown.                                                 *)
(***************************************************************************)
Disable ==
  /\ step = "disable" /\ step' = "disarm"
  /\ sampling_enabled' = FALSE
  /\ UNCHANGED <<current_execute_data, timer, handler, sampling_units, errors,
                 requests, history, report>>

DisarmForgotten ==
  /\ step = "disarm" /\ step' = "free"
  /\ UNCHANGED <<current_execute_data, timer, handler, modeVars, requests, history, report>>

StopTimer ==
  /\ step = "disarm"
  /\ \/ timer' = "off" /\ step' = "free"
        /\ UNCHANGED <<sampling_units, errors, abandoned>>
     \/ "stop" \in Faults /\ EndOfRequest /\ abandoned' = TRUE /\ UNCHANGED timer
  /\ UNCHANGED <<current_execute_data, handler, sampling_enabled, requests, taken,
                 lost, disturbed, report>>

FreeTable ==
  /\ step = "free" /\ EndOfRequest
  /\ UNCHANGED <<current_execute_data, timer, handler, sampling_enabled,
                 requests, history, report>>

Exit ==
  /\ step = "unloaded" /\ step' = "exited"
  /\ UNCHANGED <<current_execute_data, timer, handler, modeVars, requests, history, report>>

Next ==
  \/ Rinit \/ InitTable \/ SetHandler \/ StartTimer
  \/ Leave \/ SetTimeLimit \/ Fork \/ ScriptOver \/ Sigprof
  \/ PrintTotal \/ PrintRows \/ ShutdownErrors
  \/ Disable \/ StopTimer \/ FreeTable \/ Exit
  \/ \E f \in Functions : Enter(f)

Spec == Init /\ [][Next]_vars

(***************************************************************************)
(* A timer that runs expires: the process uses CPU time.                   *)
(***************************************************************************)
FairSpec == Spec /\ WF_vars(Sigprof)

-----------------------------------------------------------------------------
TypeOK ==
  /\ step \in Steps
  /\ current_execute_data \in Seq(Functions)
  /\ timer \in {"off", "every", "once"} /\ handler \in BOOLEAN
  /\ sampling_enabled \in BOOLEAN /\ sampling_units.live \in BOOLEAN
  /\ \A n \in DOMAIN sampling_units.units : sampling_units.units[n].hits \in Nat
  /\ errors \in ErrorsType
  /\ requests \in Nat /\ taken \in [Functions -> Nat] /\ lost \in [Functions -> Nat]

(***************************************************************************)
(* No SIGPROF ever finds the process without its handler, or the handler a *)
(* table or a log that is not there: set-up and tear-down are ordered so   *)
(* that a signal between any two of their steps does no harm.  The         *)
(* exception is an RSHUTDOWN that ended early: its timer goes on when the  *)
(* module is unloaded (sampling.c:72).                                     *)
(***************************************************************************)
NeverKilled == step = "killed" => abandoned

(***************************************************************************)
(* A profile that was printed accounts for every sample that was due,      *)
(* unless the memory limit ended its handler, for the name it was due to;  *)
(* its total is the sum of its rows, also when a signal arrives between    *)
(* printing the one and the others; and the file of a row is that of a     *)
(* function whose samples are in it.  The samples that are missing are     *)
(* those whose handler was left (lines 338-350), and no others: the rest   *)
(* of the units is as if they had not been raised.                         *)
(***************************************************************************)
Kept == [f \in Functions |-> taken[f] - lost[f]]

KeptBy(name) ==
  Sum([f \in {g \in Functions : get_function_name(g) = name} |-> Kept[f]])

ReportComplete ==
  report.kind = "table" /\ step \in {"shutdown_errors", "disable", "disarm", "free"} =>
    /\ report.total = Sum(Kept)
    /\ \A f \in Functions : Kept[f] > 0 =>
         get_function_name(f) \in DOMAIN report.rows
    /\ \A name \in DOMAIN report.rows :
         /\ report.rows[name].hits = KeptBy(name)
         /\ \E f \in Functions :
              /\ Kept[f] > 0 /\ get_function_name(f) = name
              /\ report.rows[name].filename = f.filename

(***************************************************************************)
(* Sampling implements the ledger of its samples: no signal is counted     *)
(* twice, none is lost but with its handler, none changes what is being    *)
(* printed, and the hits of a forked process go on from those of its       *)
(* parent.  A table without rows is a total.                               *)
(***************************************************************************)
Printed ==
  [kind |-> IF report.kind = "table" /\ DOMAIN report.rows = {} THEN "total"
            ELSE report.kind,
   total |-> report.total, rows |-> Hits(report.rows)]

Ledger == INSTANCE SampleLedger WITH due <- taken, report <- Printed

LedgerSpec == Ledger!Spec

(***************************************************************************)
(* While the script's own code runs, samples are taken, in every request,  *)
(* unless the script sets a time limit, is a forked process or was ended   *)
(* by the memory limit in the handler.                                     *)
(***************************************************************************)
UserCodeRuns == step = "running" /\ UserFrames(current_execute_data) # {}

SamplingGoesOn ==
  (UserCodeRuns /\ ~ disturbed) ~>
    (~ UserCodeRuns \/ disturbed \/ Sum(taken) = MaxSamples)

(***************************************************************************)
(* The same of any script (readme.md:7: the mode "stops program every n    *)
(* microseconds and analyzes current stack").                              *)
(***************************************************************************)
SamplesAnyScript == UserCodeRuns ~> (~ UserCodeRuns \/ Sum(taken) = MaxSamples)
=============================================================================
