-------------------------------- MODULE Prof --------------------------------
(***************************************************************************)
(* The extension in the life of a PHP process (prof.c): the module is      *)
(* initialised with a configuration, requests are set up and shut down     *)
(* (more than one with a preload script), and the module is unloaded.      *)
(* What the three modes do in between is in modules of their own; here     *)
(* they are the resources they hold, whether they wrote to the log, and    *)
(* what their reports come to (ReportOutcome).                             *)
(*                                                                         *)
(* The engine's side: it stops PHP when MINIT or RINIT fail, and it calls  *)
(* hooks that MINIT installed whenever user code runs.  That includes code *)
(* that the RSHUTDOWN of another module calls (a session's save handler),  *)
(* in phase "late".  A bailout in RSHUTDOWN skips the rest of it and those *)
(* of other modules.  At the end of a request the engine frees its memory, *)
(* with every table in it.  The system refuses a timer of a million        *)
(* microseconds or more.                                                   *)
(***************************************************************************)
EXTENDS Sequences, FiniteSets, ProfErrors, ProfConfig, ReportOutcome

CONSTANTS
  Environments,  \* what PHP may be started with: records [sapi, ini, env],
                 \*   sapi being "cli" for the command line
  Faults,        \* what may happen:
                 \*   "clock"  clock_gettime fails
                 \*   "log"    a mode writes to the error log
                 \*   "file"   a profile cannot be written to its file
                 \*   "bailout"  the report hits the memory limit
                 \*   "late"   user code runs in phase "late"
  MaxRequests    \* bound of the model

ASSUME ProfAssumption ==
  /\ \A e \in Environments : \A settings \in {e.ini, e.env} :
       \A name \in DOMAIN settings : settings[name].number \in Int
  /\ Faults \subseteq {"clock", "log", "file", "bailout", "late"} /\ MaxRequests \in Nat

VARIABLES
  phase,        \* see Phases
  environment,
  config,
  hooks,        \* what MINIT installed: "observer", "opcode handlers"
  tables,       \* the tables that exist, apart from the error log
  timer,        \* does ITIMER_PROF run
  requests,     \* requests started
  logged,       \* history: has the log been written to in this request,
  abandoned,    \*   and did its RSHUTDOWN end early
  shown         \* what the last request showed, in order

vars == <<phase, environment, config, hooks, tables, timer, requests, logged,
          abandoned, shown, errors>>

\* "dead": PHP did not start; "lost": a hook used a table that is not there.
Phases == {"loaded", "idle", "request", "late", "unloaded", "dead", "lost"}

Init ==
  /\ phase = "loaded" /\ environment \in Environments
  /\ config = Zeroed /\ hooks = {} /\ tables = {} /\ timer = FALSE
  /\ requests = 0 /\ logged = FALSE /\ abandoned = FALSE /\ shown = << >> /\ errors = NoErrorTable

-----------------------------------------------------------------------------
HooksOf(mode) == CASE mode = "func"   -> {"observer"}
                   [] mode = "opcode" -> {"opcode handlers"}
                   [] OTHER           -> {}

TablesOf(mode) == CASE mode = "func"     -> {"func_units", "func_start_units"}
                    [] mode = "opcode"   -> {"opcode_timings"}
                    [] mode = "sampling" -> {"sampling_units"}
                    [] OTHER             -> {}

Minit ==
  /\ phase = "loaded"
  /\ LET built == build_config(environment.sapi, environment.ini, environment.env)
     IN  IF built.ok
         THEN /\ phase' = "idle" /\ config' = built.config
              /\ hooks' = HooksOf(built.config.mode)
         ELSE phase' = "dead" /\ UNCHANGED <<config, hooks>>
  /\ UNCHANGED <<environment, tables, timer, requests, logged, abandoned, shown, errors>>

SetUpTimerOnly ==        \* a mutated form: the tables wait for their first use
  /\ UNCHANGED tables
  /\ phase' = "request" /\ timer' = (config.mode = "sampling")

(***************************************************************************)
(* PHP_RINIT with prof_sampling_setup, prof_func_setup, prof_opcode_setup. *)
(***************************************************************************)
SetUp ==
  /\ tables' = TablesOf(config.mode)
  /\ IF config.mode = "sampling" /\ config.sampling_interval >= 1000000
     THEN phase' = "dead" /\ UNCHANGED timer
     ELSE phase' = "request" /\ timer' = (config.mode = "sampling")

Rinit ==
  /\ phase = "idle" /\ requests < MaxRequests
  /\ requests' = requests + 1 /\ logged' = FALSE /\ abandoned' = FALSE /\ shown' = << >>
  /\ prof_init_errors
  /\ \/ "clock" \in Faults /\ phase' = "dead" /\ UNCHANGED <<tables, timer>>
     \/ SetUp
  /\ UNCHANGED <<environment, config, hooks>>

Log ==
  /\ phase = "request" /\ config.mode \in Modes /\ "log" \in Faults
  /\ prof_add_warning /\ logged' = TRUE
  /\ UNCHANGED <<phase, environment, config, hooks, tables, timer, requests, abandoned,
                 shown>>

(***************************************************************************)
(* User code runs: the hooks, and the handler of the timer, use the tables *)
(* of their mode and the log.                                              *)
(***************************************************************************)
Used ==
  (IF "observer" \in hooks THEN TablesOf("func") ELSE {})
  \cup (IF "opcode handlers" \in hooks THEN TablesOf("opcode") ELSE {})
  \cup (IF timer THEN TablesOf("sampling") ELSE {})

Found == Used \subseteq tables /\ (Used # {} => errors.live)

UserCode ==
  /\ phase = "request" \/ (phase = "late" /\ "late" \in Faults)
  /\ phase' = IF Found THEN phase ELSE "lost"
  /\ UNCHANGED <<environment, config, hooks, tables, timer, requests, logged, abandoned,
                 shown, errors>>

-----------------------------------------------------------------------------
(***************************************************************************)
(* The header of a console profile is left out when there is no time.      *)
(***************************************************************************)
Header ==
  IF config.mode \in Modes /\ config.output_mode = "console"
  THEN {<<"header">>} \cup IF "clock" \in Faults THEN {<< >>} ELSE {}
  ELSE {<< >>}

(***************************************************************************)
(* What may become of the report of the mode.                              *)
(***************************************************************************)
Results ==
  IF config.mode \notin Modes THEN {Failed({})}
  ELSE {o \in Outcomes(config.mode, config.output_mode) :
          /\ o.abandoned => "bailout" \in Faults
          /\ "error" \in o.levels => "file" \in Faults
          /\ "warning" \in o.levels => "clock" \in Faults}

Messages(e) ==
  IF prof_print_errors(e) = "nothing" THEN << >> ELSE <<prof_print_errors(e)>>

\* A mutated form: the log is not looked at again after the mode has printed.
ShowOnce ==
  IF prof_has_errors THEN shown' = Messages(errors) /\ abandoned' = FALSE
  ELSE \E header \in Header, result \in Results :
         shown' = header \o result.shown /\ abandoned' = result.abandoned

Show ==
  IF prof_has_errors THEN shown' = Messages(errors) /\ abandoned' = FALSE
  ELSE \E header \in Header, result \in Results :
         /\ abandoned' = result.abandoned
         /\ shown' = header \o result.shown
                     \o Messages([errors EXCEPT !.levels = @ \cup result.levels])

(***************************************************************************)
(* prof_sampling_teardown, prof_func_teardown, prof_opcode_teardown.       *)
(***************************************************************************)
TearDownTimer ==         \* a mutated form: one case of the switch is missing
  /\ timer' = (timer /\ config.mode # "sampling")
  /\ tables' = IF config.mode = "opcode" THEN tables ELSE tables \ TablesOf(config.mode)

TearDown ==
  /\ timer' = (timer /\ config.mode # "sampling")
  /\ tables' = tables \ TablesOf(config.mode)

EndOfRequest == phase' = "idle" /\ tables' = {} /\ errors' = NoErrorTable

Rshutdown ==
  /\ phase = "request" /\ Show
  /\ IF abandoned' THEN EndOfRequest /\ UNCHANGED timer
     ELSE phase' = "late" /\ prof_shutdown_errors /\ TearDown
  /\ UNCHANGED <<environment, config, hooks, requests, logged>>

RequestOver ==
  /\ phase = "late" /\ EndOfRequest
  /\ UNCHANGED <<environment, config, hooks, timer, requests, logged, abandoned, shown>>

Mshutdown ==
  /\ phase = "idle" /\ phase' = "unloaded"
  /\ UNCHANGED <<environment, config, hooks, tables, timer, requests, logged, abandoned,
                 shown, errors>>

Next == Minit \/ Rinit \/ Log \/ UserCode \/ Rshutdown \/ RequestOver \/ Mshutdown

Spec == Init /\ [][Next]_vars

-----------------------------------------------------------------------------
TypeOK ==
  /\ phase \in Phases
  /\ config.mode \in Modes \cup {"none"} /\ config.output_mode \in OutputModes
  /\ \A name \in Numbers : config[name] \in Nat
  /\ timer \in BOOLEAN /\ requests \in Nat /\ errors \in ErrorsType

(***************************************************************************)
(* The switches over the mode, in MINIT, RINIT and RSHUTDOWN, agree: while *)
(* a request runs, every hook that may be called and every signal that may *)
(* arrive finds the tables and the log it uses; and sampling, which has no *)
(* hooks, is also safe from code that runs after RSHUTDOWN.  The other two *)
(* modes are not: their hooks stay and use what was destroyed.             *)
(***************************************************************************)
HooksFindTables ==
  /\ phase = "request" => Found
  /\ phase = "lost" => hooks # {}

(***************************************************************************)
(* What a request set up is gone when RSHUTDOWN has run to its end, before *)
(* the engine takes what is left, whichever the mode and whatever failed;  *)
(* and after an RSHUTDOWN that was abandoned, the next request ends so.    *)
(***************************************************************************)
NothingLeft ==
  phase \in {"late", "idle", "unloaded"} /\ ~ abandoned =>
    tables = {} /\ ~ timer /\ ~ errors.live

(***************************************************************************)
(* A request that was profiled shows one result: either one profile, in    *)
(* the form that was asked for, or that there was an error; none only when *)
(* it was abandoned.  An error that was logged while the script ran is     *)
(* never followed by a profile.                                            *)
(***************************************************************************)
Answers == {"table", "file", "messages", "general"}

OneAnswer ==
  phase \in {"late", "idle"} /\ requests > 0 /\ config.mode \in Modes =>
    /\ Cardinality({i \in DOMAIN shown : shown[i] \in Answers}) = IF abandoned THEN 0 ELSE 1
    /\ logged => shown[1] \in {"messages", "general"}

(***************************************************************************)
(* The three places that read the mode and the output mode (prof_config.c: *)
(* 57, 72, helpers.c:55, 77) agree about every configuration that is       *)
(* accepted, whichever of the two sources it comes from.                   *)
(***************************************************************************)
ReadersAgree ==
  phase \notin {"loaded", "dead"} =>
    LET e == environment
    IN  /\ config.mode = get_prof_mode(e.sapi, e.ini, e.env)
        /\ e.sapi = "cli" => config.output_mode = get_prof_output_mode(e.ini, e.env)

(***************************************************************************)
(* A request is only profiled with limits that show something and an       *)
(* interval that leaves time for the script (prof_config.c:89, 98, 116),   *)
(* whatever strings are given; and outside the command line no request is  *)
(* profiled (readme.md:126).                                               *)
(***************************************************************************)
Profiled == hooks # {} \/ timer \/ shown # << >>

RunsWithinBounds ==
  requests > 0 /\ Profiled =>
    /\ environment.sapi = "cli"
    /\ config.sampling_interval >= 100
    /\ config.sampling_limit >= 1 /\ config.func_limit >= 1

(***************************************************************************)
(* A configuration that is not refused as invalid (prof_config.c:90)       *)
(* starts: the script runs, and is sampled every n microseconds            *)
(* (readme.md:7, 53).                                                      *)
(***************************************************************************)
AcceptedConfigStarts ==
  phase = "dead" =>
    ~ build_config(environment.sapi, environment.ini, environment.env).ok
=============================================================================
