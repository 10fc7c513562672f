----------------------------- MODULE ProfProofs -----------------------------
(***************************************************************************)
(* Theorems about Prof, for every environment that PHP may be started      *)
(* with, every set of faults and every number of requests.                 *)
(***************************************************************************)
EXTENDS Prof, FiniteSetTheorems, TLAPS

(***************************************************************************)
(* The inductive invariant.  Installed: what MINIT left follows the mode   *)
(* of its configuration.  Acquired: a request holds what its mode needs.   *)
(* Released: nothing is held outside of requests, but for the timer of one *)
(* whose RSHUTDOWN ended early.                                            *)
(***************************************************************************)
Installed ==
  /\ phase = "loaded" => hooks = {} /\ shown = << >> /\ requests = 0
  /\ phase \in {"idle", "request", "late", "unloaded"} => hooks = HooksOf(config.mode)
  /\ phase = "lost" => hooks # {}

Acquired ==
  phase = "request" =>
    tables = TablesOf(config.mode) /\ timer = (config.mode = "sampling") /\ errors.live

Released ==
  /\ phase \in {"loaded", "idle", "late", "unloaded"} =>
       tables = {} /\ errors = NoErrorTable /\ (~ abandoned => timer = FALSE)
  /\ phase \in {"loaded", "late"} => ~ abandoned

IInv ==
  /\ phase \in Phases
  /\ errors \in ErrorsType
  /\ Installed /\ Acquired /\ Released

-----------------------------------------------------------------------------
LEMMA InitIInv == Init => IInv
BY DEF Init, IInv, Phases, Installed, Acquired, Released, NoErrorTable, ErrorsType

\* RSHUTDOWN leaves no log, whether it runs to its end or not.
LEMMA RshutdownErrors ==
  ASSUME Rshutdown
  PROVE  errors' = NoErrorTable /\ errors' \in ErrorsType /\ errors'.levels = {}
<1>1. errors' = NoErrorTable
  BY DEF Rshutdown, EndOfRequest, prof_shutdown_errors
<1>2. NoErrorTable \in ErrorsType /\ NoErrorTable.levels = {}
  BY DEF NoErrorTable, ErrorsType
<1> QED
  BY <1>1, <1>2

\* A request's hooks and handler find what they use.
LEMMA RequestFinds ==
  ASSUME IInv, phase = "request"
  PROVE  Found
<1>1. /\ hooks = HooksOf(config.mode) /\ tables = TablesOf(config.mode)
      /\ timer = (config.mode = "sampling") /\ errors.live
  BY DEF IInv, Installed, Acquired
<1>2. CASE config.mode = "func"
  BY <1>1, <1>2 DEF Found, Used, HooksOf, TablesOf
<1>3. CASE config.mode = "opcode"
  BY <1>1, <1>3 DEF Found, Used, HooksOf, TablesOf
<1>4. CASE config.mode = "sampling"
  BY <1>1, <1>4 DEF Found, Used, HooksOf, TablesOf
<1>5. CASE config.mode \notin {"func", "opcode", "sampling"}
  BY <1>1, <1>5 DEF Found, Used, HooksOf
<1> QED
  BY <1>2, <1>3, <1>4, <1>5

\* Code that runs after RSHUTDOWN uses nothing when there are no hooks.
LEMMA LateFinds ==
  ASSUME IInv, phase = "late", hooks = {}
  PROVE  Found
<1>1. timer = FALSE
  BY DEF IInv, Released
<1>2. Used = {}
  BY <1>1 DEF Used
<1> QED
  BY <1>2 DEF Found

\* Adding an entry keeps the log, and makes it one with entries.
LEMMA AddWarning ==
  ASSUME errors \in ErrorsType, prof_add_warning
  PROVE  errors' \in ErrorsType /\ errors'.live = errors.live
BY DEF prof_add_warning, prof_add_error_message, ErrorsType, ErrorLevels

\* Each step of the process keeps the invariant.
LEMMA NextIInv == IInv /\ [Next]_vars => IInv'
<1> SUFFICES ASSUME IInv, [Next]_vars
             PROVE  IInv'
  OBVIOUS
<1> USE DEF IInv, Phases, Installed, Acquired, Released
<1>1. CASE Minit
  BY <1>1 DEF Minit, NoErrorTable
<1>2. CASE Rinit
  <2>1. errors' \in ErrorsType /\ errors'.live
    BY <1>2 DEF Rinit, prof_init_errors, ErrorsType
  <2>2. phase' = "dead" \/ SetUp
    BY <1>2 DEF Rinit
  <2>3. /\ phase = "idle" /\ config' = config /\ hooks' = hooks
    BY <1>2 DEF Rinit
  <2> QED
    BY <2>1, <2>2, <2>3 DEF SetUp
<1>3. CASE Log
  BY <1>3, AddWarning DEF Log
<1>4. CASE UserCode
  <2>1. phase \in {"request", "late"} /\ phase' \in {phase, "lost"}
        /\ UNCHANGED <<config, hooks, tables, timer, requests, abandoned, shown, errors>>
    BY <1>4 DEF UserCode
  <2>2. ASSUME phase' = "lost"
        PROVE  hooks # {}
    <3>1. ~ Found
      BY <1>4, <2>1, <2>2 DEF UserCode
    <3> QED
      BY <2>1, <3>1, RequestFinds, LateFinds
  <2> QED
    BY <2>1, <2>2
<1>5. CASE Rshutdown
  <2>1. errors' = NoErrorTable /\ errors' \in ErrorsType
    BY <1>5, RshutdownErrors
  <2>2. tables' = {} /\ hooks' = hooks /\ config' = config /\ phase = "request"
    BY <1>5 DEF Rshutdown, EndOfRequest, TearDown
  <2>3. CASE abandoned'
    BY <1>5, <2>1, <2>2, <2>3 DEF Rshutdown, EndOfRequest
  <2>4. CASE ~ abandoned'
    <3>1. phase' = "late" /\ timer' = FALSE
      BY <1>5, <2>2, <2>4 DEF Rshutdown, TearDown
    <3> QED
      BY <2>1, <2>2, <2>4, <3>1
  <2> QED
    BY <2>3, <2>4
<1>6. CASE RequestOver
  BY <1>6 DEF RequestOver, EndOfRequest, NoErrorTable, ErrorsType
<1>7. CASE Mshutdown
  BY <1>7 DEF Mshutdown, NoErrorTable
<1>8. CASE UNCHANGED vars
  BY <1>8 DEF vars, NoErrorTable
<1> QED
  BY <1>1, <1>2, <1>3, <1>4, <1>5, <1>6, <1>7, <1>8 DEF Next

(***************************************************************************)
(* What the invariant is for: Acquired and Released, at every step of the  *)
(* process.                                                                *)
(***************************************************************************)
THEOREM Inductive == Spec => []IInv
BY InitIInv, NextIInv, PTL DEF Spec

(***************************************************************************)
(* Hooks and signals find the tables and the log they use while a request  *)
(* runs, whatever the configuration: the switches of MINIT and RINIT       *)
(* (prof.c:46, 75) agree; and sampling mode is never lost, also to code    *)
(* that runs after RSHUTDOWN (prof.c:123).                                 *)
(***************************************************************************)
THEOREM TablesFound == Spec => []HooksFindTables
<1>1. IInv => HooksFindTables
  BY RequestFinds DEF HooksFindTables, IInv, Installed
<1> QED
  BY <1>1, Inductive, PTL

(***************************************************************************)
(* After an RSHUTDOWN that ran to its end, between requests, and when the  *)
(* module is unloaded, no table, no log and no timer of a request is left  *)
(* (prof.c:121-134).                                                       *)
(***************************************************************************)
THEOREM NothingIsLeft == Spec => []NothingLeft
<1>1. IInv => NothingLeft
  BY DEF IInv, Released, NothingLeft, NoErrorTable
<1> QED
  BY <1>1, Inductive, PTL

-----------------------------------------------------------------------------
(***************************************************************************)
(* For the bounds of what is profiled: either nothing of the extension is  *)
(* active, or the configuration is one that build_config has checked.      *)
(***************************************************************************)
Inactive ==
  /\ config = Zeroed /\ hooks = {} /\ timer = FALSE /\ shown = << >>
  /\ errors.levels = {}

Checked ==
  /\ environment.sapi = "cli"
  /\ config.sampling_interval >= 100
  /\ config.sampling_limit >= 1 /\ config.func_limit >= 1

Bounded ==
  /\ errors \in ErrorsType
  /\ phase = "loaded" => Inactive
  /\ Inactive \/ Checked

\* A setting that is accepted has at least its least value.
LEMMA AcceptedBounds ==
  ASSUME NEW name \in {"sampling_interval", "sampling_limit", "func_limit"},
         NEW value, Accepted(name, value)
  PROVE  ValueOf(name, value) >= Least(name)
<1>1. CASE value = NULL
  <2>1. ValueOf(name, value) = Default[name]
    BY <1>1 DEF ValueOf
  <2> QED
    BY <2>1 DEF Default, Least
<1>2. CASE value # NULL
  BY <1>2 DEF Accepted, ValueOf
<1> QED
  BY <1>1, <1>2

\* build_config leaves the globals as they are, or gives checked settings.
LEMMA BuiltConfig ==
  ASSUME NEW sapi, NEW ini, NEW env, build_config(sapi, ini, env).ok
  PROVE  LET c == build_config(sapi, ini, env).config
         IN  IF sapi # "cli" THEN c = Zeroed
             ELSE /\ c.sampling_interval >= 100
                  /\ c.sampling_limit >= 1 /\ c.func_limit >= 1
<1>1. CASE sapi # "cli"
  BY <1>1 DEF build_config
<1>2. CASE sapi = "cli"
  <2> DEFINE value(name) == get_config_var(name, ini, env)
             c == build_config(sapi, ini, env).config
  <2>1. /\ \A name \in Settings : Accepted(name, value(name))
        /\ c = [name \in Settings |-> ValueOf(name, value(name))]
    BY <1>2 DEF build_config
  <2> HIDE DEF value, c
  <2>2. \A name \in {"sampling_interval", "sampling_limit", "func_limit"} :
          c[name] >= Least(name)
    BY <2>1, AcceptedBounds DEF Settings, Numbers
  <2>3. /\ Least("sampling_interval") = 100
        /\ Least("sampling_limit") = 1 /\ Least("func_limit") = 1
    BY DEF Least
  <2>4. /\ c.sampling_interval >= 100
        /\ c.sampling_limit >= 1 /\ c.func_limit >= 1
    BY <2>2, <2>3
  <2> QED
    BY <1>2, <2>4 DEF c
<1> QED
  BY <1>1, <1>2

LEMMA InitBounded == Init => Bounded
BY DEF Init, Bounded, Inactive, NoErrorTable, ErrorsType

\* A request of an inactive extension shows nothing.
LEMMA InactiveShowsNothing ==
  ASSUME Inactive, errors \in ErrorsType, Show
  PROVE  shown' = << >>
<1>1. config.mode \notin Modes /\ ~ prof_has_errors
  BY DEF Inactive, Zeroed, Modes, prof_has_errors
<1>2. Header = {<< >>} /\ Results = {Failed({})}
  BY <1>1 DEF Header, Results
<1>3. PICK header \in Header, result \in Results :
        shown' = header \o result.shown
                 \o Messages([errors EXCEPT !.levels = @ \cup result.levels])
  BY <1>1 DEF Show
<1>4. header = << >> /\ result.shown = << >> /\ result.levels = {}
  BY <1>2 DEF Failed
<1>5. [errors EXCEPT !.levels = @ \cup result.levels].levels = {}
  BY <1>4, SMT DEF Inactive, ErrorsType
<1>6. Messages([errors EXCEPT !.levels = @ \cup result.levels]) = << >>
  BY <1>5, SMT DEF Messages, prof_print_errors
<1> QED
  BY <1>3, <1>4, <1>6, SMT

\* Each step of the process keeps the configuration checked or nothing active.
LEMMA NextBounded == Bounded /\ [Next]_vars => Bounded'
<1> SUFFICES ASSUME Bounded, [Next]_vars
             PROVE  Bounded'
  OBVIOUS
<1>1. CASE Minit
  <2> DEFINE built == build_config(environment.sapi, environment.ini, environment.env)
  <2>1. Inactive /\ errors' = errors /\ timer' = timer /\ shown' = shown
        /\ environment' = environment /\ phase' # "loaded"
    BY <1>1 DEF Minit, Bounded
  <2>2. CASE ~ built.ok
    BY <1>1, <2>1, <2>2 DEF Minit, Bounded, Inactive
  <2>3. CASE built.ok /\ environment.sapi # "cli"
    <3>1. config' = Zeroed /\ hooks' = HooksOf(Zeroed.mode)
      BY <1>1, <2>3, BuiltConfig DEF Minit
    <3>2. HooksOf(Zeroed.mode) = {}
      BY DEF HooksOf, Zeroed
    <3> QED
      BY <2>1, <3>1, <3>2 DEF Bounded, Inactive
  <2>4. CASE built.ok /\ environment.sapi = "cli"
    <3>1. config' = built.config
      BY <1>1, <2>4 DEF Minit
    <3> HIDE DEF built
    <3>2. /\ built.config.sampling_interval >= 100
          /\ built.config.sampling_limit >= 1 /\ built.config.func_limit >= 1
      BY <2>4, BuiltConfig DEF built
    <3> QED
      BY <2>1, <2>4, <3>1, <3>2 DEF Bounded, Checked
  <2> QED
    BY <2>2, <2>3, <2>4
<1>2. CASE Rinit
  <2>1. /\ errors' = [live |-> TRUE, levels |-> {}] /\ errors' \in ErrorsType
        /\ environment' = environment /\ config' = config /\ hooks' = hooks
        /\ shown' = << >> /\ phase' # "loaded"
    BY <1>2 DEF Rinit, SetUp, prof_init_errors, ErrorsType
  <2>2. CASE Inactive
    <3>1. config.mode # "sampling"
      BY <2>2 DEF Inactive, Zeroed
    <3>2. timer = FALSE
      BY <2>2 DEF Inactive
    <3>3. timer' = timer \/ SetUp
      BY <1>2 DEF Rinit
    <3>4. timer' = timer \/ timer' = (config.mode = "sampling")
      BY <3>3 DEF SetUp
    <3>5. timer' = FALSE
      BY <3>1, <3>2, <3>4
    <3> QED
      BY <2>1, <2>2, <3>5 DEF Bounded, Inactive
  <2>3. CASE Checked
    BY <2>1, <2>3 DEF Bounded, Checked
  <2> QED
    BY <2>2, <2>3 DEF Bounded
<1>3. CASE Log
  <2>1. Checked
    BY <1>3 DEF Log, Bounded, Inactive, Zeroed, Modes
  <2>2. errors' \in ErrorsType
    BY <1>3, AddWarning DEF Log, Bounded
  <2> QED
    BY <1>3, <2>1, <2>2 DEF Log, Bounded, Checked
<1>4. CASE UserCode
  BY <1>4 DEF UserCode, Bounded, Inactive, Checked
<1>5. CASE Rshutdown
  <2>1. /\ errors' = NoErrorTable /\ errors' \in ErrorsType /\ errors'.levels = {}
        /\ environment' = environment /\ config' = config /\ hooks' = hooks
        /\ phase' # "loaded"
    BY <1>5, RshutdownErrors DEF Rshutdown, EndOfRequest
  <2>2. CASE Inactive
    <3>1. shown' = << >>
      BY <1>5, <2>2, InactiveShowsNothing DEF Rshutdown, Bounded
    <3>2. timer' = FALSE
      BY <1>5, <2>2 DEF Rshutdown, TearDown, Inactive
    <3> QED
      BY <2>1, <2>2, <3>1, <3>2 DEF Bounded, Inactive
  <2>3. CASE Checked
    BY <2>1, <2>3 DEF Bounded, Checked
  <2> QED
    BY <2>2, <2>3 DEF Bounded
<1>6. CASE RequestOver
  BY <1>6 DEF RequestOver, EndOfRequest, NoErrorTable, ErrorsType, Bounded, Inactive, Checked
<1>7. CASE Mshutdown
  BY <1>7 DEF Mshutdown, Bounded, Inactive, Checked
<1>8. CASE UNCHANGED vars
  BY <1>8 DEF vars, Bounded, Inactive, Checked
<1> QED
  BY <1>1, <1>2, <1>3, <1>4, <1>5, <1>6, <1>7, <1>8 DEF Next

(***************************************************************************)
(* A request is only profiled on the command line, with limits and an      *)
(* interval within their bounds, whatever strings PHP is given             *)
(* (prof_config.c:50-141).                                                 *)
(***************************************************************************)
THEOREM BoundsHold == Spec => []RunsWithinBounds
<1>1. Bounded => RunsWithinBounds
  BY DEF Bounded, Inactive, Checked, RunsWithinBounds, Profiled
<1> QED
  BY <1>1, InitBounded, NextBounded, PTL DEF Spec

-----------------------------------------------------------------------------
(***************************************************************************)
(* For the readers of the mode: the configuration is the one that MINIT    *)
(* built from the environment and accepted.                                *)
(***************************************************************************)
Chosen ==
  phase \notin {"loaded", "dead"} =>
    LET built == build_config(environment.sapi, environment.ini, environment.env)
    IN  built.ok /\ config = built.config

LEMMA NextChosen == Chosen /\ [Next]_vars => Chosen'
<1> SUFFICES ASSUME Chosen, [Next]_vars
             PROVE  Chosen'
  OBVIOUS
<1>1. CASE Minit
  BY <1>1 DEF Minit, Chosen
<1>2. CASE Rinit
  BY <1>2 DEF Rinit, Chosen
<1>3. CASE Log
  BY <1>3 DEF Log, Chosen
<1>4. CASE UserCode
  BY <1>4 DEF UserCode, Chosen
<1>5. CASE Rshutdown
  BY <1>5 DEF Rshutdown, Chosen
<1>6. CASE RequestOver
  BY <1>6 DEF RequestOver, Chosen
<1>7. CASE Mshutdown
  BY <1>7 DEF Mshutdown, Chosen
<1>8. CASE UNCHANGED vars
  BY <1>8 DEF vars, Chosen
<1> QED
  BY <1>1, <1>2, <1>3, <1>4, <1>5, <1>6, <1>7, <1>8 DEF Next

\* An empty string of the environment, which only the two readers take for
\* one that is there, has the text of none.
LEMMA SameText ==
  ASSUME NEW name, NEW ini, NEW env
  PROVE  TextOf(name, ini, env) = get_config_var(name, ini, env).text
<1>1. NULL.text = ""
  BY DEF NULL
<1>2. CASE NotEmpty(name, ini)
  BY <1>2 DEF TextOf, get_config_var
<1>3. CASE ~ NotEmpty(name, ini) /\ NotEmpty(name, env)
  BY <1>3 DEF TextOf, get_config_var, NotEmpty
<1>4. CASE ~ NotEmpty(name, ini) /\ ~ NotEmpty(name, env)
  BY <1>1, <1>4 DEF TextOf, get_config_var, NotEmpty
<1> QED
  BY <1>2, <1>3, <1>4

\* What build_config accepts as a mode is what get_prof_mode makes of it.
LEMMA SameMode ==
  ASSUME NEW sapi, NEW ini, NEW env, build_config(sapi, ini, env).ok
  PROVE  build_config(sapi, ini, env).config.mode = get_prof_mode(sapi, ini, env)
<1> DEFINE value == get_config_var("mode", ini, env)
<1>1. CASE sapi # "cli"
  BY <1>1 DEF build_config, get_prof_mode, Zeroed
<1>2. CASE sapi = "cli"
  <2>1. Accepted("mode", value)
        /\ build_config(sapi, ini, env).config.mode = ValueOf("mode", value)
    BY <1>2 DEF build_config, Settings
  <2>2. TextOf("mode", ini, env) = value.text
    BY SameText
  <2> HIDE DEF value
  <2>3. CASE value = NULL
    <3>1. value.text \notin Modes
      BY <2>3 DEF NULL, Modes
    <3>2. ValueOf("mode", value) = Default["mode"]
      BY <2>3 DEF ValueOf
    <3> QED
      BY <1>2, <2>1, <2>2, <3>1, <3>2 DEF get_prof_mode, Default
  <2>4. CASE value # NULL
    <3>1. value.text \in Modes /\ ValueOf("mode", value) = value.text
      BY <2>1, <2>4 DEF Accepted, ValueOf
    <3> QED
      BY <1>2, <2>1, <2>2, <3>1 DEF get_prof_mode
  <2> QED
    BY <2>3, <2>4
<1> QED
  BY <1>1, <1>2

\* The same of the output mode, which get_prof_output_mode reads.
LEMMA SameOutputMode ==
  ASSUME NEW ini, NEW env, build_config("cli", ini, env).ok
  PROVE  build_config("cli", ini, env).config.output_mode
           = get_prof_output_mode(ini, env)
<1> DEFINE value == get_config_var("output_mode", ini, env)
<1>1. Accepted("output_mode", value)
      /\ build_config("cli", ini, env).config.output_mode = ValueOf("output_mode", value)
  BY DEF build_config, Settings
<1>2. TextOf("output_mode", ini, env) = value.text
  BY SameText
<1> HIDE DEF value
<1>3. CASE value = NULL
  <2>1. value.text = ""
    BY <1>3 DEF NULL
  <2>2. ValueOf("output_mode", value) = Default["output_mode"]
    BY <1>3 DEF ValueOf
  <2> QED
    BY <1>1, <1>2, <2>1, <2>2 DEF get_prof_output_mode, Default
<1>4. CASE value # NULL
  <2>1. value.text \in OutputModes /\ ValueOf("output_mode", value) = value.text
    BY <1>1, <1>4 DEF Accepted, ValueOf
  <2> QED
    BY <1>1, <1>2, <2>1 DEF get_prof_output_mode, OutputModes
<1> QED
  BY <1>3, <1>4

(***************************************************************************)
(* The readers of the mode and of the output mode agree with the           *)
(* configuration that PHP runs with, whatever strings it is given          *)
(* (prof_config.c:57, 72, helpers.c:55, 78).                               *)
(***************************************************************************)
THEOREM Agreement == Spec => []ReadersAgree
<1>1. Init => Chosen
  BY DEF Init, Chosen
<1>2. Chosen => ReadersAgree
  BY SameMode, SameOutputMode DEF Chosen, ReadersAgree
<1> QED
  BY <1>1, <1>2, NextChosen, PTL DEF Spec

-----------------------------------------------------------------------------
(***************************************************************************)
(* For the types: the configuration that is built from an environment has  *)
(* a value of its kind for every setting.                                  *)
(***************************************************************************)
ConfigTyped(c) ==
  /\ c.mode \in Modes \cup {"none"} /\ c.output_mode \in OutputModes
  /\ \A name \in Numbers : c[name] \in Nat

Typed ==
  /\ environment \in Environments /\ ConfigTyped(config)
  /\ timer \in BOOLEAN /\ requests \in Nat

\* A number that is accepted is a natural number, also one beyond the longs.
LEMMA AcceptedIsNat ==
  ASSUME NEW name \in Numbers, NEW value, Accepted(name, value),
         value = NULL \/ value.number \in Int
  PROVE  ValueOf(name, value) \in Nat
<1>1. CASE value = NULL
  <2>1. ValueOf(name, value) = Default[name]
    BY <1>1 DEF ValueOf
  <2>2. \A n \in Numbers : Default[n] \in Nat
    BY DEF Default, Numbers
  <2> QED
    BY <2>1, <2>2
<1>2. CASE value # NULL
  <2>1. name \notin {"mode", "output_mode"}
    BY DEF Numbers
  <2>2. parse(name, value).ok /\ ValueOf(name, value) = parse(name, value).res
    BY <1>2, <2>1 DEF Accepted, ValueOf
  <2>3. value.number \in Int
    BY <1>2
  <2>4. CASE name \in {"func_threshold", "opcode_threshold"}
    <3>1. parse(name, value).res = value.number
      BY <2>4 DEF parse, parse_double
    <3>2. value.number >= 0
      BY <2>2, <2>4 DEF parse, parse_double
    <3> QED
      BY <2>2, <2>3, <3>1, <3>2
  <2>5. CASE name \notin {"func_threshold", "opcode_threshold"}
    <3>1. parse(name, value).res = strtol(value)
      BY <2>5 DEF parse, parse_uint
    <3>2. value.number >= 0
      BY <2>2, <2>5 DEF parse, parse_uint
    <3> QED
      BY <2>2, <2>3, <3>1, <3>2, LongAssumption DEF strtol
  <2> QED
    BY <2>4, <2>5
<1> QED
  BY <1>1, <1>2

LEMMA ZeroedTyped == ConfigTyped(Zeroed)
BY DEF ConfigTyped, Zeroed, Modes, OutputModes, Numbers

\* The configuration that MINIT accepts is typed.
LEMMA BuiltTyped ==
  ASSUME NEW e \in Environments, build_config(e.sapi, e.ini, e.env).ok
  PROVE  ConfigTyped(build_config(e.sapi, e.ini, e.env).config)
<1>1. CASE e.sapi # "cli"
  BY <1>1, ZeroedTyped DEF build_config
<1>2. CASE e.sapi = "cli"
  <2> DEFINE value(name) == get_config_var(name, e.ini, e.env)
             c == build_config(e.sapi, e.ini, e.env).config
  <2>1. /\ \A name \in Settings : Accepted(name, value(name))
        /\ c = [name \in Settings |-> ValueOf(name, value(name))]
    BY <1>2 DEF build_config
  <2>2. \A name : value(name) = NULL \/ value(name).number \in Int
    BY ProfAssumption DEF get_config_var, NotEmpty
  <2> HIDE DEF value, c
  <2>3. \A name \in Numbers : c[name] \in Nat
    BY <2>1, <2>2, AcceptedIsNat DEF Settings
  <2>4. c.mode \in Modes \cup {"none"}
    <3>1. Accepted("mode", value("mode")) /\ c.mode = ValueOf("mode", value("mode"))
      BY <2>1 DEF Settings
    <3> QED
      BY <3>1 DEF Accepted, ValueOf, Default
  <2>5. c.output_mode \in OutputModes
    <3>1. /\ Accepted("output_mode", value("output_mode"))
          /\ c.output_mode = ValueOf("output_mode", value("output_mode"))
      BY <2>1 DEF Settings
    <3> QED
      BY <3>1 DEF Accepted, ValueOf, Default, OutputModes
  <2> QED
    BY <2>3, <2>4, <2>5 DEF ConfigTyped, c
<1> QED
  BY <1>1, <1>2

LEMMA InitTyped == Init => Typed
<1> SUFFICES ASSUME Init
             PROVE  Typed
  OBVIOUS
<1>1. config = Zeroed /\ environment \in Environments /\ timer = FALSE /\ requests = 0
  BY DEF Init
<1>2. ConfigTyped(config)
  BY <1>1, ZeroedTyped
<1> QED
  BY <1>1, <1>2 DEF Typed

LEMMA NextTyped == Typed /\ [Next]_vars => Typed'
<1> SUFFICES ASSUME Typed, [Next]_vars
             PROVE  Typed'
  OBVIOUS
<1>1. CASE Minit
  <2>1. config' = config \/ ConfigTyped(config')
    BY <1>1, BuiltTyped DEF Minit, Typed
  <2> QED
    BY <1>1, <2>1 DEF Minit, Typed
<1>2. CASE Rinit
  <2>1. timer' \in BOOLEAN
    <3>1. timer' = timer \/ timer' = (config.mode = "sampling")
      BY <1>2 DEF Rinit, SetUp
    <3> QED
      BY <3>1 DEF Typed
  <2>2. requests' = requests + 1 /\ environment' = environment /\ config' = config
    BY <1>2 DEF Rinit
  <2> QED
    BY <2>1, <2>2 DEF Typed
<1>3. CASE Log
  BY <1>3 DEF Log, Typed
<1>4. CASE UserCode
  BY <1>4 DEF UserCode, Typed
<1>5. CASE Rshutdown
  <2>1. timer' \in BOOLEAN
    <3>1. timer' = timer \/ timer' = (timer /\ config.mode # "sampling")
      BY <1>5 DEF Rshutdown, TearDown
    <3> QED
      BY <3>1 DEF Typed
  <2> QED
    BY <1>5, <2>1 DEF Rshutdown, Typed
<1>6. CASE RequestOver
  BY <1>6 DEF RequestOver, Typed
<1>7. CASE Mshutdown
  BY <1>7 DEF Mshutdown, Typed
<1>8. CASE UNCHANGED vars
  BY <1>8 DEF vars, Typed
<1> QED
  BY <1>1, <1>2, <1>3, <1>4, <1>5, <1>6, <1>7, <1>8 DEF Next

\* The settings are numbers of their kind whatever strings PHP is given
\* (prof_config.c:8-48, 86-138), and the variables of the process keep
\* their types.
THEOREM TypeCorrect == Spec => []TypeOK
<1>1. IInv /\ Typed => TypeOK
  BY DEF IInv, Typed, ConfigTyped, TypeOK
<1>2. Spec => []Typed
  BY InitTyped, NextTyped, PTL DEF Spec
<1> QED
  BY <1>1, <1>2, Inductive, PTL

-----------------------------------------------------------------------------
(***************************************************************************)
(* For the answer of a request: while it runs, what was logged is still in *)
(* the log.                                                                *)
(***************************************************************************)
AInv ==
  /\ phase = "request" => (logged => errors.levels # {})
  /\ OneAnswer

AnswersIn(s) == {i \in DOMAIN s : s[i] \in Answers}

\* A result, below a header or not, is one answer; a header alone is none.
LEMMA AnswersBelow ==
  ASSUME NEW header \in {<< >>, <<"header">>}
  PROVE  /\ Cardinality(AnswersIn(header)) = 0
         /\ \A x \in Answers : Cardinality(AnswersIn(header \o <<x>>)) = 1
<1>1. AnswersIn(header) = {}
  BY DEF AnswersIn, Answers
<1>2. ASSUME NEW x \in Answers
      PROVE  Cardinality(AnswersIn(header \o <<x>>)) = 1
  <2>1. CASE header = << >>
    <3>1. header \o <<x>> = <<x>>
      BY <2>1
    <3>2. AnswersIn(<<x>>) = {1}
      BY DEF AnswersIn
    <3> QED
      BY <3>1, <3>2, FS_Singleton
  <2>2. CASE header = <<"header">>
    <3> DEFINE s == <<"header">> \o <<x>>
               S == Answers \cup {"header"}
    <3>1. <<"header">> \in Seq(S) /\ <<x>> \in Seq(S)
      OBVIOUS
    <3>2. s \in Seq(S) /\ Len(s) = 2 /\ s[1] = "header" /\ s[2] = x
      BY <3>1
    <3> HIDE DEF s
    <3>3. s = <<"header", x>>
      BY <3>1, <3>2
    <3>4. header \o <<x>> = <<"header", x>>
      BY <2>2, <3>3 DEF s
    <3>5. AnswersIn(<<"header", x>>) = {2}
      BY DEF AnswersIn, Answers
    <3> QED
      BY <3>4, <3>5, FS_Singleton
  <2> QED
    BY <2>1, <2>2
<1> QED
  BY <1>1, <1>2, FS_EmptySet

\* What is printed of a log.
LEMMA MessagesOf ==
  ASSUME NEW e
  PROVE  /\ e.levels = {} => Messages(e) = << >>
         /\ e.levels # {} => Messages(e) \in {<<"messages">>, <<"general">>}
BY DEF Messages, prof_print_errors

\* RSHUTDOWN shows one answer, or is abandoned and shows none.
LEMMA ShowAnswers ==
  ASSUME errors \in ErrorsType, config.mode \in Modes, Show
  PROVE  /\ Cardinality(AnswersIn(shown')) = IF abandoned' THEN 0 ELSE 1
         /\ prof_has_errors => shown'[1] \in {"messages", "general"}
<1>1. CASE prof_has_errors
  <2>1. shown' \in {<<"messages">>, <<"general">>} /\ abandoned' = FALSE
    BY <1>1, MessagesOf DEF Show, prof_has_errors
  <2>2. PICK x \in {"messages", "general"} : shown' = <<x>>
    BY <2>1
  <2>3. x \in Answers /\ << >> \o <<x>> = <<x>>
    BY DEF Answers
  <2>4. Cardinality(AnswersIn(shown')) = 1
    BY <2>2, <2>3, AnswersBelow
  <2> QED
    BY <2>1, <2>2, <2>4
<1>2. CASE ~ prof_has_errors
  <2>1. PICK header \in Header, result \in Results :
          /\ abandoned' = result.abandoned
          /\ shown' = header \o result.shown
                      \o Messages([errors EXCEPT !.levels = @ \cup result.levels])
    BY <1>2 DEF Show
  <2>2. header \in {<< >>, <<"header">>} /\ header \o << >> = header
    <3>1. header \in {<< >>, <<"header">>}
      BY DEF Header
    <3> QED
      BY <3>1
  <2>3. \/ result = Abandoned
        \/ \E x \in {"table", "file"} : result = Shown(x)
        \/ \E l \in {"error", "warning"} : result = Failed({l})
    <3>1. result \in Outcomes(config.mode, config.output_mode)
      BY DEF Results
    <3> QED
      BY <3>1 DEF Outcomes
  <2> DEFINE messages == Messages([errors EXCEPT !.levels = @ \cup result.levels])
  <2>4. [errors EXCEPT !.levels = @ \cup result.levels].levels = result.levels
    <3>1. errors = [live |-> errors.live, levels |-> {}]
      BY <1>2 DEF prof_has_errors, ErrorsType
    <3>2. [errors EXCEPT !.levels = @ \cup result.levels]
            = [live |-> errors.live, levels |-> {} \cup result.levels]
      BY <3>1
    <3> QED
      BY <3>2
  <2>5. /\ result.levels = {} => messages = << >>
        /\ result.levels # {} => messages \in {<<"messages">>, <<"general">>}
    BY <2>4, MessagesOf
  <2> HIDE DEF messages
  <2>6. shown' = (header \o result.shown) \o messages
    BY <2>1 DEF messages
  <2>7. CASE result = Abandoned
    <3>1. result.shown = << >> /\ result.levels = {} /\ result.abandoned = TRUE
      BY <2>7 DEF Abandoned
    <3>2. shown' = header /\ abandoned' = TRUE
      BY <2>1, <2>2, <2>5, <2>6, <3>1
    <3> QED
      BY <1>2, <2>2, <3>2, AnswersBelow
  <2>8. ASSUME NEW x \in {"table", "file"}, result = Shown(x)
        PROVE  Cardinality(AnswersIn(shown')) = 1 /\ abandoned' = FALSE
    <3>1. result.shown = <<x>> /\ result.levels = {} /\ result.abandoned = FALSE
      BY <2>8 DEF Shown
    <3>2. (header \o <<x>>) \o << >> = header \o <<x>>
      BY <2>2
    <3>3. shown' = header \o <<x>> /\ abandoned' = FALSE /\ x \in Answers
      BY <2>1, <2>5, <2>6, <3>1, <3>2 DEF Answers
    <3> QED
      BY <2>2, <3>3, AnswersBelow
  <2>9. ASSUME NEW l \in {"error", "warning"}, result = Failed({l})
        PROVE  Cardinality(AnswersIn(shown')) = 1 /\ abandoned' = FALSE
    <3>1. result.shown = << >> /\ result.levels # {} /\ result.abandoned = FALSE
      BY <2>9 DEF Failed
    <3>2. PICK x \in {"messages", "general"} : messages = <<x>>
      BY <2>5, <3>1
    <3>3. shown' = header \o <<x>> /\ abandoned' = FALSE /\ x \in Answers
      BY <2>1, <2>2, <2>6, <3>1, <3>2 DEF Answers
    <3> QED
      BY <2>2, <3>3, AnswersBelow
  <2> QED
    BY <1>2, <2>3, <2>7, <2>8, <2>9
<1> QED
  BY <1>1, <1>2

\* Each step keeps what a request has answered.
LEMMA NextAInv == IInv /\ Typed /\ AInv /\ [Next]_vars => AInv'
<1> SUFFICES ASSUME IInv, Typed, AInv, [Next]_vars
             PROVE  AInv'
  OBVIOUS
<1>1. CASE Minit
  <2>1. requests' = 0 /\ phase' # "request"
    BY <1>1 DEF Minit, IInv, Installed
  <2> QED
    BY <2>1 DEF AInv, OneAnswer
<1>2. CASE Rinit
  <2>1. phase' \in {"request", "dead"} /\ logged' = FALSE
    BY <1>2 DEF Rinit, SetUp
  <2> QED
    BY <2>1 DEF AInv, OneAnswer
<1>3. CASE Log
  <2>1. errors'.levels # {} /\ phase' = "request"
    BY <1>3 DEF Log, IInv, prof_add_warning, prof_add_error_message, ErrorsType
  <2> QED
    BY <2>1 DEF AInv, OneAnswer
<1>4. CASE UserCode
  <2>1. /\ phase' \in {phase, "lost"}
        /\ UNCHANGED <<config, requests, logged, abandoned, shown, errors>>
    BY <1>4 DEF UserCode
  <2> QED
    BY <2>1 DEF AInv, OneAnswer
<1>5. CASE Rshutdown
  <2>1. /\ phase = "request" /\ phase' \in {"late", "idle"} /\ Show
        /\ config' = config /\ logged' = logged
    BY <1>5 DEF Rshutdown, EndOfRequest
  <2>2. ASSUME config.mode \in Modes
        PROVE  /\ Cardinality(AnswersIn(shown')) = IF abandoned' THEN 0 ELSE 1
               /\ logged => shown'[1] \in {"messages", "general"}
    BY <2>1, <2>2, ShowAnswers DEF IInv, AInv, prof_has_errors
  <2> QED
    BY <2>1, <2>2 DEF AInv, OneAnswer, AnswersIn
<1>6. CASE RequestOver
  <2>1. /\ phase = "late" /\ phase' = "idle"
        /\ UNCHANGED <<config, requests, logged, abandoned, shown>>
    BY <1>6 DEF RequestOver, EndOfRequest
  <2> QED
    BY <2>1 DEF AInv, OneAnswer
<1>7. CASE Mshutdown
  BY <1>7 DEF Mshutdown, AInv, OneAnswer
<1>8. CASE UNCHANGED vars
  BY <1>8 DEF vars, AInv, OneAnswer
<1> QED
  BY <1>1, <1>2, <1>3, <1>4, <1>5, <1>6, <1>7, <1>8 DEF Next

(***************************************************************************)
(* A request that is profiled shows one answer, and an error that was      *)
(* logged while the script ran is never followed by a profile              *)
(* (prof.c:87-134).                                                        *)
(***************************************************************************)
THEOREM Answered == Spec => []OneAnswer
<1>1. Init => AInv
  BY DEF Init, AInv, OneAnswer
<1>2. Spec => []Typed
  BY InitTyped, NextTyped, PTL DEF Spec
<1>3. AInv => OneAnswer
  BY DEF AInv
<1> QED
  BY <1>1, <1>2, <1>3, NextAInv, Inductive, PTL DEF Spec
=============================================================================
