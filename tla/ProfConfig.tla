----------------------------- MODULE ProfConfig -----------------------------
(***************************************************************************)
(* The configuration (src/prof_config.c): each setting is taken from the   *)
(* INI file or the command line, else from the environment, else it has a  *)
(* default; one that cannot be read stops PHP.                             *)
(*                                                                         *)
(* A string is a record                                                    *)
(*   [text   : the string,                                                 *)
(*    number : the number it starts with,                                  *)
(*    whole  : is there nothing behind that number].                       *)
(* Settings are given as a function from names to strings.                 *)
(* A threshold, a double in the code, is a number like the others.         *)
(***************************************************************************)
EXTENDS Integers

CONSTANT LONG_MAX      \* the largest zend_long

ASSUME LongAssumption == LONG_MAX \in Nat

Numbers == {"sampling_interval", "sampling_limit", "sampling_threshold",
            "func_limit", "func_threshold", "opcode_threshold"}

Settings == Numbers \cup {"mode", "output_mode"}

Modes == {"sampling", "func", "opcode"}

OutputModes == {"console", "callgrind", "pprof"}

NULL == [text |-> "", number |-> 0, whole |-> FALSE]

(***************************************************************************)
(* A string that is empty counts as one that is not there.                 *)
(***************************************************************************)
NotEmpty(name, strings) == name \in DOMAIN strings /\ strings[name].text # ""

\* A mutated form: the environment comes first.
EnvironmentFirst(name, ini, env) ==
  IF NotEmpty(name, env) THEN env[name]
  ELSE IF NotEmpty(name, ini) THEN ini[name] ELSE NULL

get_config_var(name, ini, env) ==
  IF NotEmpty(name, ini) THEN ini[name]
  ELSE IF NotEmpty(name, env) THEN env[name] ELSE NULL

(***************************************************************************)
(* strtol stops at the largest number there is, and so does not say that a *)
(* string has a larger one.                                                *)
(***************************************************************************)
strtol(value) == IF value.number > LONG_MAX THEN LONG_MAX ELSE value.number

parse_uint(value) == [ok |-> value.whole /\ value.number >= 0, res |-> strtol(value)]

parse_double(value) == [ok |-> value.whole /\ value.number >= 0, res |-> value.number]

parse(name, value) ==
  IF name \in {"func_threshold", "opcode_threshold"} THEN parse_double(value)
  ELSE parse_uint(value)

(***************************************************************************)
(* The defaults.  The thresholds of times are in microseconds.             *)
(***************************************************************************)
Default ==
  [mode |-> "none", output_mode |-> "console", sampling_interval |-> 1000,
   sampling_limit |-> 20, sampling_threshold |-> 1, func_limit |-> 50,
   func_threshold |-> 1, opcode_threshold |-> 0]

(***************************************************************************)
(* The globals of the module before anything is stored in them.            *)
(***************************************************************************)
Zeroed ==
  [mode |-> "none", output_mode |-> "console", sampling_interval |-> 0,
   sampling_limit |-> 0, sampling_threshold |-> 0, func_limit |-> 0,
   func_threshold |-> 0, opcode_threshold |-> 0]

Least(name) == CASE name = "sampling_interval" -> 100
                 [] name \in {"sampling_limit", "func_limit"} -> 1
                 [] OTHER -> 0

\* A mutated form: the bound of a setting is not looked at.
AcceptedUnbounded(name, value) ==
  \/ value = NULL
  \/ CASE name = "mode"         -> value.text \in Modes
       [] name = "output_mode"  -> value.text \in OutputModes
       [] OTHER                 -> parse(name, value).ok

\* A mutated form: any word is taken for a mode.
AcceptedAnyMode(name, value) ==
  \/ value = NULL
  \/ CASE name = "mode"         -> TRUE
       [] name = "output_mode"  -> value.text \in OutputModes
       [] OTHER                 -> /\ parse(name, value).ok
                                   /\ parse(name, value).res >= Least(name)

Accepted(name, value) ==
  \/ value = NULL
  \/ CASE name = "mode"         -> value.text \in Modes
       [] name = "output_mode"  -> value.text \in OutputModes
       [] OTHER                 -> /\ parse(name, value).ok
                                   /\ parse(name, value).res >= Least(name)

ValueOf(name, value) ==
  IF value = NULL THEN Default[name]
  ELSE IF name \in {"mode", "output_mode"} THEN value.text
  ELSE parse(name, value).res

(***************************************************************************)
(* Outside the command line the extension is off, whatever is set.         *)
(***************************************************************************)
build_config(sapi, ini, env) ==
  IF sapi # "cli" THEN [ok |-> TRUE, config |-> Zeroed]
  ELSE LET value(name) == get_config_var(name, ini, env)
       IN  [ok |-> \A name \in Settings : Accepted(name, value(name)),
            config |-> [name \in Settings |-> ValueOf(name, value(name))]]

(***************************************************************************)
(* The two readers in src/helpers.c, which nothing calls: a word that they *)
(* do not know is no error, and a string of the environment counts also    *)
(* when it is empty.                                                       *)
(***************************************************************************)
TextOf(name, ini, env) ==
  IF NotEmpty(name, ini) THEN ini[name].text
  ELSE IF name \in DOMAIN env THEN env[name].text ELSE ""

get_prof_mode(sapi, ini, env) ==
  IF sapi = "cli" /\ TextOf("mode", ini, env) \in Modes THEN TextOf("mode", ini, env) ELSE "none"

get_prof_output_mode(ini, env) ==
  LET mode == TextOf("output_mode", ini, env)
  IN  IF mode \in {"callgrind", "pprof"} THEN mode ELSE "console"
=============================================================================
