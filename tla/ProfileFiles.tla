---------------------------- MODULE ProfileFiles ----------------------------
(***************************************************************************)
(* The files that sampling mode writes at request shutdown (src/sampling.c,*)
(* src/gzencode.c, prof.c): callgrind.out, an entry per unit, and          *)
(* cpu.pprof, a compressed message of PprofProfile.  Its string table is   *)
(* built from a hash table once all strings have been numbered.            *)
(*                                                                         *)
(* The output file is stdio's: what is written is buffered, and a full     *)
(* disk may show when it is written or only when the file is closed.       *)
(*                                                                         *)
(* No sample is taken meanwhile: no code of the script runs (Sampling).    *)
(***************************************************************************)
EXTENDS PprofProfile, ProfErrors

CONSTANTS
  Tables,              \* what sampling may have left in sampling_units:
                       \*   sequences of SamplingUnit
  sampling_interval,   \* in microseconds
  sampling_threshold,
  Faults               \* what may happen:
                       \*   "clock"    clock_gettime fails
                       \*   "open"     the file cannot be opened
                       \*   "gzip"     the message cannot be compressed
                       \*   "write"    a write to the file fails
                       \*   "close"    writing the buffer at the end fails
                       \*   "bailout"  an allocation hits the memory limit

SamplingUnit == [name : Strings, filename : Strings, lineno : Nat, hits : Nat]

ASSUME ProfileFilesAssumption ==
  /\ Tables \subseteq Seq(SamplingUnit)
  /\ {"", "samples", "count", "cpu", "nanoseconds"} \subseteq Strings
  /\ sampling_interval \in Nat /\ sampling_threshold \in Nat
  /\ Faults \subseteq {"clock", "open", "gzip", "write", "close", "bailout"}

VARIABLES
  step,             \* what comes next, see Steps
  output_mode,      \* "console" leads to ResultTable
  sampling_units,
  collected,        \* history: sampling_units as it was
  next,             \* the position of the loop over the units
  string_table_map, \* [map : key -> index, i : the next index]
  profile,          \* the pprof message
  entries,          \* written to callgrind.out
  file,             \* "absent", "old", "empty", "partial" or "complete"
  message           \* what prof_print_errors printed

written == <<string_table_map, profile, entries>>
filesVars == <<step, output_mode, sampling_units, collected, next, written, file,
               message, errors>>

WriterSteps == {"threshold", "units", "strings", "write"}
Steps == WriterSteps \cup {"open", "close", "errors", "done", "abandoned"}

(***************************************************************************)
(* A key that comes from a literal has the terminating zero in its length, *)
(* so it differs from that of a function of this name.                     *)
(***************************************************************************)
Literal(text) == [text |-> text, zero |-> TRUE]
Str(text) == [text |-> text, zero |-> FALSE]

\* Mutated forms: the index is taken again when the string is known, and
\* taken after the counter moved on.
InternedAgain(table, key) ==
  [map |-> [k \in DOMAIN table.map \cup {key} |->
              IF k = key THEN table.i ELSE table.map[k]],
   i |-> table.i + 1]

InternedLate(table, key) ==
  IF key \in DOMAIN table.map THEN table
  ELSE [map |-> [k \in DOMAIN table.map \cup {key} |->
                   IF k = key THEN table.i + 1 ELSE table.map[k]],
        i |-> table.i + 1]

Interned(table, key) ==
  IF key \in DOMAIN table.map THEN table
  ELSE [map |-> [k \in DOMAIN table.map \cup {key} |->
                   IF k = key THEN table.i ELSE table.map[k]],
        i |-> table.i + 1]

AllInterned(table, keys) == FoldLeft(Interned, table, keys)

EmptyMap == [map |-> [k \in {} |-> 0], i |-> 1]

SampleTypes == <<Literal("samples"), Literal("count"), Literal("cpu"),
                 Literal("nanoseconds")>>

FilesInit ==
  /\ collected \in Tables /\ sampling_units = collected /\ next = 1
  /\ string_table_map = EmptyMap /\ profile = PROFILE__INIT /\ entries = << >>
  /\ file \in {"absent", "old"} /\ message = "nothing"
  /\ errors = [live |-> TRUE, levels |-> {}]

-----------------------------------------------------------------------------
Open ==
  /\ step = "open"
  /\ \/ /\ output_mode = "pprof" /\ "clock" \in Faults
        /\ prof_add_warning /\ step' = "errors" /\ UNCHANGED file
     \/ /\ "open" \in Faults
        /\ prof_add_error /\ step' = "errors" /\ UNCHANGED file
     \/ /\ file' = "empty"
        /\ step' = IF output_mode = "pprof" THEN "threshold" ELSE "units"
        /\ UNCHANGED errors
  /\ UNCHANGED <<output_mode, sampling_units, collected, next, written, message>>

AboveThreshold(unit) == unit.hits > sampling_threshold

KeepAbove(kept, unit) == IF AboveThreshold(unit) THEN Append(kept, unit) ELSE kept

UnitsAbove(table) == FoldLeft(KeepAbove, << >>, table)

(***************************************************************************)
(* prof_sampling_apply_threshold on every unit, then the types of the      *)
(* samples and of the period.                                              *)
(***************************************************************************)
ApplyThreshold ==
  /\ step = "threshold" /\ step' = "units"
  /\ sampling_units' = UnitsAbove(sampling_units)
  /\ LET interned == AllInterned(string_table_map, SampleTypes)
         Type(type, unit) == [type |-> interned.map[type], unit |-> interned.map[unit]]
         cpu == Type(Literal("cpu"), Literal("nanoseconds"))
     IN  /\ string_table_map' = interned
         /\ profile' = [profile EXCEPT
              !.sample_type = <<Type(Literal("samples"), Literal("count")), cpu>>,
              !.period_type = cpu, !.period = sampling_interval]
  /\ UNCHANGED <<output_mode, collected, next, entries, file, message, errors>>

Nanoseconds(microseconds) == microseconds * 1000

(***************************************************************************)
(* A unit becomes a function, a location and a sample, the ids of which    *)
(* are the places they get.                                                *)
(***************************************************************************)
AddUnitAs(unit, location_id) ==
  LET interned == AllInterned(string_table_map, <<Str(unit.name), Str(unit.filename)>>)
      name == interned.map[Str(unit.name)]
      id == Len(profile.function) + 1
  IN  /\ string_table_map' = interned
      /\ profile' = [profile EXCEPT
           !.function = Append(@,
              [id |-> id, name |-> name, system_name |-> name,
               filename |-> interned.map[Str(unit.filename)],
               start_line |-> unit.lineno]),
           !.location = Append(@,
              [id |-> Len(@) + 1, mapping_id |-> 1,
               line |-> <<[function_id |-> id, line |-> unit.lineno]>>]),
           !.sample = Append(@,
              [location_id |-> <<location_id>>,
               value |-> <<unit.hits, Nanoseconds(unit.hits * sampling_interval)>>])]

\* A mutated form: a sample refers to the location that comes next.
AddUnitOffByOne(unit) == AddUnitAs(unit, Len(profile.location) + 2)

AddUnit(unit) == AddUnitAs(unit, Len(profile.location) + 1)

(***************************************************************************)
(* fprintf to callgrind.out.  Nothing looks at its result.                 *)
(***************************************************************************)
WriteEntry(unit) ==
  \/ entries' = KeepAbove(entries, unit)
  \/ "write" \in Faults /\ AboveThreshold(unit) /\ UNCHANGED entries

UnitStep ==
  /\ step = "units"
  /\ IF next > Len(sampling_units)
     THEN /\ step' = IF output_mode = "pprof" THEN "strings" ELSE "close"
          /\ UNCHANGED <<next, written>>
     ELSE /\ IF output_mode = "pprof"
             THEN AddUnit(sampling_units[next]) /\ UNCHANGED entries
             ELSE /\ WriteEntry(sampling_units[next])
                  /\ UNCHANGED <<string_table_map, profile>>
          /\ next' = next + 1
          /\ UNCHANGED step
  /\ UNCHANGED <<output_mode, sampling_units, collected, file, message, errors>>

(***************************************************************************)
(* The mapping, and the array of strings: the empty one, and each string   *)
(* at its index.                                                           *)
(***************************************************************************)
FillStrings ==
  /\ step = "strings" /\ step' = "write"
  /\ profile' = [profile EXCEPT
       !.mapping = <<[id |-> 1, has_functions |-> TRUE]>>,
       !.string_table =
          [k \in 1..string_table_map.i |->
             IF k = 1 THEN ""
             ELSE LET keys == {key \in DOMAIN string_table_map.map :
                                 string_table_map.map[key] = k - 1}
                  IN  IF keys = {} THEN Unset ELSE (CHOOSE key \in keys : TRUE).text]]
  /\ UNCHANGED <<output_mode, sampling_units, collected, next, string_table_map,
                 entries, file, message, errors>>

-----------------------------------------------------------------------------
\* A mutated form: a failure to compress is not reported.
WriteProfileSilent ==
  /\ step = "write" /\ step' = "close"
  /\ \/ "gzip" \in Faults /\ UNCHANGED <<errors, file>>
     \/ "write" \in Faults /\ prof_add_error /\ file' = "partial"
     \/ file' = "complete" /\ UNCHANGED errors
  /\ UNCHANGED <<output_mode, sampling_units, collected, next, written, message>>

(***************************************************************************)
(* The message is packed, compressed and given to fwrite.                  *)
(***************************************************************************)
gzencode == {"compressed"} \cup IF "gzip" \in Faults THEN {"NULL"} ELSE {}

WriteProfile ==
  /\ step = "write" /\ step' = "close"
  /\ \E gzprofile \in gzencode :
       \/ gzprofile = "NULL" /\ prof_add_error /\ UNCHANGED file
       \/ /\ gzprofile # "NULL"
          /\ \/ "write" \in Faults /\ prof_add_error /\ file' = "partial"
             \/ file' = "complete" /\ UNCHANGED errors
  /\ UNCHANGED <<output_mode, sampling_units, collected, next, written, message>>

(***************************************************************************)
(* fclose.  Nothing looks at its result either.                            *)
(***************************************************************************)
Close ==
  /\ step = "close" /\ step' = "errors"
  /\ LET stored == IF output_mode = "pprof" THEN file
                   ELSE IF entries = UnitsAbove(sampling_units)
                   THEN "complete" ELSE "partial"
     IN  \/ file' = stored
         \/ "close" \in Faults /\ stored # "empty" /\ file' = "partial"
  /\ UNCHANGED <<output_mode, sampling_units, collected, next, written, message,
                 errors>>

(***************************************************************************)
(* An allocation of a writer hits the memory limit: the engine leaves      *)
(* RSHUTDOWN, and the file stays as it is.                                 *)
(***************************************************************************)
WriterBails ==
  /\ "bailout" \in Faults
  /\ step \in WriterSteps /\ (output_mode = "callgrind" => next = 1)
  /\ step' = "abandoned"
  /\ UNCHANGED <<output_mode, sampling_units, collected, next, written, file,
                 message, errors>>

(***************************************************************************)
(* The second call of prof_print_errors in PHP_RSHUTDOWN.                  *)
(***************************************************************************)
PrintErrors ==
  /\ step = "errors" /\ step' = "done"
  /\ message' = prof_print_errors(errors)
  /\ prof_shutdown_errors
  /\ UNCHANGED <<output_mode, sampling_units, collected, next, written, file>>

FilesNext ==
  \/ Open \/ ApplyThreshold \/ UnitStep \/ FillStrings \/ WriteProfile
  \/ Close \/ WriterBails \/ PrintErrors

-----------------------------------------------------------------------------
FilesTypeOK ==
  /\ next \in Nat \ {0}
  /\ string_table_map.i \in Nat \ {0}
  /\ \A key \in DOMAIN string_table_map.map :
       string_table_map.map[key] \in 1..(string_table_map.i - 1)
  /\ profile \in Profile
  /\ file \in {"absent", "old", "empty", "partial", "complete"}
  /\ message \in {"nothing", "general", "messages"} /\ errors \in ErrorsType

Written(mode) == step = "done" /\ file = "complete" /\ output_mode = mode

(***************************************************************************)
(* A message that is written is one that profile.proto allows.             *)
(***************************************************************************)
WellFormed == Written("pprof") => IsValid(profile)

(***************************************************************************)
(* Following the references of the message from each sample, or reading    *)
(* the entries of callgrind.out, gives the units above the threshold, with *)
(* their names, files, lines and hits, each once and in order.             *)
(***************************************************************************)
FileHasUnits ==
  LET due == UnitsAbove(collected)
  IN  /\ Written("callgrind") => entries = due
      /\ Written("pprof") =>
           due = [i \in DOMAIN profile.sample |-> Decoded(profile, profile.sample[i])]

(***************************************************************************)
(* The period of the profile is in the unit of its period type: as many    *)
(* nanoseconds pass between samples as it says (profile.proto:84-86), so   *)
(* the time given for a sample is its hits times the period.               *)
(***************************************************************************)
PeriodInItsUnit ==
  Written("pprof") =>
    \A s \in ToSet(profile.sample) : s.value[2] = s.value[1] * profile.period
=============================================================================
