----------------------------- MODULE PprofProfile -----------------------------
(***************************************************************************)
(* The messages of a pprof profile (src/profile.pb-c.h), with the fields   *)
(* that the extension sets but for the time and the duration; the others   *)
(* keep what their _INIT macros give them.  A message is referred to by    *)
(* its id, and a string by its index in the string table, in which the     *)
(* index 0 comes first.                                                    *)
(***************************************************************************)
EXTENDS Integers, SequencesExt

CONSTANTS
  Strings,   \* what may be in the string table
  Unset      \* what an array has where nothing was stored

ASSUME UnsetAssumption == Unset \notin Strings

ValueType == [type : Nat, unit : Nat]
Sample    == [location_id : Seq(Nat), value : Seq(Int)]
Line      == [function_id : Nat, line : Nat]
Location  == [id : Nat, mapping_id : Nat, line : Seq(Line)]
Function  == [id : Nat, name : Nat, system_name : Nat, filename : Nat, start_line : Nat]
Mapping   == [id : Nat, has_functions : BOOLEAN]

Profile ==
  [sample_type : Seq(ValueType), sample : Seq(Sample), mapping : Seq(Mapping),
   location : Seq(Location), function : Seq(Function),
   string_table : Seq(Strings \cup {Unset}),
   period_type : ValueType, period : Nat]

PROFILE__INIT ==
  [sample_type |-> << >>, sample |-> << >>, mapping |-> << >>, location |-> << >>,
   function |-> << >>, string_table |-> << >>,
   period_type |-> [type |-> 0, unit |-> 0], period |-> 0]

String(profile, index) == profile.string_table[index + 1]

IdsOf(messages) == {messages[i].id : i \in DOMAIN messages}

(***************************************************************************)
(* The indexes of strings that a message and its parts hold.               *)
(***************************************************************************)
IndexesOf(profile) ==
  (UNION {{t.type, t.unit} : t \in ToSet(profile.sample_type) \cup {profile.period_type}})
  \cup (UNION {{f.name, f.system_name, f.filename} : f \in ToSet(profile.function)})

(***************************************************************************)
(* What profile.proto asks of a message: ids are unique and nonzero (lines *)
(* 138, 164, 201), each message that is referred to is there, string 0 is  *)
(* empty (66), every index is one of the string table, no place of which   *)
(* was left unset, and all samples have a value for each sample type (109).*)
(***************************************************************************)
IsValid(profile) ==
  /\ \A messages \in {profile.function, profile.location, profile.mapping} :
       Cardinality(IdsOf(messages)) = Len(messages) /\ 0 \notin IdsOf(messages)
  /\ \A location \in ToSet(profile.location) :
       /\ location.mapping_id \in IdsOf(profile.mapping) \cup {0}
       /\ \A l \in ToSet(location.line) : l.function_id \in IdsOf(profile.function)
  /\ \A sample \in ToSet(profile.sample) :
       /\ ToSet(sample.location_id) \subseteq IdsOf(profile.location)
       /\ Len(sample.value) = Len(profile.sample_type)
  /\ String(profile, 0) = ""
  /\ IndexesOf(profile) \subseteq 0..(Len(profile.string_table) - 1)
  /\ Unset \notin ToSet(profile.string_table)

(***************************************************************************)
(* What a reader finds who follows the references from a sample: the unit  *)
(* that it stands for.                                                     *)
(***************************************************************************)
Decoded(profile, sample) ==
  LET location == CHOOSE l \in ToSet(profile.location) : l.id = sample.location_id[1]
      line     == location.line[1]
      function == CHOOSE f \in ToSet(profile.function) : f.id = line.function_id
  IN  [name |-> String(profile, function.name),
       filename |-> String(profile, function.filename),
       lineno |-> line.line, hits |-> sample.value[1]]
=============================================================================
