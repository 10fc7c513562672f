---------------------------- MODULE FuncObserver ----------------------------
(***************************************************************************)
(* The handlers of func mode (src/func.c): the engine calls                *)
(* prof_observer_begin when an observed function starts and                *)
(* prof_observer_end when it ends.  A begin pushes the readings of the     *)
(* clock on func_start_units, an end pops one entry and adds the           *)
(* difference to the function's entry of func_units.                       *)
(*                                                                         *)
(* The handlers get no identity of the call from the engine: which entry   *)
(* an end pops is decided by the order of the calls alone.  The modules    *)
(* FuncProfiler and FuncFibers put this component under two engines.       *)
(*                                                                         *)
(* Of the three quantities in a unit (wall, cpu, memory), which are read   *)
(* together and added together, the model keeps wall.                      *)
(***************************************************************************)
EXTENDS Integers, SequencesExt, ProfErrors, ProfHelpers

CONSTANTS
  Functions,  \* the functions of the program, records as in ProfHelpers
  Faults      \* the failures the engine and the system may produce:
              \*   "clock"    clock_gettime fails
              \*   "name"     get_function_or_method_name has no name
              \*   "bailout"  the engine abandons the running code

ASSUME FaultsAssumption == Faults \subseteq {"clock", "name", "bailout"}

VARIABLES
  now,              \* the monotonic clock
  func_start_units, \* the stack of start readings
  func_units        \* function name -> what was measured for it

Names == {get_function_name(f) : f \in Functions}

FuncUnit == [wall : Int, calls : Nat]

IsUnitTable(t) == DOMAIN t \subseteq Names /\ t \in [DOMAIN t -> FuncUnit]

(***************************************************************************)
(* prof_observer: the code of a file has no function_name and gets no      *)
(* handlers.                                                               *)
(***************************************************************************)
prof_observer(f) == f.name # NoName

NoUnits == [n \in {} |-> 0]

prof_func_setup ==
  /\ func_start_units' = << >>
  /\ func_units' = NoUnits

prof_func_teardown ==
  /\ func_start_units' = << >>
  /\ func_units' = NoUnits

\* A mutated form: a new entry is not zeroed.
FindOrAddUninitialised(units, name) ==
  IF name \in DOMAIN units THEN units[name] ELSE [wall |-> 0, calls |-> -2]

(***************************************************************************)
(* Find the entry of a name or add a zeroed one, and add one measurement.  *)
(***************************************************************************)
FindOrAdd(units, name) ==
  IF name \in DOMAIN units THEN units[name] ELSE [wall |-> 0, calls |-> 0]

Accumulate(units, name, wall) ==
  LET unit == FindOrAdd(units, name)
  IN  [n \in DOMAIN units \cup {name} |->
         IF n = name
         THEN [wall |-> unit.wall + wall, calls |-> unit.calls + 1]
         ELSE units[n]]

-----------------------------------------------------------------------------
\* Mutated forms of the definitions that follow.

BeginSkipsPush ==
  /\ UNCHANGED <<func_start_units, func_units>>
  /\ errors' = errors

EndKeepsSilent(f) ==
  \/ /\ func_start_units = << >> \/ Faults \cap {"clock", "name"} # {}
     /\ UNCHANGED <<errors, func_start_units, func_units>>
  \/ /\ func_start_units # << >>
     /\ func_start_units' = Front(func_start_units)
     /\ func_units' = Accumulate(func_units, get_function_name(f),
                                 now - Last(func_start_units))
     /\ UNCHANGED errors

EndNeedsStart(f) ==
  /\ func_start_units # << >>
  /\ func_start_units' = Front(func_start_units)
  /\ func_units' = Accumulate(func_units, get_function_name(f),
                              now - Last(func_start_units))
  /\ UNCHANGED errors

EndSkipsPop(f) ==
  /\ func_start_units # << >>
  /\ func_units' = Accumulate(func_units, get_function_name(f),
                              now - Last(func_start_units))
  /\ UNCHANGED <<errors, func_start_units>>

-----------------------------------------------------------------------------

prof_observer_begin ==
  /\ \/ func_start_units' = Append(func_start_units, now) /\ UNCHANGED errors
     \/ /\ "clock" \in Faults                \* get_prof_unit returns NULL
        /\ prof_add_warning
        /\ UNCHANGED func_start_units
  /\ UNCHANGED func_units

prof_observer_end(f) ==
  \/ /\ \/ "clock" \in Faults                \* get_prof_unit returns NULL
        \/ "name" \in Faults                 \* no function name
        \/ func_start_units = << >>          \* no start unit
     /\ prof_add_warning
     /\ UNCHANGED <<func_start_units, func_units>>
  \/ /\ func_start_units # << >>
     /\ func_start_units' = Front(func_start_units)
     /\ func_units' = Accumulate(func_units, get_function_name(f),
                                 now - Last(func_start_units))
     /\ UNCHANGED errors

(***************************************************************************)
(* An end whose allocation of a new entry hits the memory limit: the       *)
(* engine jumps out of the handler after the start unit was popped.        *)
(***************************************************************************)
prof_observer_end_bails(f) ==
  /\ func_start_units # << >>
  /\ get_function_name(f) \notin DOMAIN func_units
  /\ func_start_units' = Front(func_start_units)
  /\ UNCHANGED <<errors, func_units>>

-----------------------------------------------------------------------------
(***************************************************************************)
(* What really happened, for the modules that put the handlers under an    *)
(* engine: a ledger has, for every name, the completed calls and the time  *)
(* between the start and the end of those very calls.                      *)
(***************************************************************************)
EmptyLedger == [n \in Names |-> [wall |-> 0, calls |-> 0]]

Credited(l, call) ==
  IF prof_observer(call.fn)
  THEN [l EXCEPT ![get_function_name(call.fn)] =
          [wall |-> @.wall + (now - call.began), calls |-> @.calls + 1]]
  ELSE l

(***************************************************************************)
(* A ledger as a table, with rows for what was called only; and a table as *)
(* a ledger, with zeroes for the names that have no row.                   *)
(***************************************************************************)
Recorded(l) == [n \in {m \in Names : l[m].calls > 0} |-> l[n]]

Total(t) == [n \in Names |-> FindOrAdd(t, n)]
=============================================================================
