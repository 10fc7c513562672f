----------------------------- MODULE FuncFigures -----------------------------
(***************************************************************************)
(* The figures of func mode (src/helpers.c, src/func.c): what the clocks   *)
(* and the allocator say at the start and at the end of a call, and what   *)
(* becomes of the differences.  FuncProfiler has the order of calls, their *)
(* failures and one of the three quantities; this module has all three, in *)
(* the fixed-width integers of the code, and under calls that are nested.  *)
(*                                                                         *)
(* Three things outside the script's code move the figures:                *)
(*  - The memory in use includes the stack and the table of the profiler,  *)
(*    both allocated while calls are in progress.                          *)
(*  - In a process that was forked the CPU clock starts again.  The model  *)
(*    goes on with the child, which has a copy of all the state.           *)
(*  - A reading fails, which leaves an entry in the log.                   *)
(*                                                                         *)
(* frames, ledger, torn, busy and recursive are history: the calls in      *)
(* progress with what the quantities were when they began, what calls      *)
(* really took, and the functions that had a call open at a fork, a call   *)
(* in which the profiler allocated, and a call within a call of the same.  *)
(***************************************************************************)
EXTENDS Integers, SequencesExt, ProfErrors

CONSTANTS
  Names,                        \* names of functions
  Faults,                       \* what may happen: "clock", a reading fails;
                                \*   "fork", the process forks
  Width,                        \* bits of a zend_ulong and of a zend_long
  STACK_BLOCK_SIZE,             \* elements by which the stack grows
  FUNC_UNITS_DEFAULT_CAPACITY,
  Kilo,                         \* 1024, in the memory's unit
  MaxChanges, MaxCalls          \* bounds of the model

ASSUME FiguresAssumption ==
  /\ Faults \subseteq {"clock", "fork"}
  /\ Width \in Nat /\ STACK_BLOCK_SIZE \in Nat \ {0}
  /\ FUNC_UNITS_DEFAULT_CAPACITY \in Nat /\ Kilo \in Nat
  /\ MaxChanges \in Nat /\ MaxCalls \in Nat

(***************************************************************************)
(* No clock runs through a whole unsigned integer in one request, and what *)
(* one function's calls can allocate, with what the profiler allocates     *)
(* meanwhile, is within a signed integer.                                  *)
(***************************************************************************)
ASSUME FitsAssumption ==
  /\ Width > 0 /\ MaxChanges < 2 ^ Width
  /\ LET perCall == 1 + MaxChanges + STACK_BLOCK_SIZE + 1 + FUNC_UNITS_DEFAULT_CAPACITY
     IN  MaxCalls * perCall < 2 ^ (Width - 1)

VARIABLES
  wall, cpu,         \* the clocks
  memory, own,       \* the memory in use by the script, and by the profiler
  changes,           \* how often the script changed one of these
  func_start_units,  \* readings [wall, cpu, memory]
  room,              \* the elements that the stack has room for
  func_units,        \* name -> [wall, cpu, memory, calls]
  frames,            \* [name, wall, cpu, memory, own]
  entered, ledger, torn, busy, recursive,
  printed

quantities == <<wall, cpu, memory, changes>>
profVars == <<own, func_start_units, room, func_units, errors>>
history == <<entered, ledger, torn, busy, recursive>>
vars == <<quantities, profVars, frames, history, printed>>

Zero == [wall |-> 0, cpu |-> 0, memory |-> 0, calls |-> 0]
NoRows == [n \in {} |-> Zero]
NoReport == [kind |-> "none", rows |-> NoRows]

Init ==
  /\ wall = 0 /\ cpu = 0 /\ memory = 1 /\ own = 0 /\ changes = 0
  /\ func_start_units = << >> /\ room = 0 /\ func_units = NoRows
  /\ errors = [live |-> TRUE, levels |-> {}]
  /\ frames = << >> /\ entered = 0 /\ ledger = [n \in Names |-> Zero]
  /\ torn = {} /\ busy = {} /\ recursive = {}
  /\ printed = NoReport

Running == printed = NoReport

-----------------------------------------------------------------------------
(***************************************************************************)
(* The script computes, waits, allocates, frees or forks.                  *)
(***************************************************************************)
Change ==
  /\ Running /\ changes < MaxChanges
  /\ changes' = changes + 1
  /\ UNCHANGED <<profVars, frames, entered, ledger, busy, recursive, printed>>

Compute == Change /\ wall' = wall + 1 /\ cpu' = cpu + 1 /\ UNCHANGED <<memory, torn>>

Wait == Change /\ wall' = wall + 1 /\ UNCHANGED <<cpu, memory, torn>>

Allocate ==
  /\ Change
  /\ memory' \in {memory - 1, memory + 1} \cap Nat
  /\ UNCHANGED <<wall, cpu, torn>>

NamesIn(calls) == {call.name : call \in ToSet(calls)}

Fork ==
  /\ "fork" \in Faults /\ Change
  /\ cpu' = 0
  /\ torn' = torn \cup NamesIn(frames)
  /\ UNCHANGED <<wall, memory>>

-----------------------------------------------------------------------------
(***************************************************************************)
(* get_prof_unit.  The unit itself is allocated before the memory is read, *)
(* at the start of a call as at its end, and freed by either handler.      *)
(***************************************************************************)
UnitSize == 1

get_prof_unit ==
  {[wall |-> wall, cpu |-> cpu, memory |-> memory + own + UnitSize]}

ReadingFails ==
  /\ "clock" \in Faults
  /\ prof_add_warning
  /\ UNCHANGED <<own, func_start_units, room, func_units>>

(***************************************************************************)
(* zend_stack_push allocates a block when the stack is full.               *)
(***************************************************************************)
prof_observer_begin ==
  \/ ReadingFails
  \/ \E unit \in get_prof_unit :
       /\ func_start_units' = Append(func_start_units, unit)
       /\ LET grown == IF Len(func_start_units) = room THEN STACK_BLOCK_SIZE ELSE 0
          IN  room' = room + grown /\ own' = own + grown
       /\ UNCHANGED <<func_units, errors>>

(***************************************************************************)
(* Differences of readings are those of unsigned integers.  That of the    *)
(* clocks is taken as it is; a sum of those of the memory is then signed.  *)
(***************************************************************************)
Difference(end, start) == (end - start) % (2 ^ Width)

Unsigned(n) == n % (2 ^ Width)      \* a mutated form

Signed(n) ==
  LET low == n % (2 ^ Width)
  IN  IF low >= 2 ^ (Width - 1) THEN low - 2 ^ Width ELSE low

\* A mutated form: the memory of the calls before is dropped.
AccumulatedLast(unit, start, end) ==
  [wall   |-> unit.wall + Difference(end.wall, start.wall),
   cpu    |-> unit.cpu + Difference(end.cpu, start.cpu),
   memory |-> Signed(Difference(end.memory, start.memory)),
   calls  |-> unit.calls + 1]

\* A mutated form: the clocks are mixed up.
AccumulatedMixed(unit, start, end) ==
  [wall   |-> unit.wall + Difference(end.cpu, start.cpu),
   cpu    |-> unit.cpu + Difference(end.wall, start.wall),
   memory |-> Signed(unit.memory + Difference(end.memory, start.memory)),
   calls  |-> unit.calls + 1]

Accumulated(unit, start, end) ==
  [wall   |-> unit.wall + Difference(end.wall, start.wall),
   cpu    |-> unit.cpu + Difference(end.cpu, start.cpu),
   memory |-> Signed(unit.memory + Difference(end.memory, start.memory)),
   calls  |-> unit.calls + 1]

(***************************************************************************)
(* The first unit that is added to the table allocates all its slots.      *)
(***************************************************************************)
RowSize(name) ==
  IF name \in DOMAIN func_units THEN 0
  ELSE 1 + IF func_units = NoRows THEN FUNC_UNITS_DEFAULT_CAPACITY ELSE 0

prof_observer_end(name) ==
  \/ ReadingFails
  \/ /\ func_start_units = << >>
     /\ prof_add_warning /\ UNCHANGED <<own, func_start_units, room, func_units>>
  \/ /\ func_start_units # << >>
     /\ func_start_units' = Front(func_start_units)
     /\ \E end \in get_prof_unit :
          LET unit == IF name \in DOMAIN func_units THEN func_units[name] ELSE Zero
          IN  func_units' = [n \in DOMAIN func_units \cup {name} |->
                IF n = name THEN Accumulated(unit, Last(func_start_units), end)
                ELSE func_units[n]]
     /\ own' = own + RowSize(name)
     /\ UNCHANGED <<room, errors>>

-----------------------------------------------------------------------------
(***************************************************************************)
(* Calls of observed functions, which are nested.                          *)
(***************************************************************************)
Enter(name) ==
  /\ Running /\ entered < MaxCalls
  /\ prof_observer_begin
  /\ frames' = Append(frames, [name |-> name, wall |-> wall, cpu |-> cpu,
                               memory |-> memory, own |-> own])
  /\ recursive' = recursive \cup ({name} \cap NamesIn(frames))
  /\ entered' = entered + 1
  /\ UNCHANGED <<quantities, ledger, torn, busy, printed>>

Leave ==
  /\ Running /\ frames # << >>
  /\ LET call == Last(frames)
     IN  /\ prof_observer_end(call.name)
         /\ ledger' = [ledger EXCEPT ![call.name] =
              [wall |-> @.wall + (wall - call.wall), cpu |-> @.cpu + (cpu - call.cpu),
               memory |-> @.memory + (memory - call.memory), calls |-> @.calls + 1]]
         /\ busy' = busy \cup IF own = call.own THEN {} ELSE {call.name}
  /\ frames' = Front(frames)
  /\ UNCHANGED <<quantities, entered, torn, recursive, printed>>

(***************************************************************************)
(* get_memory_with_units: the unit, and the amount without its sign.       *)
(***************************************************************************)
get_memory_with_units(amount) ==
  LET size == IF amount < 0 THEN - amount ELSE amount
  IN  [amount |-> size,
       unit |-> IF size < Kilo THEN "b" ELSE IF size < Kilo * Kilo THEN "kb" ELSE "mb"]

Row(unit) == [unit EXCEPT !.memory = get_memory_with_units(@)]

(***************************************************************************)
(* prof_func_print_result (ResultTable has which rows are printed), and    *)
(* prof_func_teardown.                                                     *)
(***************************************************************************)
Rshutdown ==
  /\ Running /\ frames = << >>
  /\ printed' = IF prof_has_errors THEN [kind |-> "errors", rows |-> NoRows]
                ELSE [kind |-> "table",
                      rows |-> [n \in DOMAIN func_units |-> Row(func_units[n])]]
  /\ prof_shutdown_errors
  /\ func_units' = NoRows /\ func_start_units' = << >> /\ room' = 0 /\ own' = 0
  /\ UNCHANGED <<quantities, frames, history>>

Next ==
  \/ Compute \/ Wait \/ Allocate \/ Fork \/ Leave \/ Rshutdown
  \/ \E name \in Names : Enter(name)

Spec == Init /\ [][Next]_vars

-----------------------------------------------------------------------------
(***************************************************************************)
(* The figures that are printed are those of the calls that the row says:  *)
(* wall times and counts whatever the process did, CPU times of functions  *)
(* that had no call open at a fork (helpers.c:24 reads the clock of the    *)
(* process, func.c:128 takes it for one that never goes back).             *)
(***************************************************************************)
FiguresExact ==
  \A n \in DOMAIN printed.rows :
    /\ printed.rows[n].wall = ledger[n].wall
    /\ printed.rows[n].calls = ledger[n].calls
    /\ n \notin torn => printed.rows[n].cpu = ledger[n].cpu

(***************************************************************************)
(* The memory of a function is what its own calls came to, provided that   *)
(* the profiler allocated nothing while they ran: reading the memory does  *)
(* not disturb it (helpers.c:11 and 30).  Its sign is not shown.           *)
(***************************************************************************)
UndisturbedMemoryExact ==
  \A n \in DOMAIN printed.rows \ busy :
    printed.rows[n].memory = get_memory_with_units(ledger[n].memory)

(***************************************************************************)
(* What the profiler allocates is added to functions in whose calls it     *)
(* happens, and to each that is not recursive at most once: its memory is  *)
(* off by no more than what the profiler has allocated, and never below    *)
(* what the script did (func.c:93, 122-124, 129).                          *)
(***************************************************************************)
OverheadBounded ==
  Running /\ errors.levels = {} =>
    \A n \in DOMAIN func_units \ recursive :
      func_units[n].memory - ledger[n].memory \in 0..own
=============================================================================
