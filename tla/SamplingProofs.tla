--------------------------- MODULE SamplingProofs ---------------------------
(***************************************************************************)
(* Theorems about Sampling, for every set of functions, every set of       *)
(* faults and every bound.                                                 *)
(***************************************************************************)
EXTENDS Sampling, DataTheorems, SequenceTheorems, TLAPS

(***************************************************************************)
(* What exists at each step of a process in which no RSHUTDOWN ended       *)
(* early.  The lists overlap as the code's statements are ordered: the     *)
(* timer runs only between steps at which its handler is installed, and    *)
(* the handler goes past its first checks only while the script runs, when *)
(* the units and the log are both there.                                   *)
(***************************************************************************)
Unarmed  == {"idle", "init", "handle", "arm", "free", "unloaded"}
Handling == {"arm", "running", "total", "rows", "shutdown_errors",
             "disable", "disarm", "free"}
Logging  == {"init", "handle", "arm", "running", "total", "rows",
             "shutdown_errors"}
Counting == Handling \cup {"handle"}

Ordered ==
  /\ step # "killed"
  /\ step \in Unarmed => timer = "off"
  /\ step \in Handling => handler
  /\ step \in Logging => errors.live
  /\ step \in Counting => sampling_units.live
  /\ step # "running" => current_execute_data = << >>

IsTable(t) == t = [live |-> t.live, units |-> t.units]

IInv ==
  /\ step \in Steps /\ errors \in ErrorsType /\ IsTable(sampling_units)
  /\ ~ abandoned => Ordered

-----------------------------------------------------------------------------
LEMMA InitIInv == Init => IInv
BY DEF Init, IInv, Ordered, Steps, IsTable, Freed, NoErrorTable, ErrorsType,
       Handling, Logging, Counting

\* Adding an entry keeps the log.
LEMMA AddWarning ==
  ASSUME errors \in ErrorsType, prof_add_warning
  PROVE  errors' \in ErrorsType /\ errors'.live = errors.live
BY DEF prof_add_warning, prof_add_error_message, ErrorsType, ErrorLevels

\* Counting a hit keeps the table.
LEMMA CountKeeps ==
  ASSUME NEW f, NEW t, IsTable(t)
  PROVE  LET u == [t EXCEPT !.units = Count(f, @)]
         IN  IsTable(u) /\ u.live = t.live
BY DEF IsTable

\* A hit keeps the log and the table, and only kills a process that has
\* lost one of them.
LEMMA HitKeeps ==
  ASSUME NEW f, Hit(f), errors \in ErrorsType, IsTable(sampling_units)
  PROVE  /\ errors' \in ErrorsType /\ IsTable(sampling_units')
         /\ errors'.live = errors.live
         /\ sampling_units'.live = sampling_units.live
         /\ step' \in {step, "killed"}
         /\ errors.live /\ sampling_units.live => step' = step
<1>1. CASE /\ IF errors.live THEN prof_add_warning /\ UNCHANGED step
                ELSE step' = "killed" /\ UNCHANGED errors
           /\ UNCHANGED sampling_units
  BY <1>1, AddWarning
<1>2. CASE /\ IF sampling_units.live
                THEN /\ sampling_units' = [sampling_units EXCEPT !.units = Count(f, @)]
                     /\ UNCHANGED step
                ELSE step' = "killed" /\ UNCHANGED sampling_units
           /\ UNCHANGED errors
  <2>1. CASE sampling_units.live
    <3> DEFINE u == [sampling_units EXCEPT !.units = Count(f, @)]
    <3>1. IsTable(u) /\ u.live = sampling_units.live
      BY CountKeeps
    <3>2. sampling_units' = u /\ UNCHANGED <<step, errors>>
      BY <1>2, <2>1
    <3> HIDE DEF u
    <3> QED
      BY <3>1, <3>2
  <2>2. CASE ~ sampling_units.live
    BY <1>2, <2>2
  <2> QED
    BY <2>1, <2>2
<1> QED
  BY <1>1, <1>2 DEF Hit

\* The handler does the same, and does nothing when no code runs; at most it
\* ends the calls in progress.
LEMMA HandlerKeeps ==
  ASSUME prof_sigprof_handler, errors \in ErrorsType, IsTable(sampling_units)
  PROVE  /\ errors' \in ErrorsType /\ IsTable(sampling_units')
         /\ errors'.live = errors.live
         /\ sampling_units'.live = sampling_units.live
         /\ step' \in {step, "killed"}
         /\ errors.live /\ sampling_units.live => step' = step
         /\ current_execute_data = << >> => step' = step
         /\ current_execute_data' \in {current_execute_data, << >>}
<1>1. CASE ~ sampling_enabled \/ UserFrames(current_execute_data) = {}
  BY <1>1 DEF prof_sigprof_handler, cutShort
<1>2. CASE ~ (~ sampling_enabled \/ UserFrames(current_execute_data) = {})
  <2> DEFINE f == InnermostUser(current_execute_data)
  <2>1. current_execute_data # << >>
    BY <1>2 DEF UserFrames
  <2>2. CASE Hit(f) /\ UNCHANGED cutShort
    BY <2>1, <2>2, HitKeeps DEF cutShort
  <2>3. CASE HitBails(f)
    BY <2>1, <2>3 DEF HitBails
  <2> QED
    BY <1>2, <2>2, <2>3 DEF prof_sigprof_handler
<1> QED
  BY <1>1, <1>2

\* A signal at any step.
LEMMA SigprofIInv == IInv /\ Sigprof => IInv'
<1> SUFFICES ASSUME IInv, Sigprof
             PROVE  IInv'
  OBVIOUS
<1>1. timer # "off" /\ abandoned' = abandoned /\ handler' = handler
  BY DEF Sigprof
<1>2. CASE handler /\ step # "unloaded"
  <2>1. /\ errors' \in ErrorsType /\ IsTable(sampling_units')
        /\ errors'.live = errors.live
        /\ sampling_units'.live = sampling_units.live
        /\ step' \in {step, "killed"}
        /\ errors.live /\ sampling_units.live => step' = step
        /\ current_execute_data = << >> => step' = step
        /\ current_execute_data' \in {current_execute_data, << >>}
    BY <1>2, HandlerKeeps DEF Sigprof, IInv
  <2>2. ASSUME ~ abandoned
        PROVE  Ordered'
    <3>1. Ordered /\ step \notin Unarmed
      BY <1>1, <2>2 DEF IInv, Ordered
    <3>2. step' = step
      BY <2>1, <3>1 DEF Ordered, Logging, Counting, Handling
    <3> QED
      BY <1>1, <2>1, <3>1, <3>2 DEF Ordered
  <2> QED
    BY <1>1, <2>1, <2>2 DEF IInv, Steps
<1>3. CASE ~ (handler /\ step # "unloaded")
  <2>1. step' = "killed" /\ UNCHANGED <<sampling_units, errors>>
    BY <1>3 DEF Sigprof
  <2>2. abandoned
    <3> SUFFICES ASSUME Ordered, step \notin {"exited", "killed"}
                 PROVE  FALSE
      BY DEF IInv, Sigprof
    <3>1. step \notin Unarmed
      BY <1>1 DEF Ordered
    <3> QED
      BY <1>3, <3>1 DEF IInv, Ordered, Steps, Unarmed, Handling
  <2> QED
    BY <1>1, <2>1, <2>2 DEF IInv, Steps
<1> QED
  BY <1>2, <1>3

\* Each step of the process keeps the invariant.
LEMMA NextIInv == IInv /\ [Next]_vars => IInv'
<1> SUFFICES ASSUME IInv, [Next]_vars
             PROVE  IInv'
  OBVIOUS
<1> USE DEF IInv, Ordered, Steps, Unarmed, Handling, Logging, Counting
<1>1. CASE Rinit
  BY <1>1 DEF Rinit, prof_init_errors, ErrorsType
<1>2. CASE InitTable
  BY <1>2 DEF InitTable, Fresh, IsTable, history
<1>3. CASE SetHandler
  BY <1>3 DEF SetHandler, modeVars, history
<1>4. CASE StartTimer
  <2>1. /\ step = "arm" /\ step' \in {"running", "exited"}
        /\ UNCHANGED <<current_execute_data, handler, modeVars, history>>
    BY <1>4 DEF StartTimer
  <2> QED
    BY <2>1 DEF modeVars, history
<1>5. CASE Leave
  BY <1>5 DEF Leave, modeVars, history
<1>6. CASE SetTimeLimit
  BY <1>6 DEF SetTimeLimit, modeVars
<1>7. CASE Fork
  BY <1>7 DEF Fork, modeVars
<1>8. CASE ScriptOver
  BY <1>8 DEF ScriptOver, modeVars, history
<1>9. CASE Sigprof
  BY <1>9, SigprofIInv
<1>10. CASE PrintTotal
  BY <1>10 DEF PrintTotal, modeVars, history
<1>11. CASE PrintRows
  <2>1. CASE step' = "shutdown_errors" /\ UNCHANGED <<modeVars, abandoned>>
    BY <1>11, <2>1 DEF PrintRows, modeVars
  <2>2. CASE EndOfRequest /\ abandoned' = TRUE
    BY <2>2 DEF EndOfRequest, Freed, NoErrorTable, ErrorsType, IsTable
  <2> QED
    BY <1>11, <2>1, <2>2 DEF PrintRows
<1>12. CASE ShutdownErrors
  BY <1>12 DEF ShutdownErrors, prof_shutdown_errors, NoErrorTable, ErrorsType, history
<1>13. CASE Disable
  BY <1>13 DEF Disable, history
<1>14. CASE StopTimer
  <2>1. CASE timer' = "off" /\ step' = "free" /\ UNCHANGED <<sampling_units, errors, abandoned>>
    BY <1>14, <2>1 DEF StopTimer
  <2>2. CASE EndOfRequest /\ abandoned' = TRUE
    BY <2>2 DEF EndOfRequest, Freed, NoErrorTable, ErrorsType, IsTable
  <2> QED
    BY <1>14, <2>1, <2>2 DEF StopTimer
<1>15. CASE FreeTable
  BY <1>15 DEF FreeTable, EndOfRequest, Freed, NoErrorTable, ErrorsType, IsTable, history
<1>16. CASE Exit
  BY <1>16 DEF Exit, modeVars, history
<1>17. ASSUME NEW f \in Functions, Enter(f)
       PROVE  IInv'
  BY <1>17 DEF Enter, modeVars, history
<1>18. CASE UNCHANGED vars
  BY <1>18 DEF vars, modeVars, history
<1> QED
  BY <1>1, <1>2, <1>3, <1>4, <1>5, <1>6, <1>8, <1>9, <1>10, <1>11, <1>12, <1>13,
     <1>14, <1>15, <1>16, <1>17, <1>18, <1>7 DEF Next

(***************************************************************************)
(* What exists at each step of set-up, script, report and tear-down, for   *)
(* any interleaving of signals (sampling.c:49-84, prof.c:64-134).          *)
(***************************************************************************)
THEOREM Inductive == Spec => []IInv
BY InitIInv, NextIInv, PTL DEF Spec

(***************************************************************************)
(* No signal kills the process unless an RSHUTDOWN ended early             *)
(* (sampling.c:72).                                                        *)
(***************************************************************************)
THEOREM NoSignalKills == Spec => []NeverKilled
<1>1. IInv => NeverKilled
  BY DEF IInv, Ordered, NeverKilled
<1> QED
  BY <1>1, Inductive, PTL

-----------------------------------------------------------------------------
(***************************************************************************)
(* For what is printed: the units account for the samples that were due    *)
(* and whose handler was not left.  Outside of the script no code runs, so *)
(* that samples change nothing; the script runs with the mode enabled; and *)
(* what the log has no entry for, of what was kept, has been counted.      *)
(* This holds also after an RSHUTDOWN that ended early.                    *)
(***************************************************************************)
IsUnits(units) ==
  /\ IsFiniteSet(DOMAIN units) /\ units = [n \in DOMAIN units |-> units[n]]
  /\ \A n \in DOMAIN units :
       /\ units[n] = [hits |-> units[n].hits, filename |-> units[n].filename]
       /\ units[n].hits \in Nat

Named(name) == {f \in Functions : get_function_name(f) = name}

DueIn(counts, name) == SumFunctionOnSet(counts, Named(name))

Accounts(units, counts) ==
  /\ \A f \in Functions : counts[f] > 0 => get_function_name(f) \in DOMAIN units
  /\ \A name \in DOMAIN units :
       /\ units[name].hits = DueIn(counts, name)
       /\ \E f \in Functions :
            /\ counts[f] > 0 /\ get_function_name(f) = name
            /\ units[name].filename = f.filename
  /\ Sum(Hits(units)) = Sum(counts)

Typed ==
  /\ TypeOK /\ IsTable(sampling_units) /\ IsUnits(sampling_units.units)
  /\ \A f \in Functions : lost[f] <= taken[f]

BeforeRows == {"init", "handle", "arm", "running", "total"}
AfterTable == {"handle", "arm", "running", "total", "rows"}
AfterRows  == {"shutdown_errors", "disable", "disarm", "free"}

Started ==
  /\ step \notin {"running", "killed"} => current_execute_data = << >>
  /\ step \in {"init", "handle", "arm", "running"} => sampling_enabled
  /\ step \in {"total", "rows"} => errors.levels = {}

Counted ==
  /\ step = "init" => taken = NothingTaken /\ lost = NothingTaken
  /\ step \in AfterTable /\ errors.levels = {} => Accounts(sampling_units.units, Kept)

Reported ==
  /\ step \in BeforeRows => report = NoReport
  /\ step = "rows" =>
       /\ report = [kind |-> "table", total |-> Sum(Kept), rows |-> NoReport.rows]
       /\ Sum(Kept) # 0
  /\ step \in AfterRows /\ report.kind = "table" =>
       Accounts(report.rows, Kept) /\ report.total = Sum(Kept)

CInv == Typed /\ Started /\ Counted /\ Reported

\* The samples that were kept are natural numbers.
LEMMA KeptTyped == Typed => Kept \in [Functions -> Nat]
BY DEF Typed, TypeOK, Kept

\* They are what they were unless a sample is raised.
LEMMA KeptSame == UNCHANGED <<taken, lost>> => UNCHANGED Kept
BY DEF Kept

\* A sample is kept, or its handler is left.
LEMMA KeptOrLost ==
  ASSUME Typed, NEW f \in Functions, taken' = [taken EXCEPT ![f] = @ + 1]
  PROVE  /\ taken' \in [Functions -> Nat]
         /\ lost' = lost =>
              /\ Kept' = [Kept EXCEPT ![f] = @ + 1] /\ lost' \in [Functions -> Nat]
              /\ \A g \in Functions : lost'[g] <= taken'[g]
         /\ lost' = [lost EXCEPT ![f] = @ + 1] =>
              /\ Kept' = Kept /\ lost' \in [Functions -> Nat]
              /\ \A g \in Functions : lost'[g] <= taken'[g]
<1>1. /\ taken \in [Functions -> Nat] /\ lost \in [Functions -> Nat]
      /\ \A g \in Functions : lost[g] <= taken[g]
  BY DEF Typed, TypeOK
<1>2. ASSUME lost' = lost
      PROVE  Kept' = [Kept EXCEPT ![f] = @ + 1]
  <2>1. Kept' = [g \in Functions |-> taken'[g] - lost[g]]
    BY <1>2 DEF Kept
  <2>2. taken'[f] = taken[f] + 1 /\ \A g \in Functions \ {f} : taken'[g] = taken[g]
    BY <1>1
  <2>3. [Kept EXCEPT ![f] = @ + 1]
          = [g \in Functions |-> IF g = f THEN Kept[f] + 1 ELSE Kept[g]]
    BY DEF Kept
  <2>4. \A g \in Functions :
          taken'[g] - lost[g] = IF g = f THEN Kept[f] + 1 ELSE Kept[g]
    BY <1>1, <2>2 DEF Kept
  <2> QED
    BY <2>1, <2>3, <2>4
<1>3. ASSUME lost' = [lost EXCEPT ![f] = @ + 1]
      PROVE  Kept' = Kept
  BY <1>1, <1>3 DEF Kept
<1> QED
  BY <1>1, <1>2, <1>3

\* The counts that the models add up are sums over the functions of a name.
LEMMA SumsOfDue ==
  ASSUME NEW counts \in [Functions -> Nat], NEW name
  PROVE  /\ Sum([f \in Named(name) |-> counts[f]]) = DueIn(counts, name)
         /\ Sum(counts) = SumFunctionOnSet(counts, Functions)
<1> DEFINE some == [f \in Named(name) |-> counts[f]]
<1>1. IsFiniteSet(Named(name))
  BY SamplingAssumption, FS_Subset DEF Named
<1>2. Sum(some) = SumFunctionOnSet(some, Named(name))
  <2>1. Sum(some) = SumFunctionOnSet(some, DOMAIN some)
    BY SumOfFunction DEF Sum
  <2> QED
    BY <2>1
<1>3. SumFunctionOnSet(some, Named(name)) = SumFunctionOnSet(counts, Named(name))
  BY <1>1, SumOfSame
<1>4. Sum(counts) = SumFunctionOnSet(counts, Functions)
  <2>1. Sum(counts) = SumFunctionOnSet(counts, DOMAIN counts)
    BY SumOfFunction DEF Sum
  <2> QED
    BY <2>1
<1> QED
  BY <1>2, <1>3, <1>4 DEF DueIn

\* One more sample is due to its own name, and to no other.
LEMMA OneMoreDue ==
  ASSUME NEW counts \in [Functions -> Nat], NEW f \in Functions
  PROVE  LET more == [counts EXCEPT ![f] = @ + 1]
         IN  /\ more \in [Functions -> Nat]
             /\ Sum(more) = Sum(counts) + 1
             /\ \A name : DueIn(more, name) =
                  DueIn(counts, name) + IF name = get_function_name(f) THEN 1 ELSE 0
<1> DEFINE more == [counts EXCEPT ![f] = @ + 1]
<1>1. /\ more \in [Functions -> Nat] /\ more[f] = counts[f] + 1
      /\ \A g \in Functions \ {f} : more[g] = counts[g]
  OBVIOUS
<1> HIDE DEF more
<1>2. SumFunctionOnSet(more, Functions) = SumFunctionOnSet(counts, Functions) + 1
  BY <1>1, SamplingAssumption, SumAfterChange
<1>3. Sum(more) = Sum(counts) + 1
  BY <1>1, <1>2, SumsOfDue
<1>4. ASSUME NEW name
      PROVE  DueIn(more, name) =
               DueIn(counts, name) + IF name = get_function_name(f) THEN 1 ELSE 0
  <2>1. IsFiniteSet(Named(name)) /\ Named(name) \subseteq Functions
    BY SamplingAssumption, FS_Subset DEF Named
  <2>2. CASE name = get_function_name(f)
    <3>1. f \in Named(name)
      BY <2>2 DEF Named
    <3>2. SumFunctionOnSet(more, Named(name)) = SumFunctionOnSet(counts, Named(name)) + 1
      BY <1>1, <2>1, <3>1, SumAfterChange
    <3> QED
      BY <2>2, <3>2 DEF DueIn
  <2>3. CASE name # get_function_name(f)
    <3>1. \A g \in Named(name) : more[g] = counts[g]
      BY <1>1, <2>1, <2>3 DEF Named
    <3>2. SumFunctionOnSet(more, Named(name)) = SumFunctionOnSet(counts, Named(name))
      BY <2>1, <3>1, SumOfSame
    <3>3. SumFunctionOnSet(counts, Named(name)) \in Int
      BY <2>1, SumIsInt
    <3> QED
      BY <2>3, <3>2, <3>3 DEF DueIn
  <2> QED
    BY <2>2, <2>3
<1> QED
  BY <1>1, <1>3, <1>4 DEF more

\* Nothing is due to a name that no sample is due to.
LEMMA NothingDue ==
  ASSUME NEW counts \in [Functions -> Nat], NEW name,
         \A f \in Functions : counts[f] > 0 => get_function_name(f) # name
  PROVE  DueIn(counts, name) = 0
<1>1. IsFiniteSet(Named(name))
  BY SamplingAssumption, FS_Subset DEF Named
<1>2. \A f \in Named(name) : counts[f] = 0
  BY DEF Named
<1> QED
  BY <1>1, <1>2, SumOfZeroes DEF DueIn

\* What Count makes of the units.
LEMMA CountAdds ==
  ASSUME NEW f, NEW units, IsUnits(units)
  PROVE  LET name == get_function_name(f)
             more == Count(f, units)
         IN  /\ IsUnits(more) /\ DOMAIN more = DOMAIN units \cup {name}
             /\ \A n \in DOMAIN units \ {name} : more[n] = units[n]
             /\ name \in DOMAIN units =>
                  /\ more[name].hits = units[name].hits + 1
                  /\ more[name].filename = units[name].filename
             /\ name \notin DOMAIN units =>
                  more[name].hits = 1 /\ more[name].filename = f.filename
<1> DEFINE name == get_function_name(f)
           more == Count(f, units)
<1>1. DOMAIN more = DOMAIN units \cup {name} /\ more = [n \in DOMAIN more |-> more[n]]
  BY DEF Count
<1>2. IsFiniteSet(DOMAIN more)
  BY <1>1, FS_AddElement DEF IsUnits
<1>3. \A n \in DOMAIN units \ {name} : more[n] = units[n]
  BY DEF Count
<1>4. CASE name \in DOMAIN units
  <2>1. more[name] = [units[name] EXCEPT !.hits = @ + 1]
    BY <1>4 DEF Count
  <2>2. units[name] = [hits |-> units[name].hits, filename |-> units[name].filename]
        /\ units[name].hits \in Nat
    BY <1>4 DEF IsUnits
  <2>3. more[name] = [hits |-> units[name].hits + 1, filename |-> units[name].filename]
    BY <2>1, <2>2
  <2> HIDE DEF name, more
  <2>4. IsUnits(more)
    BY <1>1, <1>2, <1>3, <2>2, <2>3 DEF IsUnits
  <2> QED
    BY <1>1, <1>3, <1>4, <2>3, <2>4 DEF name, more
<1>5. CASE name \notin DOMAIN units
  <2>1. more[name] = [[hits |-> 0, filename |-> f.filename] EXCEPT !.hits = @ + 1]
    BY <1>5 DEF Count
  <2>2. more[name] = [hits |-> 1, filename |-> f.filename]
    BY <2>1
  <2> HIDE DEF name, more
  <2>3. IsUnits(more)
    BY <1>1, <1>2, <1>3, <2>2 DEF IsUnits
  <2> QED
    BY <1>1, <1>3, <1>5, <2>2, <2>3 DEF name, more
<1> QED
  BY <1>4, <1>5

\* The sum of the hits grows by one when a hit is counted.
LEMMA HitsGrow ==
  ASSUME NEW f, NEW units, IsUnits(units)
  PROVE  Sum(Hits(Count(f, units))) = Sum(Hits(units)) + 1
<1> DEFINE name == get_function_name(f)
           more == Count(f, units)
           h == Hits(units)
           k == Hits(more)
<1>1. /\ IsUnits(more) /\ DOMAIN more = DOMAIN units \cup {name}
      /\ \A n \in DOMAIN units \ {name} : more[n] = units[n]
      /\ name \in DOMAIN units =>
           /\ more[name].hits = units[name].hits + 1
           /\ more[name].filename = units[name].filename
      /\ name \notin DOMAIN units =>
           more[name].hits = 1 /\ more[name].filename = f.filename
  BY CountAdds
<1> HIDE DEF name, more
<1>2. /\ DOMAIN h = DOMAIN units /\ DOMAIN k = DOMAIN more
      /\ \A n \in DOMAIN units : h[n] = units[n].hits /\ h[n] \in Nat
      /\ \A n \in DOMAIN more : k[n] = more[n].hits
  BY DEF Hits, IsUnits
<1>3. Sum(h) = SumFunctionOnSet(h, DOMAIN h) /\ Sum(k) = SumFunctionOnSet(k, DOMAIN k)
  BY SumOfFunction DEF Sum
<1> HIDE DEF h, k
<1>4. IsFiniteSet(DOMAIN units) /\ \A n \in DOMAIN units : h[n] \in Int
  BY <1>2 DEF IsUnits
<1>5. CASE name \in DOMAIN units
  <2>1. DOMAIN k = DOMAIN units
    BY <1>1, <1>2, <1>5
  <2>2. k[name] = h[name] + 1 /\ \A n \in DOMAIN units \ {name} : k[n] = h[n]
    BY <1>1, <1>2, <1>5
  <2>3. SumFunctionOnSet(k, DOMAIN units) = SumFunctionOnSet(h, DOMAIN units) + 1
    BY <1>4, <1>5, <2>2, SumAfterChange
  <2> QED
    BY <1>2, <1>3, <2>1, <2>3 DEF h, k, more
<1>6. CASE name \notin DOMAIN units
  <2>1. k[name] = 1 /\ k[name] \in Int /\ \A n \in DOMAIN units : k[n] = h[n]
    BY <1>1, <1>2, <1>6
  <2>2. SumFunctionOnSet(k, DOMAIN units \cup {name})
          = k[name] + SumFunctionOnSet(h, DOMAIN units)
    BY <1>4, <1>6, <2>1, SumWithOneMore
  <2>3. SumFunctionOnSet(h, DOMAIN units) \in Int
    BY <1>2, <1>4, SumIsInt
  <2> QED
    BY <1>1, <1>2, <1>3, <2>1, <2>2, <2>3 DEF h, k, more
<1> QED
  BY <1>5, <1>6

\* Counting a hit for the function that the sample is due to keeps the account.
LEMMA CountAccounts ==
  ASSUME NEW f \in Functions, NEW counts \in [Functions -> Nat],
         NEW units, IsUnits(units), Accounts(units, counts)
  PROVE  Accounts(Count(f, units), [counts EXCEPT ![f] = @ + 1])
<1> DEFINE name == get_function_name(f)
           more == Count(f, units)
           due == [counts EXCEPT ![f] = @ + 1]
<1>1. /\ IsUnits(more) /\ DOMAIN more = DOMAIN units \cup {name}
      /\ \A n \in DOMAIN units \ {name} : more[n] = units[n]
      /\ name \in DOMAIN units =>
           /\ more[name].hits = units[name].hits + 1
           /\ more[name].filename = units[name].filename
      /\ name \notin DOMAIN units =>
           more[name].hits = 1 /\ more[name].filename = f.filename
  BY CountAdds
<1>2. /\ due \in [Functions -> Nat] /\ Sum(due) = Sum(counts) + 1
      /\ \A n : DueIn(due, n) = DueIn(counts, n) + IF n = name THEN 1 ELSE 0
  BY OneMoreDue
<1>3. due[f] = counts[f] + 1 /\ \A g \in Functions \ {f} : due[g] = counts[g]
  OBVIOUS
<1>4. Sum(Hits(more)) = Sum(Hits(units)) + 1
  BY HitsGrow
<1> HIDE DEF more, due
<1>5. \A g \in Functions : due[g] > 0 => get_function_name(g) \in DOMAIN more
  BY <1>1, <1>3 DEF Accounts
<1>6. due[f] > 0 /\ \A g \in Functions : counts[g] > 0 => due[g] > 0
  BY <1>3
<1>7. ASSUME NEW n \in DOMAIN more
      PROVE  /\ more[n].hits = DueIn(due, n)
             /\ \E g \in Functions :
                  /\ due[g] > 0 /\ get_function_name(g) = n
                  /\ more[n].filename = g.filename
  <2>1. CASE n # name
    <3>1. n \in DOMAIN units /\ more[n] = units[n]
      BY <1>1, <2>1
    <3>2. DueIn(due, n) = DueIn(counts, n) + 0
      BY <1>2, <2>1
    <3>3. units[n].hits \in Nat /\ units[n].hits = DueIn(counts, n)
      BY <3>1 DEF IsUnits, Accounts
    <3> QED
      BY <1>6, <3>1, <3>2, <3>3 DEF Accounts
  <2>2. CASE n = name /\ name \in DOMAIN units
    <3>1. DueIn(due, n) = DueIn(counts, n) + 1
      BY <1>2, <2>2
    <3>2. more[n].hits = DueIn(counts, n) + 1
      BY <1>1, <2>2 DEF Accounts
    <3>3. PICK g \in Functions : /\ counts[g] > 0 /\ get_function_name(g) = n
                                 /\ units[n].filename = g.filename
      BY <2>2 DEF Accounts
    <3> QED
      BY <1>1, <1>6, <2>2, <3>1, <3>2, <3>3
  <2>3. CASE n = name /\ name \notin DOMAIN units
    <3>1. DueIn(due, n) = DueIn(counts, n) + 1
      BY <1>2, <2>3
    <3>2. \A g \in Functions : counts[g] > 0 => get_function_name(g) # n
      BY <2>3 DEF Accounts
    <3>3. DueIn(counts, n) = 0
      BY <3>2, NothingDue
    <3>4. more[n].hits = DueIn(due, n)
      BY <1>1, <2>3, <3>1, <3>3
    <3>5. get_function_name(f) = n /\ more[n].filename = f.filename
      BY <1>1, <2>3
    <3> QED
      BY <1>6, <3>4, <3>5
  <2> QED
    BY <2>1, <2>2, <2>3
<1>8. Sum(Hits(more)) = Sum(due)
  BY <1>2, <1>4 DEF Accounts
<1> QED
  BY <1>5, <1>7, <1>8 DEF Accounts, more, due

\* Before the first sample there is nothing to account for.
LEMMA FreshAccounts ==
  /\ IsUnits(NoReport.rows)
  /\ \A counts \in [Functions -> Nat] :
       (\A f \in Functions : counts[f] = 0) <=> Accounts(NoReport.rows, counts)
<1> DEFINE none == NoReport.rows
<1>1. none = [n \in {} |-> 0] /\ DOMAIN none = {} /\ Hits(none) = [n \in {} |-> 0]
  BY DEF NoReport, Hits
<1>2. IsUnits(none)
  BY <1>1, FS_EmptySet DEF IsUnits
<1>3. Sum(Hits(none)) = 0
  <2>1. Sum(Hits(none)) = SumFunctionOnSet(Hits(none), DOMAIN Hits(none))
    BY SumOfFunction DEF Sum
  <2>2. DOMAIN Hits(none) = {}
    BY <1>1
  <2> QED
    BY <2>1, <2>2, SumOfNone
<1> HIDE DEF none
<1>4. ASSUME NEW counts \in [Functions -> Nat], \A f \in Functions : counts[f] = 0
      PROVE  Accounts(none, counts)
  <2>1. Sum(counts) = 0
    BY <1>4, SamplingAssumption, SumsOfDue, SumOfZeroes
  <2> QED
    BY <1>1, <1>3, <1>4, <2>1 DEF Accounts
<1>5. ASSUME NEW counts \in [Functions -> Nat], Accounts(none, counts),
             NEW f \in Functions
      PROVE  counts[f] = 0
  BY <1>1, <1>5 DEF Accounts
<1> QED
  BY <1>2, <1>4, <1>5 DEF none

\* The innermost call of user code is a call of some function.
LEMMA InnermostIsFunction ==
  ASSUME NEW frames \in Seq(Functions), UserFrames(frames) # {}
  PROVE  InnermostUser(frames) \in Functions
<1>1. UserFrames(frames) \subseteq 1..Len(frames) /\ Len(frames) \in Nat
  BY DEF UserFrames
<1>2. \E i \in UserFrames(frames) : \A j \in UserFrames(frames) : j <= i
  BY <1>1, LastPosition
<1> DEFINE i == CHOOSE i \in UserFrames(frames) : \A j \in UserFrames(frames) : j <= i
<1>3. i \in UserFrames(frames)
  BY <1>2
<1> HIDE DEF i
<1>4. frames[i] \in Functions
  BY <1>1, <1>3
<1> QED
  BY <1>4 DEF InnermostUser, i

LEMMA EmptyUnits ==
  /\ Freed.units = NoReport.rows /\ Fresh.units = NoReport.rows
  /\ IsTable(Freed) /\ IsTable(Fresh) /\ IsUnits(NoReport.rows)
  /\ Freed.live \in BOOLEAN /\ Fresh.live \in BOOLEAN
BY FreshAccounts DEF Freed, Fresh, NoReport, IsTable

\* TypeOK asks of hits what IsUnits does.
LEMMA UnitsTyped ==
  ASSUME NEW units, IsUnits(units)
  PROVE  \A n \in DOMAIN units : units[n].hits \in Nat
BY DEF IsUnits

LEMMA InitCInv == Init => CInv
<1> SUFFICES ASSUME Init
             PROVE  CInv
  OBVIOUS
<1>1. Typed
  <2>1. NothingTaken \in [Functions -> Nat] /\ << >> \in Seq(Functions)
        /\ \A f \in Functions : NothingTaken[f] <= NothingTaken[f]
    BY DEF NothingTaken
  <2>2. NoErrorTable \in ErrorsType
    BY DEF NoErrorTable, ErrorsType
  <2>3. IsTable(sampling_units) /\ IsUnits(sampling_units.units)
        /\ sampling_units.live \in BOOLEAN
    BY EmptyUnits DEF Init
  <2> QED
    BY <2>1, <2>2, <2>3, UnitsTyped DEF Init, Typed, TypeOK, Steps
<1>2. Started /\ Counted /\ Reported
  BY DEF Init, Started, Counted, Reported, AfterTable, BeforeRows, AfterRows
<1> QED
  BY <1>1, <1>2 DEF CInv

\* The end of a request leaves nothing to account for.
LEMMA EndCInv ==
  ASSUME CInv, EndOfRequest,
         step \notin {"running", "killed"},
         UNCHANGED <<current_execute_data, handler, sampling_enabled, requests, taken, lost,
                     report>>,
         timer' \in {"off", "every", "once"}
  PROVE  CInv'
<1>1. sampling_units' = Freed /\ errors' = NoErrorTable /\ step' \in {"idle", "unloaded"}
  BY DEF EndOfRequest
<1>2. Typed'
  <2>1. NoErrorTable \in ErrorsType
    BY DEF NoErrorTable, ErrorsType
  <2>2. IsTable(sampling_units') /\ IsUnits(sampling_units'.units)
        /\ sampling_units'.live \in BOOLEAN
    BY <1>1, EmptyUnits
  <2> QED
    BY <1>1, <2>1, <2>2, UnitsTyped DEF CInv, Typed, TypeOK, Steps
<1>3. Started' /\ Counted' /\ Reported'
  BY <1>1 DEF CInv, Started, Counted, Reported, AfterTable, BeforeRows, AfterRows
<1> QED
  BY <1>2, <1>3 DEF CInv

\* A sample outside of the script changes neither the units nor the log.
LEMMA SigprofNoCode ==
  ASSUME CInv, Sigprof, step # "running"
  PROVE  /\ step' \in {step, "killed"}
         /\ UNCHANGED <<current_execute_data, sampling_units, errors, taken, lost, report,
                       sampling_enabled>>
<1>1. current_execute_data = << >>
  BY DEF CInv, Started, Sigprof
<1>2. UserFrames(current_execute_data) = {}
  BY <1>1 DEF UserFrames
<1>3. taken' = taken
  BY <1>2 DEF Sigprof, Due
<1> QED
  BY <1>2, <1>3 DEF Sigprof, prof_sigprof_handler, cutShort

\* A sample of the script is due to the innermost function of user code and
\* counted for it, or it is logged, or kills the process, or is lost and ends
\* the calls in progress.
LEMMA SigprofOfScript ==
  ASSUME CInv, Sigprof, step = "running"
  PROVE  \/ UNCHANGED <<step, sampling_units, errors, taken, lost, current_execute_data>>
         \/ \E f \in Functions :
              /\ taken' = [taken EXCEPT ![f] = @ + 1]
              /\ UNCHANGED <<lost, current_execute_data>>
              /\ \/ step' = "killed" /\ UNCHANGED <<sampling_units, errors>>
                 \/ prof_add_warning /\ UNCHANGED <<step, sampling_units>>
                 \/ /\ sampling_units' = [sampling_units EXCEPT !.units = Count(f, @)]
                    /\ UNCHANGED <<step, errors>>
         \/ \E f \in Functions :
              /\ taken' = [taken EXCEPT ![f] = @ + 1]
              /\ lost' = [lost EXCEPT ![f] = @ + 1] /\ current_execute_data' = << >>
              /\ UNCHANGED <<step, sampling_units, errors>>
         \/ /\ step' = "killed"
            /\ UNCHANGED <<sampling_units, errors, taken, lost, current_execute_data>>
<1> DEFINE f == InnermostUser(current_execute_data)
<1>1. CASE UserFrames(current_execute_data) = {}
  BY <1>1 DEF Sigprof, Due, prof_sigprof_handler, cutShort
<1>2. CASE UserFrames(current_execute_data) # {}
  <2>1. f \in Functions
    BY <1>2, InnermostIsFunction DEF CInv, Typed, TypeOK
  <2>2. taken' = [taken EXCEPT ![f] = @ + 1]
    BY <1>2 DEF Sigprof, Due
  <2>3. sampling_enabled
    BY DEF CInv, Started
  <2> HIDE DEF f
  <2>4. CASE ~ (handler /\ step # "unloaded")
    BY <2>1, <2>2, <2>4 DEF Sigprof, cutShort
  <2>5. CASE handler /\ step # "unloaded"
    <3>1. (Hit(f) /\ UNCHANGED cutShort) \/ HitBails(f)
      BY <1>2, <2>3, <2>5 DEF Sigprof, prof_sigprof_handler, f
    <3>2. CASE Hit(f) /\ UNCHANGED cutShort
      BY <2>1, <2>2, <3>2 DEF Hit, cutShort
    <3>3. CASE HitBails(f)
      BY <2>1, <2>2, <3>3 DEF HitBails
    <3> QED
      BY <3>1, <3>2, <3>3
  <2> QED
    BY <2>4, <2>5
<1> QED
  BY <1>1, <1>2

\* A sample at any step.
LEMMA SigprofCInv == CInv /\ Sigprof => CInv'
<1> SUFFICES ASSUME CInv, Sigprof
             PROVE  CInv'
  OBVIOUS
<1>1. /\ timer' \in {"off", "every", "once"}
      /\ UNCHANGED <<handler, sampling_enabled, requests, report>>
  BY DEF Sigprof, CInv, Typed, TypeOK
<1>2. CASE step # "running"
  <2>1. /\ step' \in {step, "killed"}
        /\ UNCHANGED <<current_execute_data, sampling_units, errors, taken, lost, report,
                      sampling_enabled>>
    BY <1>2, SigprofNoCode
  <2>2. Kept' = Kept
    BY <2>1, KeptSame
  <2>3. Typed' /\ Started' /\ Counted' /\ Reported'
    BY <1>1, <2>1, <2>2 DEF CInv, Typed, TypeOK, Steps, Started, Counted, Reported,
                            BeforeRows, AfterTable, AfterRows
  <2> QED
    BY <2>3 DEF CInv
<1>3. CASE step = "running"
  <2>1. /\ step' \in {step, "killed"} => Started' /\ Reported'
        /\ step \in AfterTable /\ step # "init" /\ step \notin {"total", "rows"}
    BY <1>1, <1>3 DEF CInv, Started, Reported, BeforeRows, AfterTable, AfterRows
  <2>2. CASE /\ step' \in {step, "killed"}
             /\ UNCHANGED <<sampling_units, errors, taken, lost, current_execute_data>>
    <3>1. Kept' = Kept
      BY <2>2, KeptSame
    <3>2. Typed' /\ Counted'
      BY <1>1, <1>3, <2>2, <3>1 DEF CInv, Typed, TypeOK, Steps, Counted, AfterTable
    <3> QED
      BY <2>1, <2>2, <3>2 DEF CInv
  <2>3. ASSUME NEW f \in Functions, taken' = [taken EXCEPT ![f] = @ + 1],
               lost' = lost \/ lost' = [lost EXCEPT ![f] = @ + 1]
        PROVE  /\ taken' \in [Functions -> Nat] /\ lost' \in [Functions -> Nat]
               /\ \A g \in Functions : lost'[g] <= taken'[g]
    BY <2>3, KeptOrLost DEF CInv
  <2>4. ASSUME NEW f \in Functions, taken' = [taken EXCEPT ![f] = @ + 1],
               UNCHANGED <<lost, current_execute_data>>,
               step' = "killed", UNCHANGED <<sampling_units, errors>>
        PROVE  CInv'
    <3>1. Typed' /\ Counted'
      BY <1>1, <2>3, <2>4 DEF CInv, Typed, TypeOK, Steps, Counted, AfterTable
    <3> QED
      BY <2>1, <2>4, <3>1 DEF CInv
  <2>5. ASSUME NEW f \in Functions, taken' = [taken EXCEPT ![f] = @ + 1],
               UNCHANGED <<lost, current_execute_data>>,
               prof_add_warning, UNCHANGED <<step, sampling_units>>
        PROVE  CInv'
    <3>1. errors' \in ErrorsType /\ errors'.levels # {}
      BY <2>5 DEF prof_add_warning, prof_add_error_message, ErrorsType, ErrorLevels,
                  CInv, Typed, TypeOK
    <3>2. Typed' /\ Counted'
      BY <1>1, <1>3, <2>3, <2>5, <3>1 DEF CInv, Typed, TypeOK, Counted
    <3> QED
      BY <2>1, <2>5, <3>2 DEF CInv
  <2>6. ASSUME NEW f \in Functions, taken' = [taken EXCEPT ![f] = @ + 1],
               UNCHANGED <<lost, current_execute_data>>,
               sampling_units' = [sampling_units EXCEPT !.units = Count(f, @)],
               UNCHANGED <<step, errors>>
        PROVE  CInv'
    <3> DEFINE more == Count(f, sampling_units.units)
    <3>1. sampling_units' = [live |-> sampling_units.live, units |-> more]
          /\ sampling_units.live \in BOOLEAN
      BY <2>6 DEF CInv, Typed, TypeOK, IsTable
    <3>2. IsUnits(more)
      BY CountAdds DEF CInv, Typed
    <3>3. Kept' = [Kept EXCEPT ![f] = @ + 1] /\ Kept \in [Functions -> Nat]
      BY <2>6, KeptOrLost, KeptTyped DEF CInv
    <3>4. errors.levels = {} => Accounts(more, Kept')
      BY <2>1, <3>3, CountAccounts DEF CInv, Counted, Typed
    <3> HIDE DEF more
    <3>5. Typed'
      <4>1. /\ sampling_units'.units = more /\ sampling_units'.live \in BOOLEAN
            /\ IsTable(sampling_units')
        BY <3>1 DEF IsTable
      <4>2. \A n \in DOMAIN more : more[n].hits \in Nat
        BY <3>2, UnitsTyped
      <4> QED
        BY <1>1, <2>3, <2>6, <3>2, <4>1, <4>2 DEF CInv, Typed, TypeOK
    <3>6. Counted'
      BY <1>3, <2>6, <3>1, <3>4 DEF Counted
    <3> QED
      BY <2>1, <2>6, <3>5, <3>6 DEF CInv
  <2>7. ASSUME NEW f \in Functions, taken' = [taken EXCEPT ![f] = @ + 1],
               lost' = [lost EXCEPT ![f] = @ + 1], current_execute_data' = << >>,
               UNCHANGED <<step, sampling_units, errors>>
        PROVE  CInv'
    <3>1. Kept' = Kept
      BY <2>7, KeptOrLost DEF CInv
    <3>2. << >> \in Seq(Functions)
      OBVIOUS
    <3>3. Typed' /\ Counted'
      BY <1>1, <1>3, <2>3, <2>7, <3>1, <3>2 DEF CInv, Typed, TypeOK, Counted
    <3> QED
      BY <2>1, <2>7, <3>3 DEF CInv
  <2> QED
    BY <1>3, <2>2, <2>4, <2>5, <2>6, <2>7, SigprofOfScript
<1> QED
  BY <1>2, <1>3

\* The total that is printed is that of the samples; when it is nothing, the
\* table has no rows.
LEMMA PrintTotalCInv == CInv /\ PrintTotal => CInv'
<1> SUFFICES ASSUME CInv, PrintTotal
             PROVE  CInv'
  OBVIOUS
<1> DEFINE total == Sum(Hits(sampling_units.units))
<1>1. /\ step = "total" /\ step' = IF total = 0 THEN "shutdown_errors" ELSE "rows"
      /\ report' = [kind |-> "table", total |-> total, rows |-> NoReport.rows]
      /\ UNCHANGED <<current_execute_data, timer, handler, modeVars, requests, history>>
  BY DEF PrintTotal, NoReport
<1>2. total = Sum(Kept)
  BY <1>1 DEF CInv, Started, Counted, Accounts, AfterTable
<1> HIDE DEF total
<1>3. Kept \in [Functions -> Nat] /\ Kept' = Kept
  BY <1>1, KeptTyped, KeptSame DEF CInv, history
<1>4. CASE total = 0
  <2>1. \A f \in Functions : Kept[f] = 0
    BY <1>2, <1>3, <1>4, SumsOfDue, ZeroSum, SamplingAssumption
  <2>2. Accounts(NoReport.rows, Kept)
    BY <1>3, <2>1, FreshAccounts
  <2> QED
    BY <1>1, <1>2, <1>3, <1>4, <2>2 DEF CInv, Typed, TypeOK, Steps, Started, Counted, Reported,
       BeforeRows, AfterTable, AfterRows, modeVars, history
<1>5. CASE total # 0
  BY <1>1, <1>2, <1>3, <1>5 DEF CInv, Typed, TypeOK, Steps, Started, Counted, Reported,
     BeforeRows, AfterTable, AfterRows, modeVars, history
<1> QED
  BY <1>4, <1>5

\* Each step of the process keeps the account.
LEMMA NextCInv == CInv /\ [Next]_vars => CInv'
<1> SUFFICES ASSUME CInv, [Next]_vars
             PROVE  CInv'
  OBVIOUS
<1>0. /\ timer \in {"off", "every", "once"} /\ errors \in ErrorsType
      /\ current_execute_data \in Seq(Functions) /\ Kept \in [Functions -> Nat]
  BY KeptTyped DEF CInv, Typed, TypeOK
<1> USE KeptSame DEF CInv, Steps, BeforeRows, AfterTable, AfterRows
<1>1. CASE Rinit
  <2>1. errors' \in ErrorsType /\ NothingTaken \in [Functions -> Nat]
    BY <1>1 DEF Rinit, prof_init_errors, ErrorsType, NothingTaken
  <2>2. Typed'
    <3>1. /\ taken' = NothingTaken /\ lost' = NothingTaken /\ requests' = requests + 1
          /\ UNCHANGED <<current_execute_data, timer, handler, sampling_units>>
          /\ step' \in {"exited", "init"}
      BY <1>1 DEF Rinit
    <3>2. sampling_enabled' = sampling_enabled \/ sampling_enabled' = TRUE
      BY <1>1 DEF Rinit
    <3>3. sampling_enabled' \in BOOLEAN
      BY <3>2 DEF Typed, TypeOK
    <3>4. requests' \in Nat /\ step' \in Steps
      BY <3>1 DEF Typed, TypeOK
    <3>5. \A f \in Functions : NothingTaken[f] <= NothingTaken[f]
      BY <2>1
    <3> QED
      BY <2>1, <3>1, <3>3, <3>4, <3>5 DEF Typed, TypeOK
  <2> QED
    BY <1>1, <2>2 DEF Rinit, Started, Counted, Reported
<1>2. CASE InitTable
  <2>1. IsTable(Fresh) /\ IsUnits(Fresh.units) /\ Fresh.live \in BOOLEAN
        /\ Fresh.units = NoReport.rows
    BY EmptyUnits
  <2>2. Typed'
    BY <1>2, <2>1, UnitsTyped DEF InitTable, Typed, TypeOK, history
  <2>3. Accounts(Fresh.units, Kept)
    <3>1. \A f \in Functions : Kept[f] = 0
      BY <1>2 DEF InitTable, Counted, NothingTaken, Kept
    <3> QED
      BY <1>0, <2>1, <3>1, FreshAccounts
  <2> QED
    BY <1>2, <2>2, <2>3 DEF InitTable, Started, Counted, Reported, history
<1>3. CASE SetHandler
  BY <1>3 DEF SetHandler, modeVars, history, Typed, TypeOK, Started, Counted, Reported
<1>4. CASE StartTimer
  <2>1. /\ step = "arm" /\ step' \in {"running", "exited"}
        /\ timer' \in {"off", "every", "once"}
        /\ UNCHANGED <<current_execute_data, handler, modeVars, requests, history, report>>
    BY <1>0, <1>4 DEF StartTimer
  <2> QED
    BY <2>1 DEF modeVars, history, Typed, TypeOK, Started, Counted, Reported
<1>5. CASE Leave
  <2>1. current_execute_data' \in Seq(Functions)
    BY <1>0, <1>5 DEF Leave, Front
  <2> QED
    BY <1>5, <2>1 DEF Leave, modeVars, history, Typed, TypeOK, Started, Counted, Reported
<1>6. CASE SetTimeLimit
  BY <1>6 DEF SetTimeLimit, modeVars, Typed, TypeOK, Started, Counted, Reported
<1>7. CASE Fork
  BY <1>7 DEF Fork, modeVars, Typed, TypeOK, Started, Counted, Reported
<1>8. CASE ScriptOver
  <2>1. << >> \in Seq(Functions) /\ timer' \in {"off", "every", "once"}
    BY <1>0, <1>8 DEF ScriptOver
  <2>2. Typed'
    BY <1>8, <2>1 DEF ScriptOver, modeVars, history, Typed, TypeOK
  <2>3. CASE prof_has_errors
    BY <1>8, <2>2, <2>3 DEF ScriptOver, modeVars, history, Started, Counted, Reported, NoReport
  <2>4. CASE ~ prof_has_errors
    <3>1. errors.levels = {}
      BY <2>4 DEF prof_has_errors
    <3> QED
      BY <1>8, <2>2, <2>4, <3>1 DEF ScriptOver, modeVars, history, Started, Counted, Reported
  <2> QED
    BY <2>3, <2>4
<1>9. CASE Sigprof
  BY <1>9, SigprofCInv
<1>10. CASE PrintTotal
  BY <1>10, PrintTotalCInv
<1>11. CASE PrintRows
  <2>1. CASE /\ report' = [report EXCEPT !.rows = sampling_units.units]
             /\ step' = "shutdown_errors"
             /\ UNCHANGED <<modeVars, abandoned>>
    <3>1. step = "rows"
          /\ UNCHANGED <<current_execute_data, timer, handler, requests, taken, lost>>
      BY <1>11 DEF PrintRows
    <3>2. Accounts(sampling_units.units, Kept)
      BY <3>1 DEF Started, Counted
    <3>3. report' = [kind |-> "table", total |-> Sum(Kept), rows |-> sampling_units.units]
      BY <2>1, <3>1 DEF Reported
    <3> QED
      BY <2>1, <3>1, <3>2, <3>3 DEF modeVars, Typed, TypeOK, Started, Counted, Reported
  <2>2. CASE EndOfRequest /\ UNCHANGED <<sampling_enabled, report>>
    <3>1. /\ step \notin {"running", "killed"}
          /\ UNCHANGED <<current_execute_data, timer, handler, requests, taken, lost>>
      BY <1>11 DEF PrintRows
    <3> QED
      BY <1>0, <2>2, <3>1, EndCInv
  <2> QED
    BY <1>11, <2>1, <2>2 DEF PrintRows
<1>12. CASE ShutdownErrors
  <2>1. errors' \in ErrorsType
    BY <1>12 DEF ShutdownErrors, prof_shutdown_errors, NoErrorTable, ErrorsType
  <2> QED
    BY <1>12, <2>1 DEF ShutdownErrors, history, Typed, TypeOK, Started, Counted, Reported
<1>13. CASE Disable
  BY <1>13 DEF Disable, history, Typed, TypeOK, Started, Counted, Reported
<1>14. CASE StopTimer
  <2>1. CASE timer' = "off" /\ step' = "free" /\ UNCHANGED <<sampling_units, errors, abandoned>>
    BY <1>14, <2>1 DEF StopTimer, Typed, TypeOK, Started, Counted, Reported
  <2>2. CASE EndOfRequest /\ UNCHANGED timer
    <3>1. /\ step \notin {"running", "killed"}
          /\ UNCHANGED <<current_execute_data, handler, sampling_enabled, requests, taken,
                         lost, report>>
      BY <1>14 DEF StopTimer
    <3> QED
      BY <1>0, <2>2, <3>1, EndCInv
  <2> QED
    BY <1>14, <2>1, <2>2 DEF StopTimer
<1>15. CASE FreeTable
  <2>1. /\ step \notin {"running", "killed"} /\ EndOfRequest
        /\ UNCHANGED <<current_execute_data, timer, handler, sampling_enabled, requests,
                       taken, lost, report>>
    BY <1>15 DEF FreeTable, history
  <2> QED
    BY <1>0, <2>1, EndCInv
<1>16. CASE Exit
  BY <1>16 DEF Exit, modeVars, history, Typed, TypeOK, Started, Counted, Reported
<1>17. ASSUME NEW f \in Functions, Enter(f)
       PROVE  CInv'
  <2>1. current_execute_data' \in Seq(Functions)
    BY <1>0, <1>17 DEF Enter
  <2> QED
    BY <1>17, <2>1 DEF Enter, modeVars, history, Typed, TypeOK, Started, Counted, Reported
<1>18. CASE UNCHANGED vars
  BY <1>18 DEF vars, modeVars, history, Typed, TypeOK, Started, Counted, Reported
<1> QED
  BY <1>1, <1>2, <1>3, <1>4, <1>5, <1>6, <1>8, <1>9, <1>10, <1>11, <1>12, <1>13,
     <1>14, <1>15, <1>16, <1>17, <1>18, <1>7 DEF Next

(***************************************************************************)
(* The units and the report account for the samples at every step, for any *)
(* interleaving of signals and wherever the memory limit is hit            *)
(* (sampling.c:86-123, 323-356).                                           *)
(***************************************************************************)
THEOREM Accounting == Spec => []CInv
BY InitCInv, NextCInv, PTL DEF Spec

\* The variables of sampling mode have their types, whatever interrupts it.
THEOREM TypeCorrect == Spec => []TypeOK
<1>1. CInv => TypeOK
  BY DEF CInv, Typed
<1> QED
  BY <1>1, Accounting, PTL

(***************************************************************************)
(* A printed profile accounts for every sample whose handler was not left, *)
(* under its name, and its total is the sum of its rows, also when a       *)
(* signal arrives between the loop that adds up the hits and the one that  *)
(* prints them (sampling.c:86-123); those whose handler the memory limit   *)
(* ended (sampling.c:338-350) have left nothing in it.                     *)
(***************************************************************************)
THEOREM Complete == Spec => []ReportComplete
<1>1. CInv => ReportComplete
  <2> SUFFICES ASSUME CInv, report.kind = "table", step \in AfterRows
               PROVE  /\ report.total = Sum(Kept)
                      /\ \A f \in Functions : Kept[f] > 0 =>
                           get_function_name(f) \in DOMAIN report.rows
                      /\ \A name \in DOMAIN report.rows :
                           /\ report.rows[name].hits = KeptBy(name)
                           /\ \E f \in Functions :
                                /\ Kept[f] > 0 /\ get_function_name(f) = name
                                /\ report.rows[name].filename = f.filename
    BY DEF ReportComplete, AfterRows
  <2>1. Accounts(report.rows, Kept) /\ report.total = Sum(Kept)
    BY DEF CInv, Reported
  <2>2. Kept \in [Functions -> Nat]
    BY KeptTyped DEF CInv
  <2>3. ASSUME NEW name
        PROVE  KeptBy(name) = DueIn(Kept, name)
    BY <2>2, SumsOfDue DEF KeptBy, Named
  <2> QED
    BY <2>1, <2>3 DEF Accounts
<1> QED
  BY <1>1, Accounting, PTL

-----------------------------------------------------------------------------
(***************************************************************************)
(* The refinement of SampleLedger.  A report of the code is seen as        *)
(* Shown(report) by the ledger.                                            *)
(***************************************************************************)
Shown(r) ==
  [kind |-> IF r.kind = "table" /\ DOMAIN r.rows = {} THEN "total" ELSE r.kind,
   total |-> r.total, rows |-> Hits(r.rows)]

\* The ledger names functions as sampling mode does, and adds up as it does.
LEMMA SameNames ==
  \A f : Ledger!get_function_name(f) = get_function_name(f)
BY DEF Ledger!get_function_name, get_function_name, Ledger!get_function_or_method_name,
       get_function_or_method_name, Ledger!Main, Main

LEMMA SameSums ==
  ASSUME NEW fun
  PROVE  /\ \A S : Ledger!SumFunctionOnSet(fun, S) = SumFunctionOnSet(fun, S)
         /\ Ledger!SumFunction(fun) = SumFunctionOnSet(fun, DOMAIN fun)
<1>1. ASSUME NEW S
      PROVE  Ledger!SumFunctionOnSet(fun, S) = SumFunctionOnSet(fun, S)
  <2>1. Ledger!SumFunctionOnSet(fun, S) = (CHOOSE g : IsSums(g, fun, S))[S]
    BY DEF Ledger!SumFunctionOnSet, Ledger!FoldFunctionOnSet, Ledger!MapThenFoldSet, IsSums
  <2> QED
    BY <2>1, SumUnfolded
<1> QED
  BY <1>1 DEF Ledger!SumFunction

\* How the ledger sees the reports without rows.
LEMMA ShownEmpty ==
  /\ Shown(NoReport) = Ledger!NoReport
  /\ Shown([NoReport EXCEPT !.kind = "errors"]) = Ledger!ErrorReport
  /\ \A n : Shown([kind |-> "table", total |-> n, rows |-> NoReport.rows])
              = [kind |-> "total", total |-> n, rows |-> Ledger!NoRows]
<1>1. DOMAIN NoReport.rows = {} /\ Hits(NoReport.rows) = Ledger!NoRows
  BY DEF NoReport, Hits, Ledger!NoRows
<1> QED
  BY <1>1 DEF Shown, NoReport, Ledger!NoReport, Ledger!ErrorReport, Ledger!NoRows

\* Units that account for some samples have the rows that the ledger asks for.
LEMMA ShownRows ==
  ASSUME NEW units, NEW counts \in [Functions -> Nat],
         Accounts(units, counts), Sum(counts) # 0
  PROVE  Hits(units) = Ledger!ByName(counts) /\ DOMAIN units # {}
<1> DEFINE names == {get_function_name(f) : f \in {g \in Functions : counts[g] > 0}}
<1>1. DOMAIN units = names
  BY DEF Accounts
<1>2. \A name \in names : units[name].hits = SumFunctionOnSet(counts, Named(name))
  BY <1>1 DEF Accounts, DueIn
<1> HIDE DEF names
<1>3. Hits(units) = [name \in names |-> SumFunctionOnSet(counts, Named(name))]
  BY <1>1, <1>2 DEF Hits
<1>4. Ledger!ByName(counts) = [name \in names |-> SumFunctionOnSet(counts, Named(name))]
  BY SameNames, SameSums DEF Ledger!ByName, Named, names
<1>5. DOMAIN units # {}
  <2> SUFFICES ASSUME DOMAIN units = {}
               PROVE  \A f \in Functions : counts[f] = 0
    BY SamplingAssumption, SumsOfDue, SumOfZeroes
  <2> QED
    BY DEF Accounts
<1> QED
  BY <1>3, <1>4, <1>5

\* The ledger keeps what sampling mode keeps.
LEMMA SameKept == Ledger!Kept = Kept
BY DEF Ledger!Kept, Kept

\* The ledger starts where sampling mode does.
LEMMA InitLedger == Init => Ledger!Init
BY ShownEmpty DEF Init, Ledger!Init, NothingTaken, Ledger!NothingDue, Printed, Shown

\* A signal is a sample of the ledger, kept or lost, or nothing to it.
LEMMA SigprofLedger ==
  ASSUME CInv, Sigprof
  PROVE  [Ledger!Next]_(Ledger!vars)
<1>1. report' = report
  BY DEF Sigprof
<1>2. Printed' = Printed
  BY <1>1 DEF Printed
<1>3. CASE step # "running"
  <2>1. taken' = taken /\ lost' = lost
    BY <1>3, SigprofNoCode
  <2> QED
    BY <1>2, <2>1 DEF Ledger!vars
<1>4. CASE step = "running"
  <2>1. Printed = Ledger!NoReport
    BY <1>4, ShownEmpty DEF CInv, Reported, BeforeRows, Printed, Shown
  <2>2. CASE UNCHANGED <<taken, lost>>
    BY <1>2, <2>2 DEF Ledger!vars
  <2>3. ASSUME NEW f \in Functions, taken' = [taken EXCEPT ![f] = @ + 1], lost' = lost
        PROVE  Ledger!Next
    <3>1. Ledger!Sample(f)
      BY <1>2, <2>1, <2>3 DEF Ledger!Sample
    <3> QED
      BY <3>1 DEF Ledger!Next
  <2>4. ASSUME NEW f \in Functions, taken' = [taken EXCEPT ![f] = @ + 1],
               lost' = [lost EXCEPT ![f] = @ + 1]
        PROVE  Ledger!Next
    <3>1. Ledger!Lose(f)
      BY <1>2, <2>1, <2>4 DEF Ledger!Lose
    <3> QED
      BY <3>1 DEF Ledger!Next
  <2> QED
    BY <1>4, <2>2, <2>3, <2>4, SigprofOfScript
<1> QED
  BY <1>3, <1>4

\* Each step of sampling mode is a step of the ledger, or nothing to it.
LEMMA NextLedger == CInv /\ [Next]_vars => [Ledger!Next]_(Ledger!vars)
<1> SUFFICES ASSUME CInv, [Next]_vars
             PROVE  [Ledger!Next]_(Ledger!vars)
  OBVIOUS
<1>0. /\ Printed = Shown(report) /\ Printed' = Shown(report')
      /\ Kept \in [Functions -> Nat]
  BY KeptTyped DEF Printed, Shown, CInv
<1>1. ASSUME UNCHANGED <<taken, lost, report>>
      PROVE  UNCHANGED Ledger!vars
  BY <1>0, <1>1 DEF Ledger!vars
<1>2. CASE Rinit
  <2>1. Ledger!Begin
    BY <1>0, <1>2, ShownEmpty DEF Rinit, NothingTaken, Ledger!Begin, Ledger!NothingDue
  <2> QED
    BY <2>1 DEF Ledger!Next
<1>3. CASE ScriptOver
  <2>1. Printed = Ledger!NoReport /\ taken' = taken /\ lost' = lost
    BY <1>0, <1>3, ShownEmpty DEF ScriptOver, CInv, Reported, BeforeRows, history
  <2>2. CASE prof_has_errors
    <3>1. report' = [NoReport EXCEPT !.kind = "errors"]
      BY <1>3, <2>2 DEF ScriptOver
    <3>2. Ledger!PrintErrors
      BY <1>0, <2>1, <3>1, ShownEmpty DEF Ledger!PrintErrors
    <3> QED
      BY <3>2 DEF Ledger!Next
  <2>3. CASE ~ prof_has_errors
    BY <1>1, <1>3, <2>1, <2>3 DEF ScriptOver
  <2> QED
    BY <2>2, <2>3
<1>4. CASE PrintTotal
  <2> DEFINE total == Sum(Hits(sampling_units.units))
  <2>1. /\ step = "total" /\ taken' = taken /\ lost' = lost
        /\ report' = [kind |-> "table", total |-> total, rows |-> NoReport.rows]
    BY <1>4 DEF PrintTotal, NoReport, history
  <2>2. total = Sum(Kept)
    BY <2>1 DEF CInv, Started, Counted, Accounts, AfterTable
  <2>3. Sum(Kept) = Ledger!SumFunction(Ledger!Kept)
    BY SameKept, SumOfFunction, SameSums DEF Sum
  <2>4. Printed = Ledger!NoReport
    BY <1>0, <2>1, ShownEmpty DEF CInv, Reported, BeforeRows
  <2> HIDE DEF total
  <2>5. Ledger!PrintTotal
    BY <1>0, <2>1, <2>2, <2>3, <2>4, ShownEmpty DEF Ledger!PrintTotal
  <2> QED
    BY <2>5 DEF Ledger!Next
<1>5. CASE PrintRows
  <2>1. step = "rows" /\ taken' = taken /\ lost' = lost
    BY <1>5 DEF PrintRows
  <2>2. /\ report = [kind |-> "table", total |-> Sum(Kept), rows |-> NoReport.rows]
        /\ Sum(Kept) # 0
    BY <2>1 DEF CInv, Reported
  <2>3. CASE report' = [report EXCEPT !.rows = sampling_units.units]
    <3> DEFINE units == sampling_units.units
    <3>1. Accounts(units, Kept)
      BY <2>1 DEF CInv, Started, Counted, AfterTable
    <3>2. Hits(units) = Ledger!ByName(Kept) /\ DOMAIN units # {}
      BY <1>0, <2>2, <3>1, ShownRows
    <3>3. report' = [kind |-> "table", total |-> Sum(Kept), rows |-> units]
      BY <2>2, <2>3
    <3> HIDE DEF units
    <3>4. Printed' = [kind |-> "table", total |-> Sum(Kept), rows |-> Ledger!ByName(Kept)]
      BY <1>0, <3>2, <3>3 DEF Shown
    <3>5. Printed = [kind |-> "total", total |-> Sum(Kept), rows |-> Ledger!NoRows]
      BY <1>0, <2>2, ShownEmpty
    <3>6. Printed' = [Printed EXCEPT !.kind = "table", !.rows = Ledger!ByName(Kept)]
      <4> DEFINE before == Printed
                 between == [before EXCEPT !.kind = "table"]
                 after == [between EXCEPT !.rows = Ledger!ByName(Kept)]
      <4>1. between = [kind |-> "table", total |-> Sum(Kept), rows |-> Ledger!NoRows]
        BY <3>5
      <4>2. after = [kind |-> "table", total |-> Sum(Kept), rows |-> Ledger!ByName(Kept)]
        <5> HIDE DEF between
        <5> QED
          BY <4>1
      <4> HIDE DEF before
      <4>3. after = [before EXCEPT !.kind = "table", !.rows = Ledger!ByName(Kept)]
        OBVIOUS
      <4> QED
        BY <3>4, <4>2, <4>3 DEF before
    <3>7. Ledger!PrintRows
      BY <2>1, <3>5, <3>6, SameKept DEF Ledger!PrintRows
    <3> QED
      BY <3>7 DEF Ledger!Next
  <2>4. CASE UNCHANGED report
    BY <1>1, <2>1, <2>4
  <2> QED
    BY <1>5, <2>3, <2>4 DEF PrintRows
<1>6. CASE Sigprof
  BY <1>6, SigprofLedger
<1>7. CASE \/ InitTable \/ SetHandler \/ StartTimer \/ Leave \/ SetTimeLimit \/ Fork
           \/ ShutdownErrors \/ Disable \/ StopTimer \/ FreeTable \/ Exit
           \/ \E f \in Functions : Enter(f)
  BY <1>1, <1>7 DEF InitTable, SetHandler, StartTimer, Leave, SetTimeLimit, Fork,
     ShutdownErrors, Disable, StopTimer, FreeTable, Exit, Enter, history
<1>8. CASE UNCHANGED vars
  BY <1>1, <1>8 DEF vars, history
<1> QED
  BY <1>2, <1>3, <1>4, <1>5, <1>6, <1>7, <1>8 DEF Next

(***************************************************************************)
(* Sampling mode implements the ledger of its samples: no signal is        *)
(* counted twice or changes what is being printed, and none is lost but    *)
(* when its own handler is left.                                           *)
(***************************************************************************)
THEOREM Refinement == Spec => LedgerSpec
BY InitLedger, NextLedger, Accounting, PTL DEF Spec, Ledger!Spec, LedgerSpec
=============================================================================
