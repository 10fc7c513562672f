---------------------------- MODULE ReportsProofs ----------------------------
(***************************************************************************)
(* Theorems about Reports, for every table of units, every limit and       *)
(* threshold, every size of the integers and every set of faults.          *)
(***************************************************************************)
EXTENDS Reports, DataTheorems, TLAPS

(***************************************************************************)
(* What the log and the file have come to at each step of a report.        *)
(***************************************************************************)
Console == ToConsole(mode, output_mode)

OnConsole ==
  /\ step \in {"table", "errors", "done", "abandoned"}
  /\ step # "done" => errors.levels = {}

Reported ==
  \/ errors.levels = {} /\ file \in {"complete", "partial"}
  \/ errors.levels = {"error"}
  \/ errors.levels = {"warning"} /\ output_mode = "pprof"

ToFile ==
  /\ step # "table"
  /\ step \in {"threshold", "strings", "write"} => output_mode = "pprof"
  /\ step \in WriterSteps \cup {"open"} => errors.levels = {}
  /\ step = "close" =>
       IF output_mode = "pprof"
       THEN \/ errors.levels = {} /\ file = "complete"
            \/ errors.levels = {"error"}
       ELSE errors.levels = {}
  /\ step = "errors" => Reported
  /\ step = "done" /\ message = "nothing" => file \in {"complete", "partial"}

RInv ==
  /\ step \in Steps \cup {"table"} /\ errors \in ErrorsType
  /\ output_mode \in {"console", "callgrind", "pprof"}
  /\ IF Console THEN OnConsole ELSE ToFile

-----------------------------------------------------------------------------
\* What adding an entry makes of an empty log.
LEMMA FirstEntry ==
  ASSUME errors \in ErrorsType, errors.levels = {}
  PROVE  /\ prof_add_warning => errors' \in ErrorsType /\ errors'.levels = {"warning"}
         /\ prof_add_error => errors' \in ErrorsType /\ errors'.levels = {"error"}
<1>1. errors = [live |-> errors.live, levels |-> {}] /\ errors.live \in BOOLEAN
  BY DEF ErrorsType
<1>2. ASSUME NEW level \in ErrorLevels, prof_add_error_message(level)
      PROVE  errors' \in ErrorsType /\ errors'.levels = {level}
  <2>1. errors' = [live |-> errors.live, levels |-> {level}]
    BY <1>1, <1>2 DEF prof_add_error_message
  <2> QED
    BY <1>1, <2>1 DEF ErrorsType
<1> QED
  BY <1>2 DEF prof_add_warning, prof_add_error, ErrorLevels

LEMMA InitRInv == Init => RInv
BY DEF Init, FilesInit, RInv, Steps, WriterSteps, ErrorsType, Console, OnConsole, ToFile

\* Each step of a report keeps its account of what went wrong.
LEMMA NextRInv == RInv /\ [Next]_vars => RInv'
<1> SUFFICES ASSUME RInv, [Next]_vars
             PROVE  RInv'
  OBVIOUS
<1>1. /\ step \in Steps \cup {"table"} /\ errors \in ErrorsType
      /\ output_mode \in {"console", "callgrind", "pprof"}
      /\ Console => OnConsole
      /\ ~ Console => ToFile
  BY DEF RInv
<1>2. ASSUME step' \in Steps \cup {"table"}, errors' \in ErrorsType,
             UNCHANGED <<mode, output_mode>>,
             Console => OnConsole', ~ Console => ToFile'
      PROVE  RInv'
  BY <1>1, <1>2 DEF RInv, Console, OnConsole, ToFile, Reported
<1> USE DEF Steps, WriterSteps
<1>3. CASE BuildTable
  BY <1>1, <1>2, <1>3 DEF BuildTable, filesVars, OnConsole, ToFile
<1>4. CASE TableOver
  BY <1>1, <1>2, <1>4 DEF TableOver, OnConsole, ToFile
<1>5. ASSUME FilesNext, UNCHANGED mode
      PROVE  RInv'
  <2> USE <1>5
  <2>1. CASE Open
    <3>1. /\ step = "open" /\ UNCHANGED <<mode, output_mode>>
          /\ ~ Console
      BY <1>1, <2>1 DEF Open, OnConsole
    <3>2. errors.levels = {}
      BY <1>1, <3>1 DEF ToFile
    <3>3. CASE output_mode = "pprof" /\ prof_add_warning /\ step' = "errors"
      <4>1. errors' \in ErrorsType /\ errors'.levels = {"warning"}
        BY <1>1, <3>2, <3>3, FirstEntry
      <4> QED
        BY <1>2, <3>1, <3>3, <4>1 DEF ToFile, Reported
    <3>4. CASE prof_add_error /\ step' = "errors"
      <4>1. errors' \in ErrorsType /\ errors'.levels = {"error"}
        BY <1>1, <3>2, <3>4, FirstEntry
      <4> QED
        BY <1>2, <3>1, <3>4, <4>1 DEF ToFile, Reported
    <3>5. CASE /\ step' = IF output_mode = "pprof" THEN "threshold" ELSE "units"
               /\ UNCHANGED errors
      BY <1>1, <1>2, <3>1, <3>2, <3>5 DEF ToFile, Reported
    <3> QED
      BY <2>1, <3>3, <3>4, <3>5 DEF Open
  <2>2. CASE ApplyThreshold
    BY <1>1, <1>2, <2>2 DEF ApplyThreshold, OnConsole, ToFile
  <2>3. CASE UnitStep
    <3>1. /\ step = "units" /\ UNCHANGED <<mode, output_mode, errors>>
          /\ step' \in {step, IF output_mode = "pprof" THEN "strings" ELSE "close"}
      BY <2>3 DEF UnitStep
    <3> QED
      BY <1>1, <1>2, <3>1 DEF OnConsole, ToFile
  <2>4. CASE FillStrings
    BY <1>1, <1>2, <2>4 DEF FillStrings, OnConsole, ToFile
  <2>5. CASE WriteProfile
    <3>1. /\ step = "write" /\ step' = "close" /\ UNCHANGED <<mode, output_mode>>
          /\ ~ Console
      BY <1>1, <2>5 DEF WriteProfile, OnConsole
    <3>2. errors.levels = {} /\ output_mode = "pprof"
      BY <1>1, <3>1 DEF ToFile
    <3>3. CASE prof_add_error
      <4>1. errors' \in ErrorsType /\ errors'.levels = {"error"}
        BY <1>1, <3>2, <3>3, FirstEntry
      <4> QED
        BY <1>2, <3>1, <3>2, <4>1 DEF ToFile
    <3>4. CASE file' = "complete" /\ UNCHANGED errors
      BY <1>1, <1>2, <3>1, <3>2, <3>4 DEF ToFile
    <3> QED
      BY <2>5, <3>3, <3>4 DEF WriteProfile
  <2>6. CASE Close
    <3>1. /\ step = "close" /\ step' = "errors" /\ UNCHANGED <<mode, output_mode, errors>>
          /\ ~ Console
      BY <1>1, <2>6 DEF Close, OnConsole
    <3>2. output_mode # "pprof" => file' \in {"complete", "partial"}
      BY <2>6 DEF Close
    <3>3. output_mode = "pprof" => file' \in {file, "partial"}
      BY <2>6 DEF Close
    <3>4. Reported'
      BY <1>1, <3>1, <3>2, <3>3 DEF ToFile, Reported
    <3> QED
      BY <1>1, <1>2, <3>1, <3>4 DEF ToFile
  <2>7. CASE WriterBails
    BY <1>1, <1>2, <2>7 DEF WriterBails, OnConsole, ToFile
  <2>8. CASE PrintErrors
    <3>1. /\ step = "errors" /\ step' = "done" /\ UNCHANGED <<mode, output_mode, file>>
          /\ message' = prof_print_errors(errors)
      BY <2>8 DEF PrintErrors
    <3>2. errors' \in ErrorsType
      BY <2>8 DEF PrintErrors, prof_shutdown_errors, NoErrorTable, ErrorsType
    <3>3. ASSUME ~ Console, message' = "nothing"
          PROVE  file' \in {"complete", "partial"}
      <4>1. errors.levels = {}
        BY <3>1, <3>3 DEF prof_print_errors
      <4> QED
        BY <1>1, <3>1, <3>3, <4>1 DEF ToFile, Reported
    <3> QED
      BY <1>2, <3>1, <3>2, <3>3 DEF OnConsole, ToFile
  <2> QED
    BY <2>1, <2>2, <2>3, <2>4, <2>5, <2>6, <2>7, <2>8 DEF FilesNext
<1>6. CASE UNCHANGED vars
  BY <1>1, <1>2, <1>6 DEF vars, filesVars, OnConsole, ToFile, Reported
<1> QED
  BY <1>3, <1>4, <1>5, <1>6 DEF Next, WriteFile

\* The account holds at every step of a report (sampling.c:125-321).
THEOREM Inductive == Spec => []RInv
BY InitRInv, NextRInv, PTL DEF Spec

(***************************************************************************)
(* A report that prints no message has stored samples: each failure that   *)
(* the writers look at leaves an entry (sampling.c:163-173, 283-299).      *)
(***************************************************************************)
THEOREM FailuresReported == Spec => []MissingIsReported
<1>1. RInv => MissingIsReported
  BY DEF RInv, ToFile, Console, MissingIsReported
<1> QED
  BY <1>1, Inductive, PTL

(***************************************************************************)
(* What a report comes to is what Prof reckons with (prof.c:95-118).       *)
(***************************************************************************)
THEOREM OutcomesKept == Spec => []OutcomeExpected
<1>1. RInv => OutcomeExpected
  <2> SUFFICES ASSUME RInv, step \in {"errors", "abandoned"}
               PROVE  Outcome \in Outcomes(mode, output_mode)
    BY DEF OutcomeExpected
  <2>1. CASE step = "abandoned"
    BY <2>1 DEF Outcome, Outcomes
  <2>2. CASE step = "errors" /\ Console
    <3>1. errors.levels = {} /\ step # "abandoned"
      BY <2>2 DEF RInv, OnConsole
    <3>2. Outcome = Shown("table")
      BY <2>2, <3>1 DEF Outcome, Console, Shown
    <3> QED
      BY <2>2, <3>2 DEF Outcomes, Console
  <2>3. CASE step = "errors" /\ ~ Console
    <3>1. Reported /\ step # "abandoned"
      BY <2>3 DEF RInv, ToFile
    <3>2. CASE errors.levels = {} /\ file \in {"complete", "partial"}
      <4>1. Outcome = Shown("file")
        BY <2>3, <3>1, <3>2 DEF Outcome, Console, Shown
      <4> QED
        BY <2>3, <4>1 DEF Outcomes, Console
    <3>3. CASE errors.levels = {"error"}
      <4>1. Outcome = Failed({"error"})
        BY <2>3, <3>1, <3>3 DEF Outcome, Console, Failed
      <4> QED
        BY <2>3, <4>1 DEF Outcomes, Console
    <3>4. CASE errors.levels = {"warning"} /\ output_mode = "pprof"
      <4>1. Outcome = Failed({"warning"})
        BY <2>3, <3>1, <3>4 DEF Outcome, Console, Failed
      <4> QED
        BY <2>3, <3>4, <4>1 DEF Outcomes, Console
    <3> QED
      BY <3>1, <3>2, <3>3, <3>4 DEF Reported
  <2> QED
    BY <2>1, <2>2, <2>3
<1> QED
  BY <1>1, Inductive, PTL

-----------------------------------------------------------------------------
(***************************************************************************)
(* For the console table.  Sliced: the slice is the first units, as many   *)
(* as it has.  Selected: the rows are the first of the slice, and stop at  *)
(* one that is not above the threshold; those behind it are not either, as *)
(* the units are sorted.                                                   *)
(***************************************************************************)
ResultUnit == [name : Strings, value : Nat]

Ordered ==
  /\ \A i, j \in 1..Len(units) : i < j => units[i].value >= units[j].value
  /\ \A i, j \in 1..Len(units) : i # j => units[i] # units[j]

Sliced ==
  /\ Len(res) <= Len(units) /\ Len(res) <= limit
  /\ \A i \in 1..Len(res) : res[i] = units[i]

Selected ==
  /\ p \in 1..(Len(res) + 1) /\ Len(rows) <= p - 1
  /\ \A i \in 1..Len(rows) : rows[i] = res[i] /\ res[i].value > threshold
  /\ Len(rows) < p - 1 => res[Len(rows) + 1].value <= threshold

TInv ==
  /\ limit \in Nat \ {0} /\ threshold \in Nat
  /\ units \in Seq(ResultUnit) /\ res \in Seq(ResultUnit) /\ rows \in Seq(ResultUnit)
  /\ table_step \in {"sort", "init"} => res = << >> /\ p = 1 /\ rows = << >>
  /\ table_step \in {"init", "slice", "rows", "printed"} => Ordered
  /\ table_step = "slice" => Sliced /\ p = Len(res) + 1 /\ rows = << >>
  /\ table_step \in {"rows", "printed"} =>
       /\ Sliced /\ (Len(res) = Len(units) \/ Len(res) = limit)
       /\ Selected
  /\ table_step = "printed" => p = Len(res) + 1

\* The values of the units of a sequence are natural numbers.
LEMMA ValuesAreNat ==
  ASSUME NEW s \in Seq(ResultUnit), NEW i \in 1..Len(s)
  PROVE  s[i] \in ResultUnit /\ s[i].value \in Nat
<1>1. s[i] \in ResultUnit
  OBVIOUS
<1> QED
  BY <1>1 DEF ResultUnit

\* The result of sorting is a sequence of the same units, each once.
LEMMA SortedUnits ==
  ASSUME NEW u \in Seq(ResultUnit), NEW s \in SetToSeqs(ToSet(u)), IsSorted(s, NotAfter)
  PROVE  /\ s \in Seq(ResultUnit)
         /\ \A i, j \in 1..Len(s) : i < j => s[i].value >= s[j].value
         /\ \A i, j \in 1..Len(s) : i # j => s[i] # s[j]
<1> DEFINE n == Cardinality(ToSet(u))
<1>1. ToSet(u) \subseteq ResultUnit /\ IsFiniteSet(ToSet(u))
  <2>1. DOMAIN u = 1..Len(u) /\ Len(u) \in Nat
    OBVIOUS
  <2>2. IsFiniteSet(1..Len(u))
    BY <2>1, FS_Interval
  <2>3. u \in Surjection(1..Len(u), ToSet(u))
    BY <2>1 DEF ToSet, Surjection
  <2>4. IsFiniteSet(ToSet(u))
    BY <2>2, <2>3, FS_Surjection
  <2> QED
    BY <2>4 DEF ToSet
<1>2. n \in Nat
  BY <1>1, FS_CardinalityType
<1>3. s \in [1..n -> ToSet(u)] /\ \A i, j \in 1..n : i # j => s[i] # s[j]
  BY DEF SetToSeqs
<1> HIDE DEF n
<1>4. s \in Seq(ResultUnit) /\ Len(s) = n
  BY <1>1, <1>2, <1>3
<1> QED
  BY <1>3, <1>4 DEF IsSorted, NotAfter

\* What is taken from the units of the mode.
LEMMA InitTInv == Init => TInv
<1> SUFFICES ASSUME Init
             PROVE  TInv
  OBVIOUS
<1>1. /\ limit \in Limits /\ threshold \in Thresholds /\ units = Values(collected)
      /\ table_step = "sort" /\ res = << >> /\ p = 1 /\ rows = << >>
      /\ collected \in Tables
  BY DEF Init, FilesInit, TableInit
<1>2. collected \in Seq(SamplingUnit)
  BY <1>1, ProfileFilesAssumption
<1>3. units \in Seq(ResultUnit)
  <2>1. DOMAIN collected = 1..Len(collected) /\ Len(collected) \in Nat
    BY <1>2
  <2>2. ASSUME NEW i \in 1..Len(collected)
        PROVE  [name |-> collected[i].name, value |-> collected[i].hits] \in ResultUnit
    <3>1. collected[i] \in SamplingUnit
      BY <1>2, <2>1
    <3> QED
      BY <3>1 DEF SamplingUnit, ResultUnit
  <2>3. units = [i \in 1..Len(collected) |->
                  [name |-> collected[i].name, value |-> collected[i].hits]]
    BY <1>1, <2>1 DEF Values
  <2> QED
    BY <2>1, <2>2, <2>3
<1> QED
  BY <1>1, <1>3, ResultTableAssumption DEF TInv

\* A row is added to those above the threshold, or there are no more.
LEMMA RowStepTInv ==
  ASSUME TInv, RowStep
  PROVE  TInv'
<1>1. /\ table_step = "rows" /\ UNCHANGED <<limit, threshold, units, res>>
      /\ Sliced /\ (Len(res) = Len(units) \/ Len(res) = limit) /\ Selected /\ Ordered
      /\ limit \in Nat \ {0} /\ threshold \in Nat
      /\ units \in Seq(ResultUnit) /\ res \in Seq(ResultUnit) /\ rows \in Seq(ResultUnit)
  BY DEF RowStep, TInv
<1>2. Sliced' /\ Ordered'
  BY <1>1 DEF Sliced, Ordered
<1>3. CASE p > Len(res)
  <2>1. table_step' = "printed" /\ UNCHANGED <<p, rows>> /\ p = Len(res) + 1
    BY <1>1, <1>3 DEF RowStep, Selected
  <2>2. Selected'
    BY <1>1, <2>1 DEF Selected
  <2> QED
    BY <1>1, <1>2, <2>1, <2>2 DEF TInv
<1>4. CASE ~ (p > Len(res))
  <2>1. /\ rows' = IF res[p].value <= threshold THEN rows ELSE Append(rows, res[p])
        /\ p' = p + 1 /\ table_step' = "rows"
    BY <1>1, <1>4 DEF RowStep
  <2>2. p \in 1..Len(res) /\ Len(rows) \in Nat /\ Len(res) \in Nat
    BY <1>1, <1>4 DEF Selected
  <2>3. res[p] \in ResultUnit /\ res[p].value \in Nat
    BY <1>1, <2>2, ValuesAreNat
  <2>4. CASE res[p].value <= threshold
    <3>1. rows' = rows
      BY <2>1, <2>4
    <3>2. Len(rows) < p => res[Len(rows) + 1].value <= threshold
      BY <1>1, <2>2, <2>4 DEF Selected
    <3>3. Selected'
      BY <1>1, <2>1, <2>2, <3>1, <3>2 DEF Selected
    <3> QED
      BY <1>1, <1>2, <2>1, <3>1, <3>3 DEF TInv
  <2>5. CASE ~ (res[p].value <= threshold)
    <3>1. rows' = Append(rows, res[p])
      BY <2>1, <2>5
    <3>2. Len(rows) = p - 1
      <4> SUFFICES ASSUME Len(rows) < p - 1
                   PROVE  FALSE
        BY <1>1, <2>2 DEF Selected
      <4>1. res[Len(rows) + 1].value <= threshold
        BY <1>1 DEF Selected
      <4> DEFINE k == Len(rows) + 1
      <4>2. k \in 1..Len(units) /\ p \in 1..Len(units) /\ k < p
        BY <1>1, <2>2 DEF Sliced
      <4>3. units[k] = res[k] /\ units[p] = res[p]
        BY <2>2, <4>2, <1>1 DEF Sliced
      <4>4. units[k].value >= units[p].value
        BY <1>1, <4>2 DEF Ordered
      <4>5. units[k].value \in Nat
        BY <1>1, <4>2, ValuesAreNat
      <4> HIDE DEF k
      <4> QED
        BY <1>1, <2>3, <2>5, <4>1, <4>3, <4>4, <4>5 DEF k
    <3>3. /\ rows' \in Seq(ResultUnit) /\ Len(rows') = p
          /\ \A i \in 1..Len(rows) : rows'[i] = rows[i]
          /\ rows'[p] = res[p]
      BY <1>1, <2>2, <2>3, <3>1, <3>2
    <3>4. \A i \in 1..p : rows'[i] = res[i] /\ res[i].value > threshold
      <4> SUFFICES ASSUME NEW i \in 1..p
                   PROVE  rows'[i] = res[i] /\ res[i].value > threshold
        OBVIOUS
      <4>1. CASE i = p
        BY <1>1, <2>3, <2>5, <3>3, <4>1
      <4>2. CASE i # p
        <5>1. i \in 1..Len(rows)
          BY <2>2, <3>2, <4>2
        <5> QED
          BY <1>1, <3>3, <5>1 DEF Selected
      <4> QED
        BY <4>1, <4>2
    <3>5. Selected'
      BY <1>1, <2>1, <2>2, <3>3, <3>4 DEF Selected
    <3> QED
      BY <1>1, <1>2, <2>1, <3>3, <3>5 DEF TInv
  <2> QED
    BY <2>4, <2>5
<1> QED
  BY <1>3, <1>4

\* A unit is added to the slice, or it is complete, or memory runs out.
LEMMA SliceStepTInv ==
  ASSUME TInv, SliceStep
  PROVE  TInv'
<1>1. /\ table_step = "slice" /\ UNCHANGED <<limit, threshold, units, rows>>
      /\ Sliced /\ Ordered /\ p = Len(res) + 1 /\ rows = << >>
      /\ limit \in Nat \ {0} /\ threshold \in Nat
      /\ units \in Seq(ResultUnit) /\ res \in Seq(ResultUnit) /\ rows \in Seq(ResultUnit)
  BY DEF SliceStep, TInv
<1>2. Ordered'
  BY <1>1 DEF Ordered
<1>3. CASE p > Len(units) \/ Len(res) >= limit
  <2>1. table_step' = "rows" /\ p' = 1 /\ res' = res
    BY <1>1, <1>3 DEF SliceStep
  <2>2. Sliced' /\ (Len(res) = Len(units) \/ Len(res) = limit)
    BY <1>1, <1>3, <2>1 DEF Sliced
  <2>3. Selected'
    <3>1. 1 \in 1..(Len(res) + 1) /\ Len(rows') = 0
      BY <1>1
    <3> QED
      BY <2>1, <3>1 DEF Selected
  <2> QED
    BY <1>1, <1>2, <2>1, <2>2, <2>3 DEF TInv
<1>4. CASE ~ (p > Len(units) \/ Len(res) >= limit) /\ Needed > MaxSlots
  <2>1. table_step' = "bailed" /\ UNCHANGED <<p, res>>
    BY <1>4 DEF SliceStep
  <2> QED
    BY <1>1, <2>1 DEF TInv
<1>5. CASE ~ (p > Len(units) \/ Len(res) >= limit) /\ ~ (Needed > MaxSlots)
  <2>1. res' = Append(res, units[p]) /\ p' = p + 1 /\ table_step' = "slice"
    BY <1>1, <1>5 DEF SliceStep
  <2>2. p \in 1..Len(units) /\ p <= limit /\ Len(res) \in Nat
    BY <1>1, <1>5
  <2>3. units[p] \in ResultUnit
    BY <1>1, <2>2
  <2>4. /\ res' \in Seq(ResultUnit) /\ Len(res') = p /\ res'[p] = units[p]
        /\ \A i \in 1..Len(res) : res'[i] = res[i]
    BY <1>1, <2>1, <2>2, <2>3
  <2>5. ASSUME NEW i \in 1..p
        PROVE  res'[i] = units[i]
    <3>1. CASE i = p
      BY <2>4, <3>1
    <3>2. CASE i # p
      <4>1. i \in 1..Len(res)
        BY <1>1, <2>2, <3>2
      <4>2. res[i] = units[i]
        BY <1>1, <4>1 DEF Sliced
      <4> QED
        BY <2>4, <4>1, <4>2
    <3> QED
      BY <3>1, <3>2
  <2>6. Len(res') <= Len(units) /\ Len(res') <= limit
    BY <1>1, <2>2, <2>4
  <2>7. Sliced'
    BY <1>1, <2>4, <2>5, <2>6 DEF Sliced
  <2> QED
    BY <1>1, <1>2, <2>1, <2>4, <2>7 DEF TInv
<1> QED
  BY <1>3, <1>4, <1>5

\* Each step of the table keeps the order of what it has taken.
LEMMA NextTInv == TInv /\ [Next]_vars => TInv'
<1> SUFFICES ASSUME TInv, [Next]_vars
             PROVE  TInv'
  OBVIOUS
<1>1. CASE UNCHANGED tableVars
  BY <1>1 DEF tableVars, TInv, Ordered, Sliced, Selected
<1>2. CASE SortTable
  <2>1. /\ table_step = "sort" /\ table_step' = "init"
        /\ UNCHANGED <<limit, threshold, res, p, rows>>
        /\ units' \in SetToSeqs(ToSet(units)) /\ IsSorted(units', NotAfter)
        /\ units \in Seq(ResultUnit)
    BY <1>2 DEF SortTable, TInv
  <2>2. units' \in Seq(ResultUnit) /\ Ordered'
    BY <2>1, SortedUnits DEF Ordered
  <2> QED
    BY <2>1, <2>2 DEF TInv
<1>3. CASE InitSlice
  <2>1. /\ table_step = "init" /\ table_step' \in {"bailed", "slice"}
        /\ UNCHANGED <<limit, threshold, units, res, p, rows>>
    BY <1>3 DEF InitSlice
  <2>2. res = << >> /\ Sliced
    BY <2>1 DEF TInv, Sliced
  <2>3. Len(res) = 0 /\ p = Len(res) + 1 /\ rows = << >>
    BY <2>1, <2>2 DEF TInv
  <2> QED
    BY <2>1, <2>2, <2>3 DEF TInv, Ordered, Sliced
<1>4. CASE SliceStep
  BY <1>4, SliceStepTInv
<1>5. CASE RowStep
  BY <1>5, RowStepTInv
<1> QED
  BY <1>1, <1>2, <1>3, <1>4, <1>5 DEF Next, BuildTable, TableOver, WriteFile, TableNext, vars

(***************************************************************************)
(* A printed table is the top of the profile, for every limit, also one    *)
(* that does not fit into a uint32_t, whatever the order in which the sort *)
(* leaves units that are equal (func.c:50-64, sampling.c:107-116,          *)
(* helpers.c:125-148).                                                     *)
(***************************************************************************)
THEOREM TopOfProfile == Spec => []TopN
<1>1. TInv => TopN
  <2> SUFFICES ASSUME TInv, table_step = "printed"
               PROVE  /\ IsSorted(rows, NotAfter) /\ IsInjective(rows)
                      /\ ToSet(rows) \subseteq {u \in ToSet(units) : u.value > threshold}
                      /\ Len(rows) <= limit
                      /\ \A u \in ToSet(units) \ ToSet(rows) : u.value > threshold =>
                           Len(rows) = limit /\ \A i \in DOMAIN rows : rows[i].value >= u.value
    BY DEF TopN
  <2>1. /\ Sliced /\ (Len(res) = Len(units) \/ Len(res) = limit) /\ Selected /\ Ordered
        /\ p = Len(res) + 1 /\ limit \in Nat \ {0} /\ threshold \in Nat
        /\ units \in Seq(ResultUnit) /\ res \in Seq(ResultUnit) /\ rows \in Seq(ResultUnit)
    BY DEF TInv
  <2>2. /\ DOMAIN rows = 1..Len(rows) /\ Len(rows) \in Nat /\ Len(res) \in Nat
        /\ DOMAIN units = 1..Len(units) /\ Len(units) \in Nat
    BY <2>1
  <2>3. Len(rows) <= Len(res) /\ Len(rows) <= Len(units) /\ Len(rows) <= limit
    BY <2>1, <2>2 DEF Sliced, Selected
  <2>4. \A i \in 1..Len(rows) : i \in 1..Len(units) /\ rows[i] = units[i] /\ units[i].value > threshold
    BY <2>1, <2>2, <2>3 DEF Sliced, Selected
  <2>5. IsSorted(rows, NotAfter)
    BY <2>1, <2>2, <2>4 DEF Ordered, IsSorted, NotAfter
  <2>6. IsInjective(rows)
    BY <2>1, <2>2, <2>4 DEF Ordered, IsInjective
  <2>7. ToSet(rows) \subseteq {u \in ToSet(units) : u.value > threshold}
    BY <2>2, <2>4 DEF ToSet
  <2>8. ASSUME NEW u \in ToSet(units) \ ToSet(rows), u.value > threshold
        PROVE  Len(rows) = limit /\ \A i \in DOMAIN rows : rows[i].value >= u.value
    <3>1. PICK k \in 1..Len(units) : units[k] = u
      BY <2>2, <2>8 DEF ToSet
    <3>2. k > Len(rows)
      <4> SUFFICES ASSUME k \in 1..Len(rows)
                   PROVE  FALSE
        BY <2>2, <3>1
      <4> QED
        BY <2>2, <2>4, <2>8, <3>1 DEF ToSet
    <3>3. Len(rows) = Len(res)
      <4> SUFFICES ASSUME Len(rows) < Len(res)
                   PROVE  FALSE
        BY <2>2, <2>3
      <4> DEFINE n == Len(rows) + 1
      <4>1. n \in 1..Len(res) /\ n \in 1..Len(units) /\ n <= k
        BY <2>1, <2>2, <3>1, <3>2 DEF Sliced
      <4>2. units[n].value <= threshold
        BY <2>1, <2>2, <4>1 DEF Sliced, Selected
      <4>3. units[n].value >= u.value
        <5>1. units[n].value \in Nat
          BY <2>1, <4>1, ValuesAreNat
        <5>2. CASE n = k
          BY <3>1, <5>1, <5>2
        <5>3. CASE n # k
          BY <2>1, <3>1, <4>1, <5>3 DEF Ordered
        <5> QED
          BY <5>2, <5>3
      <4>4. units[n].value \in Nat /\ u.value \in Nat
        BY <2>1, <3>1, <4>1, ValuesAreNat
      <4> HIDE DEF n
      <4> QED
        BY <2>1, <2>8, <4>2, <4>3, <4>4
    <3>4. Len(rows) = limit
      <4>1. Len(res) \in Nat /\ Len(units) \in Nat
        BY <2>2
      <4>2. k > Len(res)
        BY <3>2, <3>3
      <4>3. ASSUME Len(res) = Len(units)
            PROVE  FALSE
        <5>1. k > Len(units)
          BY <4>2, <4>3
        <5> QED
          BY <3>1, <4>1, <5>1
      <4> QED
        BY <2>1, <3>3, <4>3
    <3>5. \A i \in 1..Len(rows) : rows[i].value >= u.value
      BY <2>1, <2>2, <2>4, <3>1, <3>2 DEF Ordered
    <3> QED
      BY <2>2, <3>4, <3>5
  <2> QED
    BY <2>3, <2>5, <2>6, <2>7, <2>8
<1> QED
  BY <1>1, InitTInv, NextTInv, PTL DEF Spec

-----------------------------------------------------------------------------
(***************************************************************************)
(* For the files.  A string table numbers its keys from 1, without gaps    *)
(* (sampling.c:23-39).                                                     *)
(***************************************************************************)
Key == [text : Strings, zero : BOOLEAN]

Numbered(t) ==
  /\ \A k \in DOMAIN t.map : t.map[k] \in 1..(t.i - 1)
  /\ \A k, l \in DOMAIN t.map : t.map[k] = t.map[l] => k = l
  /\ \A n \in 1..(t.i - 1) : \E k \in DOMAIN t.map : t.map[k] = n

StringTable ==
  {t \in [map : UNION {[K -> Nat] : K \in SUBSET Key}, i : Nat \ {0}] : Numbered(t)}

Keeps(t, u) ==
  /\ DOMAIN t.map \subseteq DOMAIN u.map
  /\ \A k \in DOMAIN t.map : u.map[k] = t.map[k]

(***************************************************************************)
(* m gives the indexes of strings.  Described: a profile has a function, a *)
(* location and a sample for each of the first n units of us, with the     *)
(* place as its id.  TypesGiven: the types are those of SampleTypes.       *)
(* Filled: every string is at its index.                                   *)
(***************************************************************************)
Described(pprof, m, us, n) ==
  /\ Len(pprof.function) = n /\ Len(pprof.location) = n /\ Len(pprof.sample) = n
  /\ \A j \in 1..n :
       /\ {Str(us[j].name), Str(us[j].filename)} \subseteq DOMAIN m
       /\ pprof.function[j] =
            [id |-> j, name |-> m[Str(us[j].name)], system_name |-> m[Str(us[j].name)],
             filename |-> m[Str(us[j].filename)], start_line |-> us[j].lineno]
       /\ pprof.location[j] =
            [id |-> j, mapping_id |-> 1,
             line |-> <<[function_id |-> j, line |-> us[j].lineno]>>]
       /\ pprof.sample[j] =
            [location_id |-> <<j>>,
             value |-> <<us[j].hits, Nanoseconds(us[j].hits * sampling_interval)>>]

TypesGiven(pprof, m) ==
  /\ ToSet(SampleTypes) \subseteq DOMAIN m
  /\ pprof.sample_type =
       <<[type |-> m[Literal("samples")], unit |-> m[Literal("count")]],
         [type |-> m[Literal("cpu")], unit |-> m[Literal("nanoseconds")]]>>
  /\ pprof.period_type = [type |-> m[Literal("cpu")], unit |-> m[Literal("nanoseconds")]]

Filled(pprof, t) ==
  /\ pprof.mapping = <<[id |-> 1, has_functions |-> TRUE]>>
  /\ pprof.string_table \in Seq(Strings) /\ Len(pprof.string_table) = t.i
  /\ pprof.string_table[1] = ""
  /\ \A k \in DOMAIN t.map : pprof.string_table[t.map[k] + 1] = k.text

(***************************************************************************)
(* What there is at each step of the writers, and from then on in a file   *)
(* that is complete.                                                       *)
(***************************************************************************)
InPprof ==
  /\ step = "threshold" =>
       /\ string_table_map = EmptyMap /\ profile = PROFILE__INIT /\ next = 1
       /\ sampling_units = collected
  /\ step \in {"units", "strings", "write"} \/ file = "complete" =>
       /\ sampling_units = UnitsAbove(collected)
       /\ TypesGiven(profile, string_table_map.map)
       /\ next - 1 <= Len(sampling_units)
       /\ Described(profile, string_table_map.map, sampling_units, next - 1)
  /\ step \in {"strings", "write"} \/ file = "complete" => next - 1 = Len(sampling_units)
  /\ step = "write" \/ file = "complete" => Filled(profile, string_table_map)

InCallgrind ==
  /\ step \in {"units", "close"} => sampling_units = collected
  /\ step = "close" => file # "complete"
  /\ file = "complete" => entries = UnitsAbove(collected)

WInv ==
  /\ string_table_map \in StringTable /\ profile \in Profile /\ next \in Nat \ {0}
  /\ sampling_units \in Seq(SamplingUnit) /\ collected \in Seq(SamplingUnit)
  /\ step = "open" =>
       /\ string_table_map = EmptyMap /\ profile = PROFILE__INIT /\ next = 1
       /\ sampling_units = collected
  /\ step \in WriterSteps \cup {"table", "open"} => file # "complete"
  /\ output_mode = "pprof" => InPprof
  /\ output_mode = "callgrind" => InCallgrind

-----------------------------------------------------------------------------
\* A key that is looked up has an index of its own, and no other index
\* changes.
LEMMA InternedKey ==
  ASSUME NEW t \in StringTable, NEW key \in Key
  PROVE  /\ Interned(t, key) \in StringTable /\ Keeps(t, Interned(t, key))
         /\ key \in DOMAIN Interned(t, key).map
<1>1. CASE key \in DOMAIN t.map
  <2>1. Interned(t, key) = t
    BY <1>1 DEF Interned
  <2> QED
    BY <1>1, <2>1 DEF Keeps
<1>2. CASE key \notin DOMAIN t.map
  <2> DEFINE K == DOMAIN t.map
             m == [k \in K \cup {key} |-> IF k = key THEN t.i ELSE t.map[k]]
             u == [map |-> m, i |-> t.i + 1]
  <2>1. /\ t.i \in Nat \ {0} /\ K \in SUBSET Key /\ t.map \in [K -> Nat]
        /\ Numbered(t)
    BY DEF StringTable
  <2>2. Interned(t, key) = u
    BY <1>2 DEF Interned
  <2>3. K \cup {key} \in SUBSET Key /\ m \in [K \cup {key} -> Nat]
    BY <2>1
  <2>4. /\ DOMAIN m = K \cup {key} /\ m[key] = t.i
        /\ \A k \in K : m[k] = t.map[k] /\ m[k] \in 1..(t.i - 1)
    BY <1>2, <2>1 DEF Numbered
  <2>5. u.map = m /\ u.i = t.i + 1 /\ u.i - 1 = t.i
    BY <2>1
  <2> HIDE DEF m, u
  <2>6. Numbered(u)
    <3>1. \A k \in DOMAIN m : m[k] \in 1..(u.i - 1)
      BY <2>1, <2>4, <2>5
    <3>2. \A k, l \in DOMAIN m : m[k] = m[l] => k = l
      BY <2>1, <2>4 DEF Numbered
    <3>3. ASSUME NEW n \in 1..t.i
          PROVE  \E k \in DOMAIN m : m[k] = n
      <4>1. CASE n = t.i
        BY <2>4, <4>1
      <4>2. CASE n # t.i
        <5>1. n \in 1..(t.i - 1)
          BY <2>1, <4>2
        <5> QED
          BY <2>1, <2>4, <5>1 DEF Numbered
      <4> QED
        BY <4>1, <4>2
    <3> QED
      BY <2>5, <3>1, <3>2, <3>3 DEF Numbered
  <2>7. u \in [map : UNION {[L -> Nat] : L \in SUBSET Key}, i : Nat \ {0}]
    BY <2>1, <2>3 DEF u
  <2> QED
    BY <1>2, <2>2, <2>4, <2>5, <2>6, <2>7 DEF StringTable, Keeps
<1> QED
  BY <1>1, <1>2

LEMMA EmptyTable == EmptyMap \in StringTable
<1>1. /\ EmptyMap.map = [k \in {} |-> 0] /\ EmptyMap.i = 1
      /\ EmptyMap = [map |-> EmptyMap.map, i |-> 1]
  BY DEF EmptyMap
<1>2. DOMAIN EmptyMap.map = {} /\ EmptyMap.map \in [{} -> Nat]
  BY <1>1
<1>3. Numbered(EmptyMap)
  BY <1>1, <1>2 DEF Numbered
<1>4. EmptyMap.map \in UNION {[K -> Nat] : K \in SUBSET Key}
  BY <1>2
<1>5. EmptyMap \in [map : UNION {[K -> Nat] : K \in SUBSET Key}, i : Nat \ {0}]
  <2> DEFINE Maps == UNION {[K -> Nat] : K \in SUBSET Key}
             m == EmptyMap.map
  <2>1. m \in Maps /\ EmptyMap = [map |-> m, i |-> 1]
    BY <1>1, <1>4
  <2> HIDE DEF m, Maps
  <2>2. EmptyMap \in [map : Maps, i : Nat \ {0}]
    BY <2>1
  <2> QED
    BY <2>2 DEF Maps
<1> QED
  BY <1>3, <1>5 DEF StringTable

\* All keys that are looked up one after another have an index, and those
\* that had one keep it.
LEMMA KeysInterned ==
  ASSUME NEW t \in StringTable, NEW keys \in Seq(Key)
  PROVE  /\ AllInterned(t, keys) \in StringTable /\ Keeps(t, AllInterned(t, keys))
         /\ ToSet(keys) \subseteq DOMAIN AllInterned(t, keys).map
<1> DEFINE S == 1..Len(keys)
           pick == [s \in SUBSET S |-> Max(s)]
           one == [x \in StringTable \X S |-> Interned(x[1], keys[x[2]])]
           IsIter(g) == g = [s \in SUBSET S |-> IF s = {} THEN t
                               ELSE Interned(g[s \ {Max(s)}], keys[Max(s)])]
<1>1. DOMAIN keys = S /\ IsFiniteSet(S) /\ \A i \in S : keys[i] \in Key
  BY Positions
<1>2. \A s \in SUBSET S : s # {} => Max(s) \in s
  <2>1. Len(keys) \in Nat
    OBVIOUS
  <2> QED
    BY <2>1, MaxOfPositions
<1>3. \E h : IsIter(h)
  <2>1. one \in [StringTable \X S -> StringTable]
    BY <1>1, InternedKey
  <2>2. Picks(pick, S)
    BY <1>2 DEF Picks
  <2> HIDE DEF one, pick, S, IsIter
  <2>3. IsFiniteSet(S)
    BY <1>1
  <2>4. PICK h : IsFold(h, one, pick, t, S) /\ \A s \in SUBSET S : h[s] \in StringTable
    BY <2>3, <2>1, <2>2, TypedFold
  <2>5. ASSUME NEW s \in SUBSET S, s # {}
        PROVE  one[h[s \ {pick[s]}], pick[s]] = Interned(h[s \ {Max(s)}], keys[Max(s)])
    <3>1. pick[s] = Max(s) /\ Max(s) \in S /\ h[s \ {Max(s)}] \in StringTable
      BY <1>2, <2>4, <2>5 DEF pick
    <3> QED
      BY <3>1 DEF one
  <2>6. h = [s \in SUBSET S |-> IF s = {} THEN t ELSE one[h[s \ {pick[s]}], pick[s]]]
    BY <2>4 DEF IsFold
  <2>7. IsIter(h)
    BY <2>5, <2>6 DEF IsIter
  <2> QED
    BY <2>7
<1> DEFINE g == CHOOSE h : IsIter(h)
<1>4. IsIter(g)
  BY <1>3
<1>5. AllInterned(t, keys) = g[S]
  BY <1>1 DEF AllInterned, FoldLeft, MapThenFoldSet
<1> HIDE DEF g, S
<1> DEFINE Good(s) == /\ g[s] \in StringTable /\ Keeps(t, g[s])
                      /\ \A i \in s : keys[i] \in DOMAIN g[s].map
           B == {s \in SUBSET S : ~ Good(s)}
<1>6. ASSUME B # {}
      PROVE  FALSE
  <2>1. PICK s \in B : \A r \in B : r \subseteq s => r = s
    <3> HIDE DEF B
    <3>1. B \in SUBSET SUBSET S
      BY DEF B
    <3> QED
      BY <1>1, <1>6, <3>1, SmallestSubset
  <2> DEFINE rest == s \ {Max(s)}
  <2>2. s \in SUBSET S /\ g[s] = IF s = {} THEN t ELSE Interned(g[rest], keys[Max(s)])
    BY <1>4, <2>1
  <2>3. s # {}
    BY <2>1, <2>2 DEF Keeps
  <2>4. Max(s) \in s /\ keys[Max(s)] \in Key /\ rest \in SUBSET S /\ rest \subseteq s /\ rest # s
    BY <1>1, <1>2, <2>2, <2>3
  <2>5. Good(rest)
    BY <2>1, <2>4
  <2>6. /\ g[s] \in StringTable /\ Keeps(g[rest], g[s])
        /\ keys[Max(s)] \in DOMAIN g[s].map
    BY <2>2, <2>3, <2>4, <2>5, InternedKey
  <2>7. Good(s)
    BY <2>5, <2>6 DEF Keeps
  <2> QED
    BY <2>1, <2>7
<1>7. Good(S)
  BY <1>6
<1> QED
  BY <1>1, <1>5, <1>7 DEF ToSet

\* The units above the threshold are units.
LEMMA UnitsAboveType ==
  ASSUME NEW table \in Seq(SamplingUnit)
  PROVE  UnitsAbove(table) \in Seq(SamplingUnit)
<1> DEFINE S == 1..Len(table)
           V == Seq(SamplingUnit)
           pick == [s \in SUBSET S |-> Max(s)]
           one == [x \in V \X S |-> KeepAbove(x[1], table[x[2]])]
           IsIter(g) == g = [s \in SUBSET S |-> IF s = {} THEN << >>
                               ELSE KeepAbove(g[s \ {Max(s)}], table[Max(s)])]
<1>1. DOMAIN table = S /\ IsFiniteSet(S) /\ \A i \in S : table[i] \in SamplingUnit
  BY Positions
<1>2. \A s \in SUBSET S : s # {} => Max(s) \in s
  BY MaxOfPositions
<1>3. ASSUME NEW kept \in V, NEW unit \in SamplingUnit
      PROVE  KeepAbove(kept, unit) \in V
  BY <1>3, AppendLast DEF KeepAbove
<1>4. << >> \in V
  OBVIOUS
<1> HIDE DEF V
<1>5. \E h : IsIter(h)
  <2>1. one \in [V \X S -> V]
    BY <1>1, <1>3
  <2>2. Picks(pick, S)
    BY <1>2 DEF Picks
  <2> HIDE DEF one, pick, S, IsIter
  <2>3. IsFiniteSet(S)
    BY <1>1
  <2>4. PICK h : IsFold(h, one, pick, << >>, S) /\ \A s \in SUBSET S : h[s] \in V
    BY <1>4, <2>3, <2>1, <2>2, TypedFold
  <2>5. ASSUME NEW s \in SUBSET S, s # {}
        PROVE  one[h[s \ {pick[s]}], pick[s]] = KeepAbove(h[s \ {Max(s)}], table[Max(s)])
    <3>1. pick[s] = Max(s) /\ Max(s) \in S /\ h[s \ {Max(s)}] \in V
      BY <1>2, <2>4, <2>5 DEF pick
    <3> QED
      BY <3>1 DEF one
  <2>6. h = [s \in SUBSET S |-> IF s = {} THEN << >> ELSE one[h[s \ {pick[s]}], pick[s]]]
    BY <2>4 DEF IsFold
  <2>7. IsIter(h)
    BY <2>5, <2>6 DEF IsIter
  <2> QED
    BY <2>7
<1> DEFINE g == CHOOSE h : IsIter(h)
<1>6. IsIter(g)
  BY <1>5
<1>7. UnitsAbove(table) = g[S]
  BY <1>1 DEF UnitsAbove, FoldLeft, MapThenFoldSet
<1> HIDE DEF g, S
<1> DEFINE B == {s \in SUBSET S : g[s] \notin V}
<1>8. ASSUME B # {}
      PROVE  FALSE
  <2>1. PICK s \in B : \A r \in B : r \subseteq s => r = s
    <3> HIDE DEF B
    <3>1. B \in SUBSET SUBSET S
      BY DEF B
    <3> QED
      BY <1>1, <1>8, <3>1, SmallestSubset
  <2> DEFINE rest == s \ {Max(s)}
  <2>2. s \in SUBSET S /\ g[s] = IF s = {} THEN << >> ELSE KeepAbove(g[rest], table[Max(s)])
    BY <1>6, <2>1
  <2>3. s # {}
    BY <1>4, <2>1, <2>2
  <2>4. /\ table[Max(s)] \in SamplingUnit
        /\ rest \in SUBSET S /\ rest \subseteq s /\ rest # s
    BY <1>1, <1>2, <2>2, <2>3
  <2>5. g[rest] \in V
    BY <2>1, <2>4
  <2> QED
    BY <1>3, <2>1, <2>2, <2>3, <2>4, <2>5
<1> QED
  BY <1>7, <1>8 DEF V

-----------------------------------------------------------------------------
\* What was described stays so when more strings get an index.
LEMMA StillDescribed ==
  ASSUME NEW pprof, NEW t, NEW u, Keeps(t, u), NEW us, NEW n
  PROVE  /\ Described(pprof, t.map, us, n) => Described(pprof, u.map, us, n)
         /\ TypesGiven(pprof, t.map) => TypesGiven(pprof, u.map)
<1>1. Described(pprof, t.map, us, n) => Described(pprof, u.map, us, n)
  BY DEF Keeps, Described
<1>2. ASSUME TypesGiven(pprof, t.map)
      PROVE  TypesGiven(pprof, u.map)
  <2>1. {Literal("samples"), Literal("count"), Literal("cpu"), Literal("nanoseconds")}
          \subseteq ToSet(SampleTypes)
    <3>1. DOMAIN SampleTypes = 1..4
      BY DEF SampleTypes
    <3> QED
      BY <3>1 DEF SampleTypes, ToSet
  <2>2. \A key \in ToSet(SampleTypes) : key \in DOMAIN u.map /\ u.map[key] = t.map[key]
    BY <1>2 DEF TypesGiven, Keeps
  <2> QED
    BY <1>2, <2>1, <2>2 DEF TypesGiven
<1> QED
  BY <1>1, <1>2

\* A key has a number as its index.
LEMMA IndexIsNat ==
  ASSUME NEW t \in StringTable, NEW key \in DOMAIN t.map
  PROVE  t.map[key] \in Nat /\ key \in Key
BY DEF StringTable

\* The keys of literals and of the names of units.
LEMMA KeysOfStrings ==
  /\ SampleTypes \in Seq(Key)
  /\ \A unit \in SamplingUnit : <<Str(unit.name), Str(unit.filename)>> \in Seq(Key)
<1>1. \A s \in Strings : Str(s) \in Key /\ Literal(s) \in Key
  BY DEF Str, Literal, Key
<1>2. /\ Literal("samples") \in Key /\ Literal("count") \in Key
      /\ Literal("cpu") \in Key /\ Literal("nanoseconds") \in Key
  BY <1>1, ProfileFilesAssumption
<1>3. SampleTypes \in Seq(Key)
  BY <1>2 DEF SampleTypes
<1>4. ASSUME NEW unit \in SamplingUnit
      PROVE  <<Str(unit.name), Str(unit.filename)>> \in Seq(Key)
  BY <1>1 DEF SamplingUnit
<1> QED
  BY <1>3, <1>4

\* The next unit is described.
LEMMA AddedUnit ==
  ASSUME profile \in Profile, string_table_map \in StringTable, NEW us, NEW k \in Nat,
         Described(profile, string_table_map.map, us, k),
         TypesGiven(profile, string_table_map.map),
         us[k + 1] \in SamplingUnit, AddUnit(us[k + 1])
  PROVE  /\ profile' \in Profile /\ string_table_map' \in StringTable
         /\ Described(profile', string_table_map'.map, us, k + 1)
         /\ TypesGiven(profile', string_table_map'.map)
<1> DEFINE unit == us[k + 1]
           t == AllInterned(string_table_map, <<Str(unit.name), Str(unit.filename)>>)
           m == t.map
           f == [id |-> k + 1, name |-> m[Str(unit.name)], system_name |-> m[Str(unit.name)],
                 filename |-> m[Str(unit.filename)], start_line |-> unit.lineno]
           l == [id |-> k + 1, mapping_id |-> 1,
                 line |-> <<[function_id |-> k + 1, line |-> unit.lineno]>>]
           s == [location_id |-> <<k + 1>>,
                 value |-> <<unit.hits, Nanoseconds(unit.hits * sampling_interval)>>]
<1>1. /\ t \in StringTable /\ Keeps(string_table_map, t)
      /\ {Str(unit.name), Str(unit.filename)} \subseteq DOMAIN m
  <2> DEFINE keys == <<Str(unit.name), Str(unit.filename)>>
  <2>1. keys \in Seq(Key)
    BY KeysOfStrings
  <2>2. ToSet(keys) = {Str(unit.name), Str(unit.filename)}
    BY DEF ToSet
  <2> HIDE DEF keys
  <2>3. /\ AllInterned(string_table_map, keys) \in StringTable
        /\ Keeps(string_table_map, AllInterned(string_table_map, keys))
        /\ ToSet(keys) \subseteq DOMAIN AllInterned(string_table_map, keys).map
    BY <2>1, KeysInterned
  <2> QED
    BY <2>2, <2>3 DEF keys
<1>2. /\ Len(profile.function) = k /\ Len(profile.location) = k /\ Len(profile.sample) = k
  BY DEF Described
<1>3. /\ string_table_map' = t
      /\ profile' = [profile EXCEPT !.function = Append(@, f), !.location = Append(@, l),
                                    !.sample = Append(@, s)]
  BY <1>2 DEF AddUnit, AddUnitAs
<1>4. unit.lineno \in Nat /\ unit.hits \in Nat
  BY DEF SamplingUnit
<1> HIDE DEF t, unit
<1>5. f \in Function
  <2>1. m[Str(unit.name)] \in Nat /\ m[Str(unit.filename)] \in Nat
    BY <1>1, IndexIsNat
  <2> QED
    BY <1>4, <2>1 DEF Function
<1>6. l \in Location
  <2>1. [function_id |-> k + 1, line |-> unit.lineno] \in Line
    BY <1>4 DEF Line
  <2> QED
    BY <2>1 DEF Location
<1>7. s \in Sample
  <2>1. unit.hits * sampling_interval \in Nat
    <3>1. \A a, b \in Nat : a * b \in Nat
      OBVIOUS
    <3> QED
      BY <1>4, <3>1, ProfileFilesAssumption
  <2>2. Nanoseconds(unit.hits * sampling_interval) \in Int
    BY <2>1 DEF Nanoseconds
  <2> QED
    BY <1>4, <2>2 DEF Sample
<1>8. /\ profile.function \in Seq(Function) /\ profile.location \in Seq(Location)
      /\ profile.sample \in Seq(Sample)
  BY DEF Profile
<1> HIDE DEF f, l, s
<1>9. /\ profile'.function = Append(profile.function, f)
      /\ profile'.location = Append(profile.location, l)
      /\ profile'.sample = Append(profile.sample, s)
      /\ profile'.sample_type = profile.sample_type
      /\ profile'.period_type = profile.period_type
  BY <1>3 DEF Profile
<1>10. profile' \in Profile
  <2>1. /\ Append(profile.function, f) \in Seq(Function)
        /\ Append(profile.location, l) \in Seq(Location)
        /\ Append(profile.sample, s) \in Seq(Sample)
    BY <1>5, <1>6, <1>7, <1>8, AppendLast
  <2> QED
    BY <1>3, <2>1 DEF Profile
<1>11. TypesGiven(profile', m)
  <2>1. TypesGiven(profile, m)
    BY <1>1, StillDescribed
  <2> QED
    BY <1>9, <2>1 DEF TypesGiven
<1>12. Described(profile', m, us, k + 1)
  <2>1. Described(profile, m, us, k)
    BY <1>1, StillDescribed
  <2>2. /\ Len(profile'.function) = k + 1 /\ profile'.function[k + 1] = f
        /\ \A j \in 1..k : profile'.function[j] = profile.function[j]
    BY <1>2, <1>5, <1>8, <1>9, AppendLast
  <2>3. /\ Len(profile'.location) = k + 1 /\ profile'.location[k + 1] = l
        /\ \A j \in 1..k : profile'.location[j] = profile.location[j]
    BY <1>2, <1>6, <1>8, <1>9, AppendLast
  <2>4. /\ Len(profile'.sample) = k + 1 /\ profile'.sample[k + 1] = s
        /\ \A j \in 1..k : profile'.sample[j] = profile.sample[j]
    BY <1>2, <1>7, <1>8, <1>9, AppendLast
  <2>5. ASSUME NEW j \in 1..(k + 1)
        PROVE  /\ {Str(us[j].name), Str(us[j].filename)} \subseteq DOMAIN m
               /\ profile'.function[j] =
                    [id |-> j, name |-> m[Str(us[j].name)],
                     system_name |-> m[Str(us[j].name)],
                     filename |-> m[Str(us[j].filename)], start_line |-> us[j].lineno]
               /\ profile'.location[j] =
                    [id |-> j, mapping_id |-> 1,
                     line |-> <<[function_id |-> j, line |-> us[j].lineno]>>]
               /\ profile'.sample[j] =
                    [location_id |-> <<j>>,
                     value |-> <<us[j].hits, Nanoseconds(us[j].hits * sampling_interval)>>]
    <3>1. CASE j = k + 1
      BY <1>1, <2>2, <2>3, <2>4, <3>1 DEF f, l, s, unit
    <3>2. CASE j # k + 1
      <4>1. j \in 1..k
        BY <3>2
      <4> QED
        BY <2>1, <2>2, <2>3, <2>4, <4>1 DEF Described
    <3> QED
      BY <3>1, <3>2
  <2> QED
    BY <2>2, <2>3, <2>4, <2>5 DEF Described
<1> QED
  BY <1>1, <1>3, <1>10, <1>11, <1>12

\* The types are given by the first strings that get an index.
LEMMA TypesFirst ==
  ASSUME profile = PROFILE__INIT, string_table_map = EmptyMap, ApplyThreshold
  PROVE  /\ profile' \in Profile /\ string_table_map' \in StringTable
         /\ TypesGiven(profile', string_table_map'.map)
         /\ \A us : Described(profile', string_table_map'.map, us, 0)
<1> DEFINE t == AllInterned(EmptyMap, SampleTypes)
           m == t.map
           samples == [type |-> m[Literal("samples")], unit |-> m[Literal("count")]]
           cpu == [type |-> m[Literal("cpu")], unit |-> m[Literal("nanoseconds")]]
<1>1. t \in StringTable /\ ToSet(SampleTypes) \subseteq DOMAIN m
  BY EmptyTable, KeysOfStrings, KeysInterned
<1>2. /\ string_table_map' = t
      /\ profile' = [PROFILE__INIT EXCEPT !.sample_type = <<samples, cpu>>,
                       !.period_type = cpu, !.period = sampling_interval]
  BY DEF ApplyThreshold
<1> HIDE DEF t
<1>3. samples \in ValueType /\ cpu \in ValueType
  <2>1. DOMAIN SampleTypes = 1..4
    BY DEF SampleTypes
  <2>2. {Literal("samples"), Literal("count"), Literal("cpu"), Literal("nanoseconds")}
          \subseteq DOMAIN m
    BY <1>1, <2>1 DEF SampleTypes, ToSet
  <2>3. /\ m[Literal("samples")] \in Nat /\ m[Literal("count")] \in Nat
        /\ m[Literal("cpu")] \in Nat /\ m[Literal("nanoseconds")] \in Nat
    BY <1>1, <2>2, IndexIsNat
  <2> QED
    BY <2>3 DEF ValueType
<1> DEFINE types == <<samples, cpu>>
<1>4. types \in Seq(ValueType)
  <2> HIDE DEF samples, cpu
  <2> QED
    BY <1>3
<1> HIDE DEF samples, cpu, types
<1>5. profile' = [sample_type |-> types, sample |-> << >>, mapping |-> << >>,
                  location |-> << >>, function |-> << >>, string_table |-> << >>,
                  period_type |-> cpu, period |-> sampling_interval]
  BY <1>2 DEF PROFILE__INIT, types
<1>6. profile' \in Profile
  <2>1. \A S : << >> \in Seq(S)
    OBVIOUS
  <2> HIDE DEF types, cpu
  <2> QED
    BY <1>3, <1>4, <1>5, <2>1, ProfileFilesAssumption DEF Profile
<1>7. TypesGiven(profile', m)
  BY <1>1, <1>5 DEF TypesGiven, types, samples, cpu
<1>8. \A us : Described(profile', m, us, 0)
  BY <1>5 DEF Described
<1> QED
  BY <1>1, <1>2, <1>6, <1>7, <1>8

\* Every string of the table of keys gets to its index, and no place stays
\* unset.
LEMMA StringsFilled ==
  ASSUME profile \in Profile, string_table_map \in StringTable, FillStrings
  PROVE  /\ profile' \in Profile /\ Filled(profile', string_table_map)
         /\ profile'.function = profile.function /\ profile'.location = profile.location
         /\ profile'.sample = profile.sample
         /\ profile'.sample_type = profile.sample_type
         /\ profile'.period_type = profile.period_type
<1> DEFINE i == string_table_map.i
           m == string_table_map.map
           Keys(k) == {key \in DOMAIN m : m[key] = k - 1}
           Text(k) == IF k = 1 THEN ""
                      ELSE IF Keys(k) = {} THEN Unset ELSE (CHOOSE key \in Keys(k) : TRUE).text
           strings == [k \in 1..i |-> Text(k)]
           mapping == <<[id |-> 1, has_functions |-> TRUE]>>
<1>1. /\ i \in Nat \ {0} /\ Numbered(string_table_map)
      /\ \A key \in DOMAIN m : key \in Key
  BY DEF StringTable
<1>2. profile' = [profile EXCEPT !.mapping = mapping, !.string_table = strings]
  BY DEF FillStrings
<1> HIDE DEF Text
<1>3. \A key \in DOMAIN m : m[key] + 1 \in 2..i /\ Text(m[key] + 1) = key.text
  <2> TAKE key \in DOMAIN m
  <2>1. m[key] \in 1..(i - 1)
    BY <1>1 DEF Numbered
  <2> DEFINE k == m[key] + 1
  <2>2. k \in 2..i /\ k - 1 = m[key]
    BY <1>1, <2>1
  <2>3. Keys(k) = {key}
    BY <1>1, <2>2 DEF Numbered
  <2>4. k # 1
    BY <1>1, <2>1
  <2> HIDE DEF k, Keys
  <2>5. Text(k) = key.text
    BY <2>3, <2>4 DEF Text
  <2> QED
    BY <2>2, <2>5 DEF k
<1>4. \A k \in 1..i : Text(k) \in Strings
  <2> TAKE k \in 1..i
  <2>1. CASE k = 1
    BY <2>1, ProfileFilesAssumption DEF Text
  <2>2. CASE k # 1
    <3>1. k - 1 \in 1..(i - 1)
      BY <1>1, <2>2
    <3>2. PICK key \in DOMAIN m : m[key] = k - 1
      BY <1>1, <3>1 DEF Numbered
    <3>3. m[key] + 1 = k
      BY <1>1, <3>2
    <3>4. Text(k) = key.text
      BY <1>3, <3>3
    <3>5. key.text \in Strings
      BY <1>1 DEF Key
    <3> QED
      BY <3>4, <3>5
  <2> QED
    BY <2>1, <2>2
<1>5. strings[1] = ""
  <2>1. 1 \in 1..i
    BY <1>1
  <2> QED
    BY <2>1 DEF Text
<1>6. \A key \in DOMAIN m : strings[m[key] + 1] = key.text
  <2> TAKE key \in DOMAIN m
  <2>1. m[key] + 1 \in 1..i
    BY <1>1, <1>3
  <2> QED
    BY <1>3, <2>1
<1>7. strings \in Seq(Strings) /\ Len(strings) = i
  <2>1. strings \in [1..i -> Strings]
    BY <1>4
  <2> QED
    BY <1>1, <2>1
<1> HIDE DEF strings
<1>8. strings \in Seq(Strings \cup {Unset})
  BY <1>7
<1>9. mapping \in Seq(Mapping)
  BY DEF Mapping
<1> HIDE DEF mapping
<1>10. profile' \in Profile
  BY <1>2, <1>8, <1>9 DEF Profile
<1>11. /\ profile'.mapping = mapping /\ profile'.string_table = strings
       /\ profile'.function = profile.function /\ profile'.location = profile.location
       /\ profile'.sample = profile.sample /\ profile'.sample_type = profile.sample_type
       /\ profile'.period_type = profile.period_type
  BY <1>2 DEF Profile
<1>12. Filled(profile', string_table_map)
  BY <1>5, <1>6, <1>7, <1>11 DEF Filled, mapping
<1> QED
  BY <1>10, <1>11, <1>12

-----------------------------------------------------------------------------
LEMMA InitWInv == Init => WInv
<1> SUFFICES ASSUME Init
             PROVE  WInv
  OBVIOUS
<1>1. /\ collected \in Tables /\ sampling_units = collected /\ next = 1
      /\ string_table_map = EmptyMap /\ profile = PROFILE__INIT
      /\ file \in {"absent", "old"} /\ step \in {"table", "open"}
  BY DEF Init, FilesInit
<1>2. collected \in Seq(SamplingUnit)
  BY <1>1, ProfileFilesAssumption
<1>3. PROFILE__INIT \in Profile
  <2>1. \A S : << >> \in Seq(S)
    OBVIOUS
  <2> QED
    BY <2>1 DEF PROFILE__INIT, Profile, ValueType
<1> QED
  BY <1>1, <1>2, <1>3, EmptyTable DEF WInv, InPprof, InCallgrind, WriterSteps

\* The steps before the writers, and after them, keep it.
LEMMA OutsideWInv ==
  ASSUME WInv, RInv,
         BuildTable \/ TableOver \/ Open \/ PrintErrors \/ WriterBails \/ UNCHANGED vars
  PROVE  WInv'
<1>1. /\ string_table_map \in StringTable /\ profile \in Profile /\ next \in Nat \ {0}
      /\ sampling_units \in Seq(SamplingUnit) /\ collected \in Seq(SamplingUnit)
      /\ step = "open" =>
           /\ string_table_map = EmptyMap /\ profile = PROFILE__INIT /\ next = 1
           /\ sampling_units = collected
      /\ step \in WriterSteps \cup {"table", "open"} => file # "complete"
      /\ output_mode = "pprof" => InPprof
      /\ output_mode = "callgrind" => InCallgrind
  BY DEF WInv
<1>2. CASE UNCHANGED filesVars
  BY <1>1, <1>2 DEF WInv, InPprof, InCallgrind, filesVars, written
<1>3. ASSUME step' \in {"errors", "done", "abandoned"},
             step' = "abandoned" => file # "complete",
             UNCHANGED <<output_mode, sampling_units, collected, next, written, file>>
      PROVE  WInv'
  BY <1>1, <1>3 DEF WInv, InPprof, InCallgrind, written, WriterSteps
<1>4. CASE BuildTable
  BY <1>2, <1>4 DEF BuildTable
<1>5. CASE TableOver
  BY <1>1, <1>3, <1>5 DEF TableOver
<1>6. CASE Open
  <2>1. /\ step = "open"
        /\ UNCHANGED <<output_mode, sampling_units, collected, next, written>>
    BY <1>6 DEF Open
  <2>2. CASE step' = "errors" /\ UNCHANGED file
    BY <1>3, <2>1, <2>2
  <2>3. CASE /\ file' = "empty"
             /\ step' = IF output_mode = "pprof" THEN "threshold" ELSE "units"
    BY <1>1, <2>1, <2>3 DEF WInv, InPprof, InCallgrind, written, WriterSteps
  <2> QED
    BY <1>6, <2>2, <2>3 DEF Open
<1>7. CASE PrintErrors
  BY <1>3, <1>7 DEF PrintErrors
<1>8. CASE WriterBails
  BY <1>1, <1>3, <1>8 DEF WriterBails
<1> QED
  BY <1>2, <1>4, <1>5, <1>6, <1>7, <1>8 DEF vars

\* The loop over the units keeps it.
LEMMA UnitStepWInv ==
  ASSUME WInv, RInv, UnitStep
  PROVE  WInv'
<1>1. /\ string_table_map \in StringTable /\ profile \in Profile /\ next \in Nat \ {0}
      /\ sampling_units \in Seq(SamplingUnit) /\ collected \in Seq(SamplingUnit)
      /\ step = "units" /\ file # "complete"
      /\ output_mode = "pprof" => InPprof
      /\ output_mode = "callgrind" => InCallgrind
      /\ UNCHANGED <<output_mode, sampling_units, collected, file>>
  BY DEF WInv, UnitStep, WriterSteps
<1> DEFINE n == next - 1
<1>2. n \in Nat /\ next = n + 1 /\ Len(sampling_units) \in Nat
  BY <1>1
<1>3. output_mode = "pprof" =>
        /\ sampling_units = UnitsAbove(collected)
        /\ TypesGiven(profile, string_table_map.map)
        /\ n <= Len(sampling_units)
        /\ Described(profile, string_table_map.map, sampling_units, n)
  BY <1>1 DEF InPprof
<1>4. output_mode = "callgrind" => sampling_units = collected
  BY <1>1 DEF InCallgrind
<1>5. CASE next > Len(sampling_units)
  <2>1. /\ step' = IF output_mode = "pprof" THEN "strings" ELSE "close"
        /\ UNCHANGED <<next, string_table_map, profile>>
    BY <1>5 DEF UnitStep, written
  <2>2. output_mode = "pprof" => InPprof'
    <3>1. output_mode = "pprof" => n = Len(sampling_units)
      BY <1>2, <1>3, <1>5
    <3> QED
      BY <1>1, <1>3, <2>1, <3>1 DEF InPprof
  <2>3. output_mode = "callgrind" => InCallgrind'
    BY <1>1, <1>4, <2>1 DEF InCallgrind
  <2> QED
    BY <1>1, <2>1, <2>2, <2>3 DEF WInv, WriterSteps
<1>6. CASE ~ (next > Len(sampling_units))
  <2>1. next' = n + 1 + 1 /\ next' - 1 = n + 1 /\ step' = "units"
        /\ n + 1 <= Len(sampling_units)
    BY <1>1, <1>2, <1>6 DEF UnitStep
  <2>2. sampling_units[n + 1] \in SamplingUnit
    BY <1>1, <1>2, <2>1, ElementOfSeq
  <2>3. CASE output_mode = "pprof"
    <3>1. AddUnit(sampling_units[n + 1])
      BY <1>2, <1>6, <2>3 DEF UnitStep
    <3>2. /\ profile' \in Profile /\ string_table_map' \in StringTable
          /\ Described(profile', string_table_map'.map, sampling_units, n + 1)
          /\ TypesGiven(profile', string_table_map'.map)
      BY <1>1, <1>2, <1>3, <2>2, <2>3, <3>1, AddedUnit
    <3>3. InPprof'
      BY <1>1, <1>3, <2>1, <2>3, <3>2 DEF InPprof
    <3> QED
      BY <1>1, <1>2, <2>1, <2>3, <3>2, <3>3 DEF WInv, WriterSteps
  <2>4. CASE output_mode # "pprof"
    <3>1. UNCHANGED <<string_table_map, profile>>
      BY <1>6, <2>4 DEF UnitStep
    <3>2. output_mode = "callgrind" => InCallgrind'
      BY <1>1, <1>4, <2>1 DEF InCallgrind
    <3> QED
      BY <1>1, <1>2, <2>1, <2>4, <3>1, <3>2 DEF WInv, WriterSteps
  <2> QED
    BY <2>3, <2>4
<1> QED
  BY <1>5, <1>6

\* Each step of a report keeps what the writers have described.
LEMMA NextWInv == WInv /\ RInv /\ [Next]_vars => WInv'
<1> SUFFICES ASSUME WInv, RInv, [Next]_vars
             PROVE  WInv'
  OBVIOUS
<1>1. /\ string_table_map \in StringTable /\ profile \in Profile /\ next \in Nat \ {0}
      /\ sampling_units \in Seq(SamplingUnit) /\ collected \in Seq(SamplingUnit)
      /\ step \in WriterSteps \cup {"table", "open"} => file # "complete"
      /\ output_mode = "pprof" => InPprof
      /\ output_mode = "callgrind" => InCallgrind
  BY DEF WInv
<1>2. step \in {"threshold", "strings", "write"} => output_mode = "pprof"
  BY DEF RInv, OnConsole, ToFile
<1>3. CASE ApplyThreshold
  <2>1. /\ step = "threshold" /\ step' = "units" /\ output_mode = "pprof"
        /\ sampling_units' = UnitsAbove(collected)
        /\ UNCHANGED <<output_mode, collected, next, file>> /\ file # "complete"
        /\ string_table_map = EmptyMap /\ profile = PROFILE__INIT /\ next = 1
    BY <1>1, <1>2, <1>3 DEF ApplyThreshold, InPprof, WriterSteps
  <2>2. sampling_units' \in Seq(SamplingUnit)
    BY <1>1, <2>1, UnitsAboveType
  <2>3. /\ profile' \in Profile /\ string_table_map' \in StringTable
        /\ TypesGiven(profile', string_table_map'.map)
        /\ Described(profile', string_table_map'.map, sampling_units', 0)
    BY <1>3, <2>1, TypesFirst
  <2>4. next' - 1 = 0 /\ 0 <= Len(sampling_units')
    BY <2>1, <2>2
  <2>5. InPprof'
    BY <2>1, <2>3, <2>4 DEF InPprof
  <2> QED
    BY <1>1, <2>1, <2>2, <2>3, <2>5 DEF WInv
<1>4. CASE UnitStep
  BY <1>4, UnitStepWInv
<1>5. CASE FillStrings
  <2>1. /\ step = "strings" /\ step' = "write" /\ output_mode = "pprof"
        /\ UNCHANGED <<output_mode, sampling_units, collected, next, string_table_map, file>>
        /\ file # "complete" /\ InPprof
    BY <1>1, <1>2, <1>5 DEF FillStrings, WriterSteps
  <2>2. /\ profile' \in Profile /\ Filled(profile', string_table_map)
        /\ profile'.function = profile.function /\ profile'.location = profile.location
        /\ profile'.sample = profile.sample
        /\ profile'.sample_type = profile.sample_type
        /\ profile'.period_type = profile.period_type
    BY <1>1, <1>5, StringsFilled
  <2>3. /\ sampling_units = UnitsAbove(collected)
        /\ TypesGiven(profile, string_table_map.map)
        /\ next - 1 = Len(sampling_units) /\ next - 1 <= Len(sampling_units)
        /\ Described(profile, string_table_map.map, sampling_units, next - 1)
    BY <2>1 DEF InPprof
  <2>4. TypesGiven(profile', string_table_map.map)
    BY <2>2, <2>3 DEF TypesGiven
  <2>5. Described(profile', string_table_map.map, sampling_units, next - 1)
    BY <2>2, <2>3 DEF Described
  <2>6. InPprof'
    BY <2>1, <2>2, <2>3, <2>4, <2>5 DEF InPprof
  <2> QED
    BY <1>1, <2>1, <2>2, <2>6 DEF WInv, WriterSteps
<1>6. CASE WriteProfile
  <2>1. /\ step = "write" /\ step' = "close" /\ output_mode = "pprof" /\ InPprof
        /\ UNCHANGED <<output_mode, sampling_units, collected, next, written>>
    BY <1>1, <1>2, <1>6 DEF WriteProfile
  <2>2. InPprof'
    BY <2>1 DEF InPprof, written
  <2> QED
    BY <1>1, <2>1, <2>2 DEF WInv, WriterSteps, written
<1>7. CASE Close
  <2>1. /\ step = "close" /\ step' = "errors"
        /\ UNCHANGED <<output_mode, sampling_units, collected, next, written>>
    BY <1>7 DEF Close
  <2>2. output_mode = "pprof" => InPprof'
    <3>1. output_mode = "pprof" /\ file' = "complete" => file = "complete"
      BY <1>7 DEF Close
    <3> QED
      BY <1>1, <2>1, <3>1 DEF InPprof, written
  <2>3. output_mode = "callgrind" => InCallgrind'
    <3>1. output_mode = "callgrind" /\ file' = "complete" =>
            entries = UnitsAbove(sampling_units)
      BY <1>7 DEF Close
    <3> QED
      BY <1>1, <2>1, <3>1 DEF InCallgrind, written
  <2> QED
    BY <1>1, <2>1, <2>2, <2>3 DEF WInv, WriterSteps, written
<1> QED
  BY <1>3, <1>4, <1>5, <1>6, <1>7, OutsideWInv DEF Next, WriteFile, FilesNext

-----------------------------------------------------------------------------
\* A string is found at the index of its key.
LEMMA StringOfKey ==
  ASSUME NEW pprof, NEW t \in StringTable, Filled(pprof, t), NEW key \in DOMAIN t.map
  PROVE  t.map[key] \in 1..(t.i - 1) /\ String(pprof, t.map[key]) = key.text
BY DEF StringTable, Numbered, Filled, String

\* The ids are the places of the messages.
LEMMA IdsArePlaces ==
  ASSUME NEW messages, NEW n \in Nat, DOMAIN messages = 1..n,
         \A j \in 1..n : messages[j].id = j
  PROVE  IdsOf(messages) = 1..n /\ Cardinality(IdsOf(messages)) = n
<1>1. IdsOf(messages) = 1..n
  BY DEF IdsOf
<1> QED
  BY <1>1, FS_Interval

\* A message that describes units, with its strings and its mapping, is
\* valid, and the units are found again by its references.
LEMMA ValidMessage ==
  ASSUME NEW pprof \in Profile, NEW t \in StringTable, NEW us \in Seq(SamplingUnit),
         Described(pprof, t.map, us, Len(us)), TypesGiven(pprof, t.map), Filled(pprof, t)
  PROVE  /\ IsValid(pprof)
         /\ us = [i \in DOMAIN pprof.sample |-> Decoded(pprof, pprof.sample[i])]
<1> DEFINE n == Len(us)
           m == t.map
           index == 1..(t.i - 1)
<1>1. n \in Nat /\ t.i \in Nat \ {0} /\ \A j \in 1..n : us[j] \in SamplingUnit
  BY ElementOfSeq DEF StringTable
<1>2. /\ DOMAIN pprof.function = 1..n /\ Len(pprof.function) = n
      /\ DOMAIN pprof.location = 1..n /\ Len(pprof.location) = n
      /\ DOMAIN pprof.sample = 1..n
  BY DEF Described, Profile
<1>3. ASSUME NEW j \in 1..n
      PROVE  /\ pprof.function[j].id = j
             /\ {pprof.function[j].name, pprof.function[j].system_name,
                 pprof.function[j].filename} \subseteq index
             /\ pprof.location[j].id = j /\ pprof.location[j].mapping_id = 1
             /\ pprof.location[j].line = <<[function_id |-> j, line |-> us[j].lineno]>>
             /\ pprof.sample[j].location_id = <<j>>
             /\ Len(pprof.sample[j].value) = 2
             /\ pprof.sample[j].value[1] = us[j].hits
             /\ String(pprof, pprof.function[j].name) = us[j].name
             /\ String(pprof, pprof.function[j].filename) = us[j].filename
  <2>1. {Str(us[j].name), Str(us[j].filename)} \subseteq DOMAIN m
    BY <1>3 DEF Described
  <2>2. /\ m[Str(us[j].name)] \in index /\ m[Str(us[j].filename)] \in index
        /\ String(pprof, m[Str(us[j].name)]) = us[j].name
        /\ String(pprof, m[Str(us[j].filename)]) = us[j].filename
    BY <2>1, StringOfKey DEF Str
  <2>3. pprof.function[j] =
          [id |-> j, name |-> m[Str(us[j].name)], system_name |-> m[Str(us[j].name)],
           filename |-> m[Str(us[j].filename)], start_line |-> us[j].lineno]
    BY <1>3 DEF Described
  <2>4. pprof.location[j] =
          [id |-> j, mapping_id |-> 1, line |-> <<[function_id |-> j, line |-> us[j].lineno]>>]
    BY <1>3 DEF Described
  <2>5. pprof.sample[j] =
          [location_id |-> <<j>>,
           value |-> <<us[j].hits, Nanoseconds(us[j].hits * sampling_interval)>>]
    BY <1>3 DEF Described
  <2>6. pprof.sample[j].value =
          <<us[j].hits, Nanoseconds(us[j].hits * sampling_interval)>>
    BY <2>5
  <2> QED
    BY <2>2, <2>3, <2>4, <2>5, <2>6
<1>4. /\ IdsOf(pprof.function) = 1..n /\ Cardinality(IdsOf(pprof.function)) = n
      /\ IdsOf(pprof.location) = 1..n /\ Cardinality(IdsOf(pprof.location)) = n
  <2>1. /\ \A j \in 1..n : pprof.function[j].id = j
        /\ \A j \in 1..n : pprof.location[j].id = j
    BY <1>3
  <2> HIDE DEF n
  <2>2. IdsOf(pprof.function) = 1..n /\ Cardinality(IdsOf(pprof.function)) = n
    BY <1>1, <1>2, <2>1, IdsArePlaces
  <2>3. IdsOf(pprof.location) = 1..n /\ Cardinality(IdsOf(pprof.location)) = n
    BY <1>1, <1>2, <2>1, IdsArePlaces
  <2> QED
    BY <2>2, <2>3
<1>5. IdsOf(pprof.mapping) = 1..1 /\ Cardinality(IdsOf(pprof.mapping)) = 1
      /\ Len(pprof.mapping) = 1
  <2> DEFINE mapping == <<[id |-> 1, has_functions |-> TRUE]>>
  <2>1. DOMAIN mapping = 1..1 /\ \A j \in 1..1 : mapping[j].id = j
    OBVIOUS
  <2>2. Len(mapping) = 1 /\ pprof.mapping = mapping
    BY DEF Filled
  <2> HIDE DEF mapping
  <2>3. IdsOf(mapping) = 1..1 /\ Cardinality(IdsOf(mapping)) = 1
    BY <2>1, IdsArePlaces
  <2> QED
    BY <2>2, <2>3
<1>6. \A messages \in {pprof.function, pprof.location, pprof.mapping} :
        Cardinality(IdsOf(messages)) = Len(messages) /\ 0 \notin IdsOf(messages)
  <2>1. 0 \notin 1..n /\ 0 \notin 1..1
    BY <1>1
  <2> HIDE DEF n
  <2> QED
    BY <1>2, <1>4, <1>5, <2>1, Zenon
<1>7. ASSUME NEW location \in ToSet(pprof.location)
      PROVE  /\ location.mapping_id \in IdsOf(pprof.mapping) \cup {0}
             /\ \A l \in ToSet(location.line) : l.function_id \in IdsOf(pprof.function)
  <2>1. PICK j \in 1..n : location = pprof.location[j]
    BY <1>2 DEF ToSet
  <2>2. location.mapping_id = 1
        /\ location.line = <<[function_id |-> j, line |-> us[j].lineno]>>
    BY <1>3, <2>1
  <2>3. ToSet(location.line) = {[function_id |-> j, line |-> us[j].lineno]}
    BY <2>2 DEF ToSet
  <2> QED
    BY <1>4, <1>5, <2>2, <2>3
<1>8. ASSUME NEW sample \in ToSet(pprof.sample)
      PROVE  /\ ToSet(sample.location_id) \subseteq IdsOf(pprof.location)
             /\ Len(sample.value) = Len(pprof.sample_type)
  <2>1. PICK j \in 1..n : sample = pprof.sample[j]
    BY <1>2 DEF ToSet
  <2>2. sample.location_id = <<j>> /\ Len(sample.value) = 2
    BY <1>3, <2>1
  <2>3. ToSet(sample.location_id) = {j}
    BY <2>2 DEF ToSet
  <2>4. Len(pprof.sample_type) = 2
    BY DEF TypesGiven
  <2> QED
    BY <1>4, <2>2, <2>3, <2>4
<1>9. String(pprof, 0) = ""
  <2>1. 0 + 1 = 1
    OBVIOUS
  <2> QED
    BY <2>1 DEF Filled, String
<1>10. IndexesOf(pprof) \subseteq 0..(Len(pprof.string_table) - 1)
  <2> DEFINE cpu == [type |-> m[Literal("cpu")], unit |-> m[Literal("nanoseconds")]]
             samples == [type |-> m[Literal("samples")], unit |-> m[Literal("count")]]
  <2>1. {Literal("samples"), Literal("count"), Literal("cpu"), Literal("nanoseconds")}
          \subseteq DOMAIN m
    <3>1. DOMAIN SampleTypes = 1..4
      BY DEF SampleTypes
    <3> QED
      BY <3>1 DEF TypesGiven, SampleTypes, ToSet
  <2>2. {cpu.type, cpu.unit, samples.type, samples.unit} \subseteq index
    BY <2>1, StringOfKey
  <2>3. ToSet(pprof.sample_type) \cup {pprof.period_type} = {samples, cpu}
    <3>1. pprof.sample_type = <<samples, cpu>> /\ pprof.period_type = cpu
      BY DEF TypesGiven
    <3> HIDE DEF samples, cpu
    <3> QED
      BY <3>1 DEF ToSet
  <2> HIDE DEF samples, cpu
  <2>4. \A f \in ToSet(pprof.function) : {f.name, f.system_name, f.filename} \subseteq index
    <3> TAKE f \in ToSet(pprof.function)
    <3>1. PICK j \in 1..n : f = pprof.function[j]
      BY <1>2 DEF ToSet
    <3> HIDE DEF n, index
    <3> QED
      BY <1>3, <3>1
  <2>5. IndexesOf(pprof) \subseteq index
    <3>1. \A v \in ToSet(pprof.sample_type) \cup {pprof.period_type} :
            {v.type, v.unit} \subseteq index
      BY <2>2, <2>3
    <3> HIDE DEF index
    <3> QED
      BY <2>4, <3>1, Zenon DEF IndexesOf
  <2>6. Len(pprof.string_table) = t.i
    BY DEF Filled
  <2> QED
    BY <1>1, <2>5, <2>6
<1>11. Unset \notin ToSet(pprof.string_table)
  <2>1. pprof.string_table \in Seq(Strings)
    BY DEF Filled
  <2>2. \A j \in DOMAIN pprof.string_table : pprof.string_table[j] \in Strings
    BY <2>1, ElementOfSeq
  <2> QED
    BY <2>2, UnsetAssumption DEF ToSet
<1>12. IsValid(pprof)
  BY <1>6, <1>7, <1>8, <1>9, <1>10, <1>11 DEF IsValid
<1>13. ASSUME NEW j \in 1..n
       PROVE  Decoded(pprof, pprof.sample[j]) = us[j]
  <2> DEFINE location == CHOOSE l \in ToSet(pprof.location) : l.id = j
             function == CHOOSE f \in ToSet(pprof.function) : f.id = j
  <2>1. location = pprof.location[j]
    <3>1. pprof.location[j] \in ToSet(pprof.location) /\ pprof.location[j].id = j
      BY <1>2, <1>3, <1>13 DEF ToSet
    <3>2. ASSUME NEW l \in ToSet(pprof.location), l.id = j
          PROVE  l = pprof.location[j]
      <4>1. PICK k \in 1..n : l = pprof.location[k]
        BY <1>2 DEF ToSet
      <4>2. pprof.location[k].id = k
        BY <1>3
      <4> QED
        BY <3>2, <4>1, <4>2
    <3> QED
      BY <3>1, <3>2
  <2>2. function = pprof.function[j]
    <3>1. pprof.function[j] \in ToSet(pprof.function) /\ pprof.function[j].id = j
      BY <1>2, <1>3, <1>13 DEF ToSet
    <3>2. ASSUME NEW f \in ToSet(pprof.function), f.id = j
          PROVE  f = pprof.function[j]
      <4>1. PICK k \in 1..n : f = pprof.function[k]
        BY <1>2 DEF ToSet
      <4>2. pprof.function[k].id = k
        BY <1>3
      <4> QED
        BY <3>2, <4>1, <4>2
    <3> QED
      BY <3>1, <3>2
  <2>3. pprof.sample[j].location_id[1] = j
    <3>1. pprof.sample[j].location_id = <<j>>
      BY <1>3, <1>13
    <3> QED
      BY <3>1
  <2>4. location.line[1] = [function_id |-> j, line |-> us[j].lineno]
    <3>1. location.line = <<[function_id |-> j, line |-> us[j].lineno]>>
      BY <1>3, <1>13, <2>1
    <3> HIDE DEF location
    <3> QED
      BY <3>1
  <2>5. Decoded(pprof, pprof.sample[j]) =
          [name |-> String(pprof, function.name),
           filename |-> String(pprof, function.filename),
           lineno |-> us[j].lineno, hits |-> pprof.sample[j].value[1]]
    <3>1. location.line[1].function_id = j /\ location.line[1].line = us[j].lineno
      BY <2>4
    <3> QED
      BY <2>3, <3>1 DEF Decoded
  <2>6. us[j] = [name |-> us[j].name, filename |-> us[j].filename,
                 lineno |-> us[j].lineno, hits |-> us[j].hits]
    BY <1>1, <1>13 DEF SamplingUnit
  <2>7. /\ String(pprof, pprof.function[j].name) = us[j].name
        /\ String(pprof, pprof.function[j].filename) = us[j].filename
        /\ pprof.sample[j].value[1] = us[j].hits
    BY <1>3, <1>13
  <2> HIDE DEF function, location
  <2> QED
    BY <2>2, <2>5, <2>6, <2>7
<1>14. us = [i \in 1..n |-> us[i]]
  BY <1>1
<1> QED
  BY <1>2, <1>12, <1>13, <1>14

\* What the writers have described holds at every step (sampling.c:125-321).
THEOREM FilesInductive == Spec => []WInv
BY InitWInv, NextWInv, Inductive, PTL DEF Spec

(***************************************************************************)
(* Every cpu.pprof that is complete is a message that profile.proto allows *)
(* (sampling.c:178-321): ids and references are right, and each string has *)
(* an index of the string table, of which no place is left unset.          *)
(***************************************************************************)
THEOREM WellFormedFiles == Spec => []WellFormed
<1>1. WInv => WellFormed
  <2> SUFFICES ASSUME WInv, Written("pprof")
               PROVE  IsValid(profile)
    BY DEF WellFormed
  <2>1. InPprof /\ file = "complete"
    BY DEF WInv, Written
  <2> QED
    BY <2>1, ValidMessage DEF WInv, InPprof
<1> QED
  BY <1>1, FilesInductive, PTL

(***************************************************************************)
(* Every file that is complete has the units above the threshold, each     *)
(* once, in order and with its own figures (sampling.c:125-321).           *)
(***************************************************************************)
THEOREM FilesHaveUnits == Spec => []FileHasUnits
<1>1. WInv => FileHasUnits
  <2> SUFFICES ASSUME WInv
               PROVE  FileHasUnits
    OBVIOUS
  <2>1. Written("callgrind") => entries = UnitsAbove(collected)
    BY DEF WInv, InCallgrind, Written
  <2>2. ASSUME Written("pprof")
        PROVE  UnitsAbove(collected) =
                 [i \in DOMAIN profile.sample |-> Decoded(profile, profile.sample[i])]
    <3>1. InPprof /\ file = "complete"
      BY <2>2 DEF WInv, Written
    <3> QED
      BY <3>1, ValidMessage DEF WInv, InPprof
  <2> QED
    BY <2>1, <2>2 DEF FileHasUnits
<1> QED
  BY <1>1, FilesInductive, PTL

-----------------------------------------------------------------------------
\* The size of a hash table is a natural number.
LEMMA RoundedIsNat ==
  ASSUME NEW n \in 0..(2 ^ UintWidth - 1)
  PROVE  Rounded(n) \in Nat
<1> DEFINE sizes == {HT_MIN_SIZE * 2 ^ k : k \in 0..UintWidth}
           enough == {s \in sizes : s >= n}
<1>1. \A a, b \in Nat : a * b \in Nat
  OBVIOUS
<1>2. UintWidth \in Nat /\ HT_MIN_SIZE \in Nat \ {0}
  BY ResultTableAssumption
<1>3. sizes \subseteq Nat
  <2> SUFFICES ASSUME NEW k \in 0..UintWidth
               PROVE  HT_MIN_SIZE * 2 ^ k \in Nat
    OBVIOUS
  <2>1. 2 ^ k \in Nat
    BY <1>2, PowerIsNat
  <2> QED
    BY <1>1, <1>2, <2>1
<1>4. HT_MIN_SIZE * 2 ^ UintWidth \in enough
  <2>1. 2 ^ UintWidth \in Nat \ {0}
    BY <1>2, PowerIsNat
  <2>2. UintWidth \in 0..UintWidth
    BY <1>2
  <2>3. \A a \in Nat \ {0}, b \in Nat : a * b >= b
    OBVIOUS
  <2>4. HT_MIN_SIZE * 2 ^ UintWidth >= 2 ^ UintWidth
    BY <1>2, <2>1, <2>3
  <2>5. HT_MIN_SIZE * 2 ^ UintWidth >= n
    <3> DEFINE K == 2 ^ UintWidth
               s == HT_MIN_SIZE * K
    <3>1. s \in Nat /\ K \in Nat /\ s >= K /\ n \in 0..(K - 1)
      BY <1>1, <1>2, <2>1, <2>4
    <3> HIDE DEF K, s
    <3>2. s >= n
      BY <3>1
    <3> QED
      BY <3>2 DEF s, K
  <2> QED
    BY <2>2, <2>5
<1>5. PICK s \in enough : \A t \in enough : s <= t
  <2> HIDE DEF sizes
  <2>1. enough \subseteq Nat /\ enough # {}
    BY <1>3, <1>4
  <2> HIDE DEF enough
  <2> QED
    BY <2>1, LeastNat
<1> HIDE DEF sizes
<1>6. s \in sizes /\ s >= n /\ \A t \in sizes : t >= n => s <= t
  BY <1>5
<1>7. Rounded(n) = CHOOSE z \in sizes : z >= n /\ \A t \in sizes : t >= n => z <= t
  BY DEF Rounded, sizes
<1>8. Rounded(n) \in sizes
  BY <1>6, <1>7
<1> QED
  BY <1>3, <1>8

\* The steps of the table keep its types.
LEMMA TableTypes ==
  ASSUME TableTypeOK, TInv, TableNext
  PROVE  TableTypeOK'
<1>1. /\ table_step \in {"sort", "init", "slice", "rows", "printed", "bailed"}
      /\ limit \in Limits /\ threshold \in Thresholds
      /\ ToSet(res) \subseteq ToSet(units) /\ ToSet(rows) \subseteq ToSet(res)
      /\ size \in Nat /\ p \in Nat \ {0}
      /\ limit \in Nat \ {0}
      /\ units \in Seq(ResultUnit) /\ res \in Seq(ResultUnit) /\ rows \in Seq(ResultUnit)
  BY DEF TableTypeOK, TInv
<1>2. ASSUME NEW s \in Seq(ResultUnit), NEW e \in ResultUnit
      PROVE  ToSet(Append(s, e)) = ToSet(s) \cup {e}
  <2>1. /\ Len(s) \in Nat /\ Len(Append(s, e)) = Len(s) + 1
        /\ Append(s, e)[Len(s) + 1] = e
        /\ \A i \in 1..Len(s) : Append(s, e)[i] = s[i]
    BY <1>2, AppendLast
  <2>2. DOMAIN s = 1..Len(s) /\ DOMAIN Append(s, e) = 1..(Len(s) + 1)
    BY <1>2
  <2> QED
    BY <2>1, <2>2 DEF ToSet
<1>3. CASE SortTable
  <2>1. res = << >> /\ rows = << >>
    BY <1>3 DEF SortTable, TInv
  <2>2. ToSet(res) = {} /\ ToSet(rows) = {}
    BY <2>1 DEF ToSet
  <2>3. table_step' = "init" /\ UNCHANGED <<limit, threshold, res, size, p, rows>>
    BY <1>3 DEF SortTable
  <2> QED
    BY <1>1, <2>2, <2>3 DEF TableTypeOK
<1>4. CASE InitSlice
  <2>1. /\ table_step' \in {"bailed", "slice"}
        /\ size' \in {size, Rounded(Requested)}
        /\ UNCHANGED <<limit, threshold, units, res, p, rows>>
    BY <1>4 DEF InitSlice
  <2>2. Requested \in 0..(2 ^ UintWidth - 1)
    <3> DEFINE K == 2 ^ UintWidth
    <3>1. K \in Nat \ {0}
      BY ResultTableAssumption, PowerIsNat
    <3>2. Requested = limit % K
      BY DEF Requested
    <3> HIDE DEF K
    <3>3. limit \in Int
      BY <1>1
    <3>4. limit % K \in 0..(K - 1)
      BY <3>1, <3>3, Wrapped
    <3> QED
      BY <3>2, <3>4 DEF K
  <2>3. size' \in Nat
    BY <1>1, <2>1, <2>2, RoundedIsNat
  <2> QED
    BY <1>1, <2>1, <2>3 DEF TableTypeOK
<1>5. CASE SliceStep
  <2>1. table_step = "slice" /\ UNCHANGED <<limit, threshold, units, rows>>
    BY <1>5 DEF SliceStep
  <2>2. CASE p > Len(units) \/ Len(res) >= limit
    BY <1>1, <1>5, <2>1, <2>2 DEF SliceStep, TableTypeOK
  <2>3. CASE ~ (p > Len(units) \/ Len(res) >= limit)
    <3>1. CASE Needed > MaxSlots
      BY <1>1, <1>5, <2>1, <2>3, <3>1 DEF SliceStep, TableTypeOK
    <3>2. CASE ~ (Needed > MaxSlots)
      <4>1. res' = Append(res, units[p]) /\ size' = Needed /\ p' = p + 1
            /\ UNCHANGED table_step
        BY <1>5, <2>3, <3>2 DEF SliceStep
      <4>2. p \in DOMAIN units /\ units[p] \in ResultUnit
        BY <1>1, <2>3, ElementOfSeq
      <4>3. ToSet(res') = ToSet(res) \cup {units[p]} /\ units[p] \in ToSet(units)
        <5>1. ToSet(Append(res, units[p])) = ToSet(res) \cup {units[p]}
          BY <1>1, <1>2, <4>2
        <5>2. units[p] \in ToSet(units)
          BY <4>2 DEF ToSet
        <5> QED
          BY <4>1, <5>1, <5>2
      <4>4. size' \in Nat
        BY <1>1, <4>1 DEF Needed
      <4> QED
        BY <1>1, <2>1, <4>1, <4>3, <4>4 DEF TableTypeOK
    <3> QED
      BY <3>1, <3>2
  <2> QED
    BY <2>2, <2>3
<1>6. CASE RowStep
  <2>1. table_step = "rows" /\ UNCHANGED <<limit, threshold, units, res, size>>
    BY <1>6 DEF RowStep
  <2>2. CASE p > Len(res)
    BY <1>1, <1>6, <2>1, <2>2 DEF RowStep, TableTypeOK
  <2>3. CASE ~ (p > Len(res))
    <3>1. /\ rows' = IF res[p].value <= threshold THEN rows ELSE Append(rows, res[p])
          /\ p' = p + 1 /\ UNCHANGED table_step
      BY <1>6, <2>3 DEF RowStep
    <3>2. p \in DOMAIN res /\ res[p] \in ResultUnit
      BY <1>1, <2>3, ElementOfSeq
    <3>3. ToSet(rows') \subseteq ToSet(rows) \cup {res[p]} /\ res[p] \in ToSet(res)
      <4>1. ToSet(Append(rows, res[p])) = ToSet(rows) \cup {res[p]}
        BY <1>1, <1>2, <3>2
      <4>2. res[p] \in ToSet(res)
        BY <3>2 DEF ToSet
      <4> QED
        BY <3>1, <4>1, <4>2
    <3> QED
      BY <1>1, <2>1, <3>1, <3>3 DEF TableTypeOK
  <2> QED
    BY <2>2, <2>3
<1> QED
  BY <1>3, <1>4, <1>5, <1>6 DEF TableNext

\* The types hold at first.
LEMMA InitTypes == Init => TypeOK
<1> SUFFICES ASSUME Init
             PROVE  TypeOK
  OBVIOUS
<1>1. /\ mode \in {"func", "sampling"} /\ output_mode \in {"console", "callgrind", "pprof"}
      /\ step \in {"table", "open"}
      /\ table_step = "sort" /\ limit \in Limits /\ threshold \in Thresholds
      /\ res = << >> /\ rows = << >> /\ size = 0 /\ p = 1 /\ next = 1
      /\ string_table_map = EmptyMap
      /\ file \in {"absent", "old"} /\ message = "nothing"
      /\ errors = [live |-> TRUE, levels |-> {}]
  BY DEF Init, FilesInit, TableInit
<1>2. profile \in Profile
  BY InitWInv DEF WInv
<1>3. TableTypeOK
  <2>1. ToSet(res) = {} /\ ToSet(rows) = {}
    BY <1>1 DEF ToSet
  <2> QED
    BY <1>1, <2>1 DEF TableTypeOK
<1>4. FilesTypeOK
  BY <1>1, <1>2 DEF FilesTypeOK, EmptyMap, ErrorsType
<1> QED
  BY <1>1, <1>3, <1>4 DEF TypeOK, Steps

\* Each step keeps the types.
LEMMA NextTypes == TypeOK /\ RInv' /\ WInv' /\ TInv /\ [Next]_vars => TypeOK'
<1> SUFFICES ASSUME TypeOK, RInv', WInv', TInv, [Next]_vars
             PROVE  TypeOK'
  OBVIOUS
<1>1. /\ mode \in {"func", "sampling"} /\ TableTypeOK
      /\ file \in {"absent", "old", "empty", "partial", "complete"}
      /\ message \in {"nothing", "general", "messages"}
  BY DEF TypeOK, FilesTypeOK
<1>2. UNCHANGED mode /\ (TableNext \/ UNCHANGED tableVars)
  BY DEF Next, BuildTable, TableOver, WriteFile, vars
<1>3. TableTypeOK'
  BY <1>1, <1>2, TableTypes DEF TableTypeOK, tableVars
<1>4. file' \in {"absent", "old", "empty", "partial", "complete"}
  BY <1>1 DEF Next, BuildTable, TableOver, WriteFile, FilesNext, Open, ApplyThreshold,
              UnitStep, FillStrings, WriteProfile, Close, WriterBails, PrintErrors,
              vars, filesVars
<1>5. message' \in {"nothing", "general", "messages"}
  <2>1. message' \in {message, prof_print_errors(errors)}
    BY DEF Next, BuildTable, TableOver, WriteFile, FilesNext, Open, ApplyThreshold,
           UnitStep, FillStrings, WriteProfile, Close, WriterBails, PrintErrors,
           vars, filesVars
  <2> QED
    BY <1>1, <2>1 DEF prof_print_errors
<1>6. FilesTypeOK'
  <2>1. /\ string_table_map' \in StringTable /\ profile' \in Profile
        /\ next' \in Nat \ {0} /\ errors' \in ErrorsType
    BY DEF WInv, RInv
  <2> QED
    BY <1>4, <1>5, <2>1 DEF FilesTypeOK, StringTable, Numbered
<1> QED
  BY <1>1, <1>2, <1>3, <1>6 DEF TypeOK, RInv

\* Every variable keeps its type (prof.c:95-118, sampling.c:125-321).
THEOREM TypeCorrect == Spec => []TypeOK
<1>1. Spec => []TInv
  BY InitTInv, NextTInv, PTL DEF Spec
<1> QED
  BY <1>1, InitTypes, NextTypes, Inductive, FilesInductive, PTL DEF Spec
=============================================================================
