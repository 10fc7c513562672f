------------------------- MODULE FuncFiguresProofs -------------------------
(***************************************************************************)
(* Theorems about FuncFigures, for any names, faults, sizes and bounds     *)
(* that fit into the integers of the code.                                 *)
(***************************************************************************)
EXTENDS FuncFigures, DataTheorems, TLAPS

Reading == [wall : Nat, cpu : Nat, memory : Nat]
Call == [name : Names, wall : Nat, cpu : Nat, memory : Nat, own : Nat]
Unit == [wall : Int, cpu : Int, memory : Int, calls : Nat]

Typed ==
  /\ wall \in Nat /\ cpu \in Nat /\ memory \in Nat /\ own \in Nat /\ changes \in Nat
  /\ func_start_units \in Seq(Reading) /\ frames \in Seq(Call)
  /\ DOMAIN func_units \subseteq Names /\ func_units \in [DOMAIN func_units -> Unit]
  /\ ledger \in [Names -> Unit] /\ entered \in Nat
  /\ errors \in ErrorsType

Calm == errors.levels = {}

\* What the table has for a name.
Row0(n) == IF n \in DOMAIN func_units THEN func_units[n] ELSE Zero

(***************************************************************************)
(* How far the quantities may have come.                                   *)
(***************************************************************************)
MemoryStep == 1 + MaxChanges
RowStep == 1 + FUNC_UNITS_DEFAULT_CAPACITY
OwnStep == STACK_BLOCK_SIZE + RowStep

Bounded ==
  /\ changes <= MaxChanges /\ entered <= MaxCalls
  /\ wall <= changes /\ cpu <= changes /\ memory <= 1 + changes
  /\ own + Len(frames) * RowStep <= entered * OwnStep
  /\ \A n \in Names :
       LET room_left == ledger[n].calls * MemoryStep
       IN  /\ ledger[n].calls + Len(frames) <= entered
           /\ - room_left <= ledger[n].memory /\ ledger[n].memory <= room_left

(***************************************************************************)
(* What is known of the calls in progress.  A function that is not         *)
(* recursive has one at most, so that nothing was added to its row since   *)
(* it began.                                                               *)
(***************************************************************************)
Nested ==
  /\ \A i \in 1..Len(frames) :
       /\ frames[i].wall <= wall /\ frames[i].own <= own
       /\ frames[i].memory <= 1 + changes
       /\ frames[i].name \notin torn => frames[i].cpu <= cpu
  /\ \A i, j \in 1..Len(frames) :
       i # j /\ frames[i].name = frames[j].name => frames[i].name \in recursive

Matching ==
  /\ Len(func_start_units) = Len(frames)
  /\ \A i \in 1..Len(frames) :
       func_start_units[i] = [wall |-> frames[i].wall, cpu |-> frames[i].cpu,
                              memory |-> frames[i].memory + frames[i].own + UnitSize]

Overhead(n) == Row0(n).memory - ledger[n].memory

Figured ==
  \A n \in Names :
    /\ Row0(n).wall = ledger[n].wall /\ Row0(n).calls = ledger[n].calls
    /\ n \notin torn => Row0(n).cpu = ledger[n].cpu
    /\ n \notin busy => Overhead(n) = 0
    /\ n \notin recursive =>
         /\ Overhead(n) \in 0..own
         /\ \A i \in 1..Len(frames) : frames[i].name = n => Overhead(n) <= frames[i].own

FInv ==
  /\ Running => Typed /\ Bounded /\ Nested /\ (Calm => Matching /\ Figured)
  /\ FiguresExact /\ UndisturbedMemoryExact

-----------------------------------------------------------------------------
\* The quantities are natural numbers.
LEMMA Scalars ==
  ASSUME Typed
  PROVE  /\ wall \in Nat /\ cpu \in Nat /\ memory \in Nat /\ own \in Nat
         /\ changes \in Nat /\ entered \in Nat
BY DEF Typed

(***************************************************************************)
(* Arithmetic.                                                             *)
(***************************************************************************)
Values == 2 ^ Width
Half == 2 ^ (Width - 1)

\* Half of the values are negative numbers.
LEMMA Halves == Values \in Nat \ {0} /\ Half \in Nat \ {0} /\ Values = Half + Half
<1>1. Width - 1 \in Nat /\ Width = (Width - 1) + 1
  BY FiguresAssumption, FitsAssumption
<1>2. Values = Half + Half
  BY <1>1, NextPower DEF Values, Half
<1> QED
  BY <1>1, <1>2, PowerIsNat, FiguresAssumption DEF Values, Half

\* A clock that did not go back and stayed within its integer.
LEMMA DifferenceOfClock ==
  ASSUME NEW end \in Nat, NEW start \in Nat, start <= end, end <= MaxChanges
  PROVE  Difference(end, start) = end - start
<1> DEFINE n == end - start
<1>1. n \in Int /\ 0 <= n /\ n < Values
  BY FitsAssumption, FiguresAssumption, Halves DEF Values
<1> HIDE DEF n
<1>2. n % Values = n
  BY <1>1, Halves, Wrapped
<1> QED
  BY <1>2 DEF Difference, Values, n

\* Any difference is an integer.
LEMMA DifferenceIsInt ==
  ASSUME NEW end \in Int, NEW start \in Int
  PROVE  Difference(end, start) \in Int
BY Halves, Wrapped DEF Difference, Values

\* Any signed number is an integer.
LEMMA SignedIsInt ==
  ASSUME NEW n \in Int
  PROVE  Signed(n) \in Int
<1>1. n % Values \in Int
  BY Halves, Wrapped
<1>2. n % (2 ^ Width) \in Int /\ 2 ^ Width \in Int
  BY <1>1, Halves DEF Values
<1> QED
  BY <1>2 DEF Signed

\* A sum that fits into a signed integer is right, although the difference
\* that is added has no sign.
LEMMA SignedSum ==
  ASSUME NEW sum \in Int, NEW end \in Int, NEW start \in Int,
         - Half <= sum + (end - start), sum + (end - start) < Half
  PROVE  Signed(sum + Difference(end, start)) = sum + (end - start)
<1> DEFINE n == sum + (end - start)
           low == n % Values
           d == end - start
<1>1. (sum + Difference(end, start)) % Values = low
  <2>1. d \in Int
    OBVIOUS
  <2> HIDE DEF d
  <2>2. (sum + (d % Values)) % Values = (sum + d) % Values
    BY <2>1, Halves, WrappedSum
  <2> QED
    BY <2>2 DEF Difference, Values, d
<1>2. Signed(sum + Difference(end, start)) = IF low >= Half THEN low - Values ELSE low
  BY <1>1 DEF Signed, Values, Half
<1>3. n \in Int /\ - Half <= n /\ n < Half
  OBVIOUS
<1> HIDE DEF n
<1>4. CASE 0 <= n
  <2>1. low = n
    BY <1>3, <1>4, Halves, Wrapped
  <2> QED
    BY <1>2, <1>3, <1>4, <2>1, Halves DEF n
<1>5. CASE n < 0
  <2>a. - Values <= n
    BY <1>3, Halves
  <2>1. low = n + Values
    BY <1>3, <1>5, <2>a, Halves, Wrapped
  <2> QED
    BY <1>2, <1>3, <1>5, <2>1, Halves DEF n
<1> QED
  BY <1>3, <1>4, <1>5

\* Products with a constant.
LEMMA Products ==
  ASSUME NEW a \in Nat, NEW b \in Nat, NEW c \in Nat
  PROVE  /\ a * c \in Nat /\ (a + 1) * c = a * c + c
         /\ a <= b => a * c <= b * c
OBVIOUS

-----------------------------------------------------------------------------
(***************************************************************************)
(* The steps.                                                              *)
(***************************************************************************)

\* A row that there may not be is a unit.
LEMMA Row0Type ==
  ASSUME Typed
  PROVE  \A n \in Names : Row0(n) \in Unit
BY DEF Typed, Row0, Zero, Unit

\* The sizes are natural numbers.
LEMMA Sizes ==
  /\ MemoryStep \in Nat /\ RowStep \in Nat /\ OwnStep \in Nat
  /\ OwnStep = STACK_BLOCK_SIZE + RowStep /\ STACK_BLOCK_SIZE \in Nat
  /\ MaxCalls \in Nat /\ MaxChanges \in Nat
BY FiguresAssumption DEF MemoryStep, RowStep, OwnStep

\* What a begin may add to both sides of the bound on own.
LEMMA MoreOwn ==
  ASSUME NEW o \in Nat, NEW o1 \in Nat, NEW a \in Nat, NEW b \in Nat,
         NEW block \in Nat, NEW row \in Nat, o1 <= o + block, o + a <= b
  PROVE  o1 + (a + row) <= b + (block + row)
OBVIOUS

\* What an end may.
LEMMA LessOwn ==
  ASSUME NEW o \in Nat, NEW o1 \in Nat, NEW a \in Nat, NEW b \in Nat, NEW row \in Nat,
         o1 <= o + row, o + (a + row) <= b
  PROVE  o1 + a <= b
OBVIOUS

\* Adding to the log leaves one that is not empty.
LEMMA WarningAdded ==
  ASSUME errors \in ErrorsType, prof_add_warning
  PROVE  errors' \in ErrorsType /\ ~ Calm'
BY DEF prof_add_warning, prof_add_error_message, ErrorsType, ErrorLevels, Calm

\* Before the report the properties of printed rows say nothing.
LEMMA NothingPrinted == Running => FiguresExact /\ UndisturbedMemoryExact
BY DEF Running, NoReport, NoRows, FiguresExact, UndisturbedMemoryExact

LEMMA InitFInv == Init => FInv
<1> SUFFICES ASSUME Init
             PROVE  FInv
  OBVIOUS
<1>1. Running
  BY DEF Init, Running
<1>2. Typed
  <2>1. func_units \in [DOMAIN func_units -> Unit] /\ DOMAIN func_units \subseteq Names
    BY DEF Init, NoRows
  <2>2. ledger \in [Names -> Unit]
    BY DEF Init, Zero, Unit
  <2>3. errors \in ErrorsType
    BY DEF Init, ErrorsType, ErrorLevels
  <2> QED
    BY <2>1, <2>2, <2>3 DEF Init, Typed
<1>3. Len(frames) = 0 /\ Len(func_start_units) = 0
  BY DEF Init
<1>4. \A n \in Names : Row0(n) = Zero /\ ledger[n] = Zero
  BY DEF Init, Row0, NoRows
<1>5. Bounded
  <2>1. 0 * RowStep = 0 /\ 0 * OwnStep = 0 /\ 0 * MemoryStep = 0
    BY Sizes
  <2>2. changes <= MaxChanges /\ entered <= MaxCalls
    BY Sizes DEF Init
  <2>3. own = 0 /\ entered = 0 /\ wall = 0 /\ cpu = 0 /\ memory = 1 /\ changes = 0
    BY DEF Init
  <2> QED
    BY <1>3, <1>4, <2>1, <2>2, <2>3 DEF Bounded, Zero
<1>6. Nested /\ Matching
  BY <1>3 DEF Nested, Matching
<1>7. Figured
  BY <1>3, <1>4 DEF Figured, Overhead, Zero, Init
<1> QED
  BY <1>1, <1>2, <1>5, <1>6, <1>7, NothingPrinted DEF FInv

\* Whatever the script does between calls, the clocks of calls that are not
\* torn go on, and nothing that was counted changes.
LEMMA ChangeFInv ==
  ASSUME FInv, Running, Change, wall' \in {wall, wall + 1},
         memory' \in {memory - 1, memory, memory + 1} \cap Nat,
         \/ cpu' \in {cpu, cpu + 1} /\ UNCHANGED torn
         \/ cpu' = 0 /\ torn' = torn \cup NamesIn(frames)
  PROVE  FInv'
<1>1. Typed /\ Bounded /\ Nested
  BY DEF FInv
<1>2. /\ changes' = changes + 1 /\ changes < MaxChanges
      /\ UNCHANGED <<own, func_start_units, func_units, errors, frames, entered,
                     ledger, busy, recursive, printed>>
  BY DEF Change, profVars
<1>3. wall' \in Nat /\ cpu' \in Nat /\ memory' \in Nat /\ changes' \in Nat
  BY <1>1, <1>2 DEF Typed
<1>4. Typed'
  BY <1>1, <1>2, <1>3 DEF Typed
<1>5. wall <= wall' /\ changes' <= MaxChanges /\ wall' <= changes'
      /\ cpu' <= changes' /\ memory' <= 1 + changes'
  <2>1. /\ wall \in Nat /\ cpu \in Nat /\ memory \in Nat /\ changes \in Nat
        /\ wall <= changes /\ cpu <= changes /\ memory <= 1 + changes
    BY <1>1 DEF Typed, Bounded
  <2>2. wall <= wall' /\ wall' <= changes'
    BY <1>2, <2>1
  <2>3. cpu' <= changes'
    BY <1>2, <2>1
  <2>4. memory' <= 1 + changes'
    BY <1>2, <2>1
  <2>5. changes' <= MaxChanges
    BY <1>2, <2>1, Sizes
  <2> QED
    BY <2>2, <2>3, <2>4, <2>5
<1>6. Bounded'
  BY <1>1, <1>2, <1>5 DEF Bounded
<1>7. Nested'
  <2>1. ASSUME NEW i \in 1..Len(frames)
        PROVE  /\ frames[i].wall <= wall' /\ frames[i].own <= own
               /\ frames[i].memory <= 1 + changes'
               /\ frames[i].name \notin torn' => frames[i].cpu <= cpu'
    <3>1. frames[i] \in Call /\ frames[i] \in ToSet(frames)
      BY <1>1, ElementOfSeq DEF Typed, ToSet
    <3>2. /\ frames[i].wall \in Nat /\ frames[i].cpu \in Nat /\ frames[i].memory \in Nat
          /\ frames[i].name \in NamesIn(frames)
      BY <3>1 DEF Call, NamesIn
    <3>3. /\ frames[i].wall <= wall /\ frames[i].own <= own
          /\ frames[i].memory <= 1 + changes
          /\ frames[i].name \notin torn => frames[i].cpu <= cpu
      BY <1>1 DEF Nested
    <3>4. frames[i].name \notin torn' => frames[i].cpu <= cpu'
      BY <1>1, <3>2, <3>3, Scalars
    <3>5. frames[i].wall <= wall' /\ frames[i].memory <= 1 + changes'
      <4>1. wall \in Nat /\ changes \in Nat /\ changes' = changes + 1
        BY <1>1, <1>2, Scalars
      <4> QED
        BY <1>3, <1>5, <3>2, <3>3, <4>1
    <3> QED
      BY <3>3, <3>4, <3>5
  <2> QED
    BY <1>1, <1>2, <2>1 DEF Nested
<1>8. Calm' => Matching' /\ Figured'
  <2>1. Calm' => Calm /\ Matching /\ Figured
    BY <1>2 DEF FInv, Calm
  <2>2. Matching => Matching'
    BY <1>2 DEF Matching
  <2>3. \A n \in Names : Row0(n)' = Row0(n) /\ Overhead(n)' = Overhead(n)
    BY <1>2 DEF Row0, Overhead
  <2>4. \A n \in Names : n \notin torn' => n \notin torn
    OBVIOUS
  <2>5. Figured => Figured'
    BY <1>2, <2>3, <2>4 DEF Figured
  <2> QED
    BY <2>1, <2>2, <2>5
<1>9. Running'
  BY <1>2 DEF Running
<1> QED
  BY <1>4, <1>6, <1>7, <1>8, <1>9, NothingPrinted, PTL DEF FInv

\* A call begins.
LEMMA EnterFInv ==
  ASSUME FInv, NEW x \in Names, Enter(x)
  PROVE  FInv'
<1> DEFINE k == Len(frames)
           call == [name |-> x, wall |-> wall, cpu |-> cpu, memory |-> memory, own |-> own]
<1>1. Running /\ Typed /\ Bounded /\ Nested
  BY DEF FInv, Enter
<1>2. /\ entered < MaxCalls /\ entered' = entered + 1 /\ frames' = Append(frames, call)
      /\ recursive' = recursive \cup ({x} \cap NamesIn(frames))
      /\ UNCHANGED <<wall, cpu, memory, changes, ledger, torn, busy, printed, func_units>>
      /\ prof_observer_begin
  BY DEF Enter, quantities, prof_observer_begin, ReadingFails
<1>3. call \in Call /\ k \in Nat
  BY <1>1 DEF Typed, Call
<1>4. /\ frames' \in Seq(Call) /\ Len(frames') = k + 1
      /\ \A i \in 1..k : frames'[i] = frames[i]
      /\ frames'[k + 1] = call
  BY <1>1, <1>2, <1>3, AppendLast DEF Typed
<1>5. /\ own' \in Nat /\ own <= own' /\ own' <= own + STACK_BLOCK_SIZE
      /\ func_start_units' \in Seq(Reading) /\ errors' \in ErrorsType
      /\ Calm' => /\ Calm
                  /\ func_start_units' =
                       Append(func_start_units,
                              [wall |-> wall, cpu |-> cpu, memory |-> memory + own + UnitSize])
  <2>1. CASE ReadingFails
    BY <1>1, <2>1, Sizes, WarningAdded DEF ReadingFails, Typed
  <2>2. CASE ~ ReadingFails
    <3> DEFINE unit == [wall |-> wall, cpu |-> cpu, memory |-> memory + own + UnitSize]
               grown == IF Len(func_start_units) = room THEN STACK_BLOCK_SIZE ELSE 0
    <3>1. /\ func_start_units' = Append(func_start_units, unit)
          /\ own' = own + grown /\ UNCHANGED errors
      BY <1>2, <2>2 DEF prof_observer_begin, get_prof_unit
    <3>2. unit \in Reading
      BY <1>1 DEF Typed, Reading, UnitSize
    <3>3. func_start_units' \in Seq(Reading)
      <4> HIDE DEF unit
      <4> QED
        BY <1>1, <3>1, <3>2, AppendLast DEF Typed
    <3>4. own' \in Nat /\ own <= own' /\ own' <= own + STACK_BLOCK_SIZE
      BY <1>1, <3>1, Sizes, Scalars
    <3> QED
      BY <1>1, <3>1, <3>3, <3>4 DEF Typed, Calm
  <2> QED
    BY <2>1, <2>2
<1>6. Typed'
  BY <1>1, <1>2, <1>4, <1>5 DEF Typed
<1>7. Bounded'
  <2>1. own' + Len(frames') * RowStep <= entered' * OwnStep
    <3>1. /\ (k + 1) * RowStep = k * RowStep + RowStep /\ k * RowStep \in Nat
          /\ (entered + 1) * OwnStep = entered * OwnStep + OwnStep /\ entered * OwnStep \in Nat
      BY <1>1, <1>3, Sizes, Products DEF Typed
    <3>2. own + k * RowStep <= entered * OwnStep /\ own \in Nat /\ own' \in Nat
      BY <1>1, <1>5 DEF Bounded, Typed
    <3> DEFINE a == k * RowStep
               b == entered * OwnStep
    <3>3. own' + (a + RowStep) <= b + OwnStep
      <4> HIDE DEF a, b
      <4>1. a \in Nat /\ b \in Nat /\ own + a <= b
        BY <3>1, <3>2 DEF a, b
      <4>2. own' <= own + STACK_BLOCK_SIZE
        BY <1>5
      <4>3. own' + (a + RowStep) <= b + (STACK_BLOCK_SIZE + RowStep)
        BY <3>2, <4>1, <4>2, Sizes, MoreOwn
      <4> QED
        BY <4>3, Sizes
    <3> QED
      BY <1>2, <1>4, <3>1, <3>3
  <2>2. \A n \in Names : ledger[n].calls + Len(frames') <= entered'
    <3> TAKE n \in Names
    <3>1. ledger[n].calls \in Nat /\ ledger[n].calls + k <= entered
      BY <1>1 DEF Bounded, Typed, Unit
    <3> QED
      BY <1>1, <1>2, <1>3, <1>4, <3>1 DEF Typed
  <2>3. entered' <= MaxCalls
    BY <1>1, <1>2, Sizes, Scalars
  <2> QED
    BY <1>1, <1>2, <2>1, <2>2, <2>3 DEF Bounded
<1>8. Nested'
  <2>1. ASSUME NEW i \in 1..(k + 1)
        PROVE  /\ frames'[i].wall <= wall /\ frames'[i].own <= own'
               /\ frames'[i].memory <= 1 + changes
               /\ frames'[i].name \notin torn => frames'[i].cpu <= cpu
    <3>1. CASE i = k + 1
      BY <1>1, <1>4, <1>5, <3>1 DEF Typed, Bounded
    <3>2. CASE i # k + 1
      <4>1. i \in 1..k
        BY <1>3, <3>2
      <4>2. frames[i] \in Call
        BY <1>1, <4>1, ElementOfSeq DEF Typed
      <4>3. frames[i].own \in Nat /\ frames[i].own <= own
        BY <1>1, <4>1, <4>2 DEF Call, Nested
      <4>4. frames[i].own <= own'
        BY <1>1, <1>5, <4>3, Scalars
      <4> QED
        BY <1>1, <1>4, <4>1, <4>4 DEF Nested
    <3> QED
      BY <3>1, <3>2
  <2>2. ASSUME NEW i \in 1..(k + 1), NEW j \in 1..(k + 1), i # j,
               frames'[i].name = frames'[j].name
        PROVE  frames'[i].name \in recursive'
    <3>1. ASSUME NEW m \in 1..k, frames[m].name = x
          PROVE  x \in recursive'
      <4>1. frames[m] \in ToSet(frames)
        BY <1>1, <1>3 DEF ToSet, Typed
      <4> QED
        BY <1>2, <3>1, <4>1 DEF NamesIn
    <3>2. CASE i = k + 1
      <4>1. j \in 1..k
        BY <1>3, <2>2, <3>2
      <4> QED
        BY <1>4, <2>2, <3>1, <3>2, <4>1
    <3>3. CASE j = k + 1
      <4>1. i \in 1..k
        BY <1>3, <2>2, <3>3
      <4> QED
        BY <1>4, <2>2, <3>1, <3>3, <4>1
    <3>4. CASE i # k + 1 /\ j # k + 1
      <4>1. i \in 1..k /\ j \in 1..k
        BY <1>3, <3>4
      <4> QED
        BY <1>1, <1>2, <1>4, <2>2, <4>1 DEF Nested
    <3> QED
      BY <3>2, <3>3, <3>4
  <2> QED
    BY <1>2, <1>4, <2>1, <2>2 DEF Nested
<1>9. ASSUME Calm'
      PROVE  Matching' /\ Figured'
  <2>1. Calm /\ Matching /\ Figured
    BY <1>1, <1>5, <1>9 DEF FInv
  <2> DEFINE unit == [wall |-> wall, cpu |-> cpu, memory |-> memory + own + UnitSize]
  <2>2. func_start_units' = Append(func_start_units, unit) /\ unit \in Reading
    <3>1. unit \in Reading
      BY <1>1, Scalars DEF Reading, UnitSize
    <3> QED
      BY <1>1, <1>5, <1>9, <3>1
  <2>3. Matching'
    <3>1. /\ Len(func_start_units) = k /\ Len(func_start_units') = k + 1
          /\ \A i \in 1..k : func_start_units'[i] = func_start_units[i]
          /\ func_start_units'[k + 1] = unit
      <4> HIDE DEF unit
      <4> QED
        BY <1>1, <2>1, <2>2, AppendLast DEF Matching, Typed
    <3>2. ASSUME NEW i \in 1..(k + 1)
          PROVE  func_start_units'[i] =
                   [wall |-> frames'[i].wall, cpu |-> frames'[i].cpu,
                    memory |-> frames'[i].memory + frames'[i].own + UnitSize]
      <4>1. CASE i = k + 1
        BY <1>4, <3>1, <4>1
      <4>2. CASE i # k + 1
        <5>1. i \in 1..k
          BY <1>3, <4>2
        <5> QED
          BY <1>4, <2>1, <3>1, <5>1 DEF Matching
      <4> QED
        BY <4>1, <4>2
    <3> QED
      BY <1>4, <3>1, <3>2 DEF Matching
  <2>4. Figured'
    <3>1. \A n \in Names : Row0(n)' = Row0(n) /\ Overhead(n)' = Overhead(n)
      BY <1>2 DEF Row0, Overhead
    <3>2. ASSUME NEW n \in Names, n \notin recursive'
          PROVE  /\ Overhead(n) \in 0..own'
                 /\ \A i \in 1..(k + 1) : frames'[i].name = n => Overhead(n) <= frames'[i].own
      <4>1. /\ Overhead(n) \in 0..own
            /\ \A i \in 1..k : frames[i].name = n => Overhead(n) <= frames[i].own
        BY <1>2, <2>1, <3>2 DEF Figured
      <4>2. Overhead(n) \in 0..own'
        BY <1>1, <1>5, <4>1 DEF Typed
      <4>3. ASSUME NEW i \in 1..(k + 1), frames'[i].name = n
            PROVE  Overhead(n) <= frames'[i].own
        <5>1. CASE i = k + 1
          BY <1>4, <4>1, <5>1
        <5>2. CASE i # k + 1
          <6>1. i \in 1..k
            BY <1>3, <5>2
          <6> QED
            BY <1>4, <4>1, <4>3, <6>1
        <5> QED
          BY <5>1, <5>2
      <4> QED
        BY <4>2, <4>3
    <3> QED
      BY <1>2, <1>4, <2>1, <3>1, <3>2 DEF Figured
  <2> QED
    BY <2>3, <2>4
<1>10. Running'
  BY <1>1, <1>2 DEF Running
<1> QED
  BY <1>6, <1>7, <1>8, <1>9, <1>10, NothingPrinted, PTL DEF FInv

\* What any function's calls allocated and what the profiler did fit into a
\* signed integer.
LEMMA RoomLeft ==
  ASSUME Typed, Bounded, NEW c \in Nat, c <= entered
  PROVE  c * MemoryStep \in Nat /\ c * MemoryStep + own < Half
<1>1. /\ c * MemoryStep <= MaxCalls * MemoryStep /\ entered * OwnStep <= MaxCalls * OwnStep
      /\ c * MemoryStep \in Nat /\ MaxCalls * MemoryStep \in Nat
      /\ entered * OwnStep \in Nat /\ MaxCalls * OwnStep \in Nat
  <2>1. c <= MaxCalls /\ entered <= MaxCalls /\ entered \in Nat
    BY Sizes DEF Typed, Bounded
  <2> QED
    BY <2>1, Sizes, Products
<1>2. own <= entered * OwnStep
  <2>1. Len(frames) * RowStep \in Nat
    BY Sizes, Products DEF Typed
  <2> QED
    BY <1>1, <2>1 DEF Typed, Bounded
<1>3. MaxCalls * MemoryStep + MaxCalls * OwnStep < Half
  <2> DEFINE perCall == 1 + MaxChanges + STACK_BLOCK_SIZE + 1 + FUNC_UNITS_DEFAULT_CAPACITY
  <2>1. MaxCalls * perCall < Half
    BY FitsAssumption DEF Half
  <2>2. perCall = MemoryStep + OwnStep
    BY FiguresAssumption DEF MemoryStep, OwnStep, RowStep
  <2> HIDE DEF perCall
  <2>3. MaxCalls * (MemoryStep + OwnStep) = MaxCalls * MemoryStep + MaxCalls * OwnStep
    BY Sizes
  <2> QED
    BY <2>1, <2>2, <2>3
<1> DEFINE a == c * MemoryStep
           b == MaxCalls * MemoryStep
           d == entered * OwnStep
           e == MaxCalls * OwnStep
<1> HIDE DEF a, b, d, e
<1>4. /\ a \in Nat /\ b \in Nat /\ d \in Nat /\ e \in Nat /\ a <= b /\ d <= e
      /\ own <= d /\ b + e < Half
  BY <1>1, <1>2, <1>3 DEF a, b, d, e
<1>5. a + own < Half
  BY <1>4, Halves, Scalars
<1> QED
  BY <1>4, <1>5 DEF a

\* What an end of a call does, apart from the profiler.
LEMMA LeaveCredits ==
  ASSUME Typed, Bounded, Nested, Leave
  PROVE  LET k == Len(frames)
             call == Last(frames)
             x == call.name
         IN  /\ k \in Nat \ {0} /\ call \in Call /\ call = frames[k] /\ x \in Names
             /\ frames' \in Seq(Call) /\ Len(frames') = k - 1
             /\ \A i \in 1..(k - 1) : frames'[i] = frames[i]
             /\ ledger' \in [Names -> Unit]
             /\ ledger'[x].wall = ledger[x].wall + (wall - call.wall)
             /\ ledger'[x].cpu = ledger[x].cpu + (cpu - call.cpu)
             /\ ledger'[x].memory = ledger[x].memory + (memory - call.memory)
             /\ ledger'[x].calls = ledger[x].calls + 1
             /\ \A n \in Names \ {x} : ledger'[n] = ledger[n]
             /\ busy \subseteq busy'
             /\ x \notin busy' => own = call.own
             /\ UNCHANGED <<wall, cpu, memory, changes, entered, torn, recursive, printed>>
             /\ prof_observer_end(x)
<1> DEFINE k == Len(frames)
           call == Last(frames)
           x == call.name
           e == [wall |-> ledger[x].wall + (wall - call.wall),
                 cpu |-> ledger[x].cpu + (cpu - call.cpu),
                 memory |-> ledger[x].memory + (memory - call.memory),
                 calls |-> ledger[x].calls + 1]
<1>1. /\ k \in Nat \ {0} /\ call \in Call /\ call = frames[k]
      /\ Front(frames) \in Seq(Call) /\ Len(Front(frames)) = k - 1
      /\ \A i \in 1..(k - 1) : Front(frames)[i] = frames[i]
  BY FrontLast DEF Leave, Typed
<1>2. /\ x \in Names /\ call.wall \in Nat /\ call.cpu \in Nat /\ call.memory \in Nat
  BY <1>1 DEF Call
<1>3. ledger' = [ledger EXCEPT ![x] = e]
  BY DEF Leave
<1>4. e \in Unit
  <2>1. /\ ledger[x].wall \in Int /\ ledger[x].cpu \in Int /\ ledger[x].memory \in Int
        /\ ledger[x].calls \in Nat
    BY <1>2 DEF Typed, Unit
  <2>2. wall \in Int /\ cpu \in Int /\ memory \in Int
    BY DEF Typed
  <2> HIDE DEF x, call
  <2> QED
    BY <1>2, <2>1, <2>2 DEF Unit
<1>5. /\ frames' = Front(frames) /\ prof_observer_end(x)
      /\ busy' = busy \cup IF own = call.own THEN {} ELSE {x}
      /\ UNCHANGED <<wall, cpu, memory, changes, entered, torn, recursive, printed>>
  BY DEF Leave, quantities
<1>6. /\ ledger' \in [Names -> Unit] /\ ledger'[x] = e
      /\ \A n \in Names \ {x} : ledger'[n] = ledger[n]
  <2> HIDE DEF e, x
  <2> QED
    BY <1>2, <1>3, <1>4 DEF Typed
<1> HIDE DEF k, call
<1> QED
  BY <1>1, <1>2, <1>5, <1>6 DEF k, call

\* What the end handler does to the table, when it does not add to the log.
LEMMA EndUnits ==
  ASSUME Typed, NEW x \in Names, prof_observer_end(x)
  PROVE  /\ own' \in Nat /\ own <= own' /\ own' <= own + RowStep
         /\ func_start_units' \in Seq(Reading) /\ errors' \in ErrorsType
         /\ DOMAIN func_units' \subseteq Names /\ func_units' \in [DOMAIN func_units' -> Unit]
         /\ Calm' =>
              LET end == [wall |-> wall, cpu |-> cpu, memory |-> memory + own + UnitSize]
              IN  /\ Calm /\ func_start_units # << >>
                  /\ func_start_units' = Front(func_start_units)
                  /\ Row0(x)' = Accumulated(Row0(x), Last(func_start_units), end)
                  /\ \A n \in Names \ {x} : Row0(n)' = Row0(n)
<1>1. CASE prof_add_warning /\ UNCHANGED <<own, func_start_units, func_units>>
  BY <1>1, WarningAdded, Sizes DEF Typed
<1>2. CASE /\ func_start_units # << >> /\ func_start_units' = Front(func_start_units)
           /\ \E end \in get_prof_unit :
                LET unit == IF x \in DOMAIN func_units THEN func_units[x] ELSE Zero
                IN  func_units' = [n \in DOMAIN func_units \cup {x} |->
                      IF n = x THEN Accumulated(unit, Last(func_start_units), end)
                      ELSE func_units[n]]
           /\ own' = own + RowSize(x)
           /\ UNCHANGED errors
  <2> DEFINE end == [wall |-> wall, cpu |-> cpu, memory |-> memory + own + UnitSize]
             start == Last(func_start_units)
             unit == Row0(x)
             new == Accumulated(unit, start, end)
  <2>1. func_units' = [n \in DOMAIN func_units \cup {x} |-> IF n = x THEN new ELSE func_units[n]]
    BY <1>2 DEF get_prof_unit, Row0
  <2>2. start \in Reading /\ func_start_units' \in Seq(Reading)
    BY <1>2, FrontLast DEF Typed
  <2>3. end \in Reading /\ unit \in Unit
    BY Row0Type DEF Typed, Reading, UnitSize
  <2> HIDE DEF start, end, unit
  <2>4. new \in Unit
    <3>1. /\ unit.wall \in Int /\ unit.cpu \in Int /\ unit.memory \in Int /\ unit.calls \in Nat
      BY <2>3 DEF Unit
    <3>2. /\ Difference(end.wall, start.wall) \in Int
          /\ Difference(end.cpu, start.cpu) \in Int
          /\ Difference(end.memory, start.memory) \in Int
      BY <2>2, <2>3, DifferenceIsInt DEF Reading
    <3>3. Signed(unit.memory + Difference(end.memory, start.memory)) \in Int
      BY <3>1, <3>2, SignedIsInt
    <3> QED
      BY <3>1, <3>2, <3>3 DEF Accumulated, Unit
  <2> HIDE DEF new
  <2>5. DOMAIN func_units' \subseteq Names /\ func_units' \in [DOMAIN func_units' -> Unit]
    BY <2>1, <2>4 DEF Typed
  <2>6. Row0(x)' = new /\ \A n \in Names \ {x} : Row0(n)' = Row0(n)
    BY <2>1 DEF Row0
  <2>7. own' \in Nat /\ own <= own' /\ own' <= own + RowStep
    <3>1. RowSize(x) \in Nat /\ RowSize(x) <= RowStep
      BY FiguresAssumption DEF RowSize, RowStep
    <3> QED
      BY <1>2, <3>1, Sizes, Scalars
  <2> QED
    BY <1>2, <2>2, <2>5, <2>6, <2>7 DEF Typed, Calm, new, end, start, unit
<1> QED
  BY <1>1, <1>2 DEF prof_observer_end, ReadingFails

\* A call ends.
LEMMA LeaveFInv == FInv /\ Leave => FInv'
<1> SUFFICES ASSUME FInv, Leave
             PROVE  FInv'
  OBVIOUS
<1>1. Running /\ Typed /\ Bounded /\ Nested
  BY DEF FInv, Leave
<1>2. PICK k, call, x : k = Len(frames) /\ call = Last(frames) /\ x = call.name
  OBVIOUS
<1>3. /\ k \in Nat \ {0} /\ call \in Call /\ call = frames[k] /\ x \in Names
      /\ frames' \in Seq(Call) /\ Len(frames') = k - 1
      /\ \A i \in 1..(k - 1) : frames'[i] = frames[i]
      /\ ledger' \in [Names -> Unit]
      /\ ledger'[x].wall = ledger[x].wall + (wall - call.wall)
      /\ ledger'[x].cpu = ledger[x].cpu + (cpu - call.cpu)
      /\ ledger'[x].memory = ledger[x].memory + (memory - call.memory)
      /\ ledger'[x].calls = ledger[x].calls + 1
      /\ \A n \in Names \ {x} : ledger'[n] = ledger[n]
      /\ busy \subseteq busy'
      /\ x \notin busy' => own = call.own
      /\ UNCHANGED <<wall, cpu, memory, changes, entered, torn, recursive, printed>>
      /\ prof_observer_end(x)
  BY <1>1, <1>2, LeaveCredits
<1> DEFINE end == [wall |-> wall, cpu |-> cpu, memory |-> memory + own + UnitSize]
<1>4. /\ own' \in Nat /\ own <= own' /\ own' <= own + RowStep
      /\ func_start_units' \in Seq(Reading) /\ errors' \in ErrorsType
      /\ DOMAIN func_units' \subseteq Names /\ func_units' \in [DOMAIN func_units' -> Unit]
      /\ Calm' => /\ Calm /\ func_start_units # << >>
                  /\ func_start_units' = Front(func_start_units)
                  /\ Row0(x)' = Accumulated(Row0(x), Last(func_start_units), end)
                  /\ \A n \in Names \ {x} : Row0(n)' = Row0(n)
  BY <1>1, <1>3, EndUnits
<1> HIDE DEF end
<1>5. /\ call.wall \in Nat /\ call.cpu \in Nat /\ call.memory \in Nat /\ call.own \in Nat
      /\ call.name = x /\ call.wall <= wall /\ call.own <= own /\ call.memory <= 1 + changes
      /\ x \notin torn => call.cpu <= cpu
  <2>1. call.name = x /\ k \in 1..Len(frames)
    BY <1>2, <1>3
  <2> QED
    BY <1>1, <1>3, <2>1 DEF Call, Nested
<1>6. Typed'
  BY <1>1, <1>3, <1>4 DEF Typed
<1>7. \A n \in Names :
        LET left == ledger'[n].calls * MemoryStep
        IN  /\ ledger'[n].calls + (k - 1) <= entered
            /\ - left <= ledger'[n].memory /\ ledger'[n].memory <= left
  <2> TAKE n \in Names
  <2> DEFINE c == ledger[n].calls
             m == ledger[n].memory
             left == c * MemoryStep
  <2>1. /\ c \in Nat /\ m \in Int /\ entered \in Nat /\ c + k <= entered
        /\ - left <= m /\ m <= left
    BY <1>1, <1>2 DEF Typed, Unit, Bounded
  <2>2. left \in Nat /\ (c + 1) * MemoryStep = left + MemoryStep
    BY <2>1, Sizes, Products
  <2>3. CASE n # x
    BY <1>3, <2>1, <2>3
  <2>4. CASE n = x
    <3> DEFINE d == memory - call.memory
    <3>1. ledger'[n].calls = c + 1 /\ ledger'[n].memory = m + d
      BY <1>3, <2>4
    <3>2. d \in Int /\ - MemoryStep <= d /\ d <= MemoryStep
      <4>1. memory <= 1 + MaxChanges /\ call.memory <= 1 + MaxChanges /\ memory \in Nat
        <5>1. changes <= MaxChanges /\ memory <= 1 + changes /\ call.memory <= 1 + changes
          BY <1>1, <1>5 DEF Bounded
        <5>2. changes \in Nat /\ memory \in Nat /\ call.memory \in Nat
          BY <1>1, <1>5 DEF Typed
        <5> QED
          BY <5>1, <5>2, Sizes
      <4> QED
        BY <1>5, <4>1, Sizes DEF MemoryStep
    <3> HIDE DEF c, m, left, d
    <3>3. - (left + MemoryStep) <= m + d /\ m + d <= left + MemoryStep /\ (c + 1) + (k - 1) <= entered
      BY <1>3, <2>1, <2>2, <3>2, Sizes
    <3> QED
      BY <2>2, <3>1, <3>3
  <2> QED
    BY <2>3, <2>4
<1>8. Bounded'
  <2>1. own' + (k - 1) * RowStep <= entered * OwnStep
    <3> DEFINE a == (k - 1) * RowStep
               b == entered * OwnStep
    <3>1. a \in Nat /\ k * RowStep = a + RowStep
      <4>1. k - 1 \in Nat /\ (k - 1) + 1 = k
        BY <1>3
      <4> QED
        BY <4>1, Sizes, Products
    <3>2. b \in Nat
      BY <1>1, Sizes, Products DEF Typed
    <3>3. own + k * RowStep <= b
      BY <1>1, <1>2 DEF Bounded
    <3> HIDE DEF a, b
    <3>4. own' + a <= b
      <4>1. own + (a + RowStep) <= b /\ own' <= own + RowStep /\ own \in Nat /\ own' \in Nat
        BY <1>1, <1>4, <3>1, <3>3 DEF Typed
      <4> QED
        BY <3>1, <3>2, <4>1, Sizes, LessOwn
    <3> QED
      BY <3>4 DEF a, b
  <2> QED
    BY <1>1, <1>3, <1>7, <2>1 DEF Bounded
<1>9. Nested'
  <2>1. ASSUME NEW i \in 1..(k - 1)
        PROVE  /\ frames'[i].wall <= wall /\ frames'[i].own <= own'
               /\ frames'[i].memory <= 1 + changes
               /\ frames'[i].name \notin torn => frames'[i].cpu <= cpu
    <3>1. i \in 1..Len(frames) /\ frames'[i] = frames[i]
      BY <1>2, <1>3
    <3>2. frames[i] \in Call
      BY <1>1, <3>1, ElementOfSeq DEF Typed
    <3>3. frames[i].own \in Nat /\ frames[i].own <= own
      BY <1>1, <3>1, <3>2 DEF Call, Nested
    <3>4. frames[i].own <= own'
      BY <1>1, <1>4, <3>3 DEF Typed
    <3> QED
      BY <1>1, <3>1, <3>4 DEF Nested
  <2>2. ASSUME NEW i \in 1..(k - 1), NEW j \in 1..(k - 1), i # j,
               frames'[i].name = frames'[j].name
        PROVE  frames'[i].name \in recursive
    <3>1. i \in 1..Len(frames) /\ j \in 1..Len(frames)
      BY <1>2, <1>3
    <3> QED
      BY <1>1, <1>3, <2>2, <3>1 DEF Nested
  <2> QED
    BY <1>3, <2>1, <2>2 DEF Nested
<1>10. ASSUME Calm'
       PROVE  Matching' /\ Figured'
  <2>1. Calm /\ Matching /\ Figured
    BY <1>1, <1>4, <1>10 DEF FInv
  <2>2. /\ func_start_units # << >> /\ func_start_units' = Front(func_start_units)
        /\ \A n \in Names \ {x} : Row0(n)' = Row0(n)
    BY <1>4, <1>10
  <2>3. /\ Len(func_start_units) = k /\ Len(func_start_units') = k - 1
        /\ \A i \in 1..(k - 1) : func_start_units'[i] = func_start_units[i]
        /\ Last(func_start_units) = func_start_units[k]
    BY <1>1, <1>2, <2>1, <2>2, FrontLast DEF Matching, Typed
  <2>4. Matching'
    <3>1. \A i \in 1..(k - 1) : i \in 1..Len(frames)
      BY <1>2, <1>3
    <3> QED
      BY <1>3, <2>1, <2>3, <3>1 DEF Matching
  <2> DEFINE start == [wall |-> call.wall, cpu |-> call.cpu,
                       memory |-> call.memory + call.own + UnitSize]
             c == ledger[x].calls
             m == ledger[x].memory
             d == memory - call.memory
             o == Overhead(x)
             p == own - call.own
  <2>5. Last(func_start_units) = start
    <3>1. k \in 1..Len(frames)
      BY <1>2, <1>3
    <3> QED
      BY <1>3, <2>1, <2>3, <3>1 DEF Matching
  <2>6. /\ Row0(x)'.wall = Row0(x).wall + Difference(wall, call.wall)
        /\ Row0(x)'.cpu = Row0(x).cpu + Difference(cpu, call.cpu)
        /\ Row0(x)'.memory = Signed(Row0(x).memory +
              Difference(memory + own + UnitSize, call.memory + call.own + UnitSize))
        /\ Row0(x)'.calls = Row0(x).calls + 1
    BY <1>4, <1>10, <2>5 DEF Accumulated, end
  <2>7. /\ c \in Nat /\ m \in Int /\ d \in Int /\ p \in Int /\ o \in Int
        /\ Row0(x).memory = m + o
    <3>1. m \in Int /\ c \in Nat
      BY <1>1, <1>3 DEF Typed, Unit
    <3>2. Row0(x).memory \in Int
      BY <1>1, <1>3, Row0Type DEF Unit
    <3>3. memory \in Int /\ own \in Int
      BY <1>1 DEF Typed
    <3> QED
      BY <1>5, <3>1, <3>2, <3>3 DEF Overhead
  <2>8. /\ Row0(x)'.wall = ledger'[x].wall /\ Row0(x)'.calls = ledger'[x].calls
        /\ x \notin torn => Row0(x)'.cpu = ledger'[x].cpu
    <3>1. wall \in Nat /\ cpu \in Nat /\ wall <= MaxChanges /\ cpu <= MaxChanges
      <4>1. /\ wall \in Nat /\ cpu \in Nat /\ changes \in Nat
            /\ wall <= changes /\ cpu <= changes /\ changes <= MaxChanges
        BY <1>1 DEF Typed, Bounded
      <4> QED
        BY <4>1, Sizes
    <3>2. Difference(wall, call.wall) = wall - call.wall
      BY <1>5, <3>1, DifferenceOfClock
    <3>3. x \notin torn => Difference(cpu, call.cpu) = cpu - call.cpu
      BY <1>5, <3>1, DifferenceOfClock
    <3>4. /\ Row0(x).wall = ledger[x].wall /\ Row0(x).calls = ledger[x].calls
          /\ x \notin torn => Row0(x).cpu = ledger[x].cpu
      BY <1>3, <2>1 DEF Figured
    <3> QED
      BY <1>3, <2>6, <3>2, <3>3, <3>4
  <2>9. x \notin busy' => o = 0 /\ p = 0
    <3> SUFFICES ASSUME x \notin busy'
                 PROVE  o = 0 /\ p = 0
      OBVIOUS
    <3>1. x \notin busy /\ own = call.own
      BY <1>3
    <3>2. o = 0
      BY <1>3, <2>1, <3>1 DEF Figured
    <3>3. p = 0
      BY <1>5, <3>1
    <3> QED
      BY <3>2, <3>3
  <2>10. x \notin recursive => o \in 0..call.own /\ p \in 0..own /\ o + p \in 0..own
    <3>1. k \in 1..Len(frames) /\ frames[k].name = x /\ frames[k].own = call.own
      BY <1>2, <1>3, <1>5
    <3>2. x \notin recursive => o \in 0..own /\ o <= call.own
      BY <1>3, <2>1, <3>1 DEF Figured
    <3>3. own \in Nat /\ call.own \in Nat /\ call.own <= own
      BY <1>1, <1>5 DEF Typed
    <3> HIDE DEF o
    <3> QED
      BY <3>2, <3>3
  <2>11. ASSUME x \notin busy' \/ x \notin recursive
         PROVE  Overhead(x)' = o + p
    <3> DEFINE left == (c + 1) * MemoryStep
               e1 == memory + own + UnitSize
               s1 == call.memory + call.own + UnitSize
    <3>1. left \in Nat /\ left + own < Half
      <4>1. c + 1 \in Nat /\ c + 1 <= entered
        <5>1. c \in Nat /\ c + k <= entered /\ entered \in Nat
          BY <1>1, <1>2, <1>3, <2>7 DEF Bounded, Typed
        <5> HIDE DEF c
        <5> QED
          BY <1>3, <5>1
      <4> HIDE DEF c
      <4> QED
        BY <1>1, <4>1, RoomLeft
    <3>2. - left <= m + d /\ m + d <= left
      BY <1>3, <1>7
    <3>3. e1 \in Int /\ s1 \in Int /\ e1 - s1 = d + p
      <4>1. own \in Nat /\ memory \in Nat
        BY <1>1 DEF Typed
      <4> QED
        BY <1>5, <4>1 DEF UnitSize
    <3>4. own \in Nat /\ o + p \in 0..own
      BY <1>1, <2>9, <2>10, <2>11 DEF Typed
    <3>5. Row0(x)'.memory = Signed(Row0(x).memory + Difference(e1, s1))
      BY <2>6
    <3>6. ledger'[x].memory = m + d
      BY <1>3
    <3> HIDE DEF left, e1, s1, c, m, d, o, p
    <3>7. - Half <= (m + o) + (e1 - s1) /\ (m + o) + (e1 - s1) < Half
      <4>1. (m + o) + (e1 - s1) = (m + d) + (o + p)
        BY <2>7, <3>3
      <4>2. m + d \in Int
        BY <2>7
      <4> DEFINE md == m + d
                 op == o + p
      <4> HIDE DEF md, op
      <4>3. - Half <= md + op /\ md + op < Half
        <5>1. md \in Int /\ op \in 0..own /\ - left <= md /\ md <= left
          BY <3>2, <3>4, <4>2 DEF md, op
        <5> QED
          BY <3>1, <3>4, <5>1, Halves
      <4> QED
        BY <4>1, <4>3 DEF md, op
    <3>8. Signed((m + o) + Difference(e1, s1)) = (m + o) + (e1 - s1)
      <4>1. m + o \in Int
        BY <2>7
      <4> QED
        BY <3>3, <3>7, <4>1, SignedSum
    <3>9. Row0(x)'.memory = (m + o) + (d + p)
      BY <2>7, <3>3, <3>5, <3>8
    <3>10. ((m + o) + (d + p)) - (m + d) = o + p
      BY <2>7
    <3>11. Overhead(x)' = Row0(x)'.memory - ledger'[x].memory
      BY DEF Overhead
    <3> QED
      BY <3>6, <3>9, <3>10, <3>11
  <2>12. ASSUME NEW n \in Names \ {x}
         PROVE  /\ Row0(n)'.wall = ledger'[n].wall /\ Row0(n)'.calls = ledger'[n].calls
                /\ n \notin torn => Row0(n)'.cpu = ledger'[n].cpu
                /\ n \notin busy' => Overhead(n)' = 0
                /\ n \notin recursive =>
                     /\ Overhead(n)' \in 0..own'
                     /\ \A i \in 1..(k - 1) :
                          frames'[i].name = n => Overhead(n)' <= frames'[i].own
    <3>1. Row0(n)' = Row0(n) /\ ledger'[n] = ledger[n] /\ Overhead(n)' = Overhead(n)
      BY <1>3, <2>2 DEF Overhead
    <3>2. n \notin recursive => Overhead(n) \in 0..own'
      BY <1>1, <1>4, <2>1 DEF Figured, Typed
    <3>3. \A i \in 1..(k - 1) : i \in 1..Len(frames) /\ frames'[i] = frames[i]
      BY <1>2, <1>3
    <3>4. /\ Row0(n).wall = ledger[n].wall /\ Row0(n).calls = ledger[n].calls
          /\ n \notin torn => Row0(n).cpu = ledger[n].cpu
          /\ n \notin busy => Overhead(n) = 0
          /\ n \notin recursive =>
               \A i \in 1..Len(frames) : frames[i].name = n => Overhead(n) <= frames[i].own
      BY <2>1 DEF Figured
    <3>5. n \notin busy' => n \notin busy
      BY <1>3
    <3>6. n \notin recursive =>
            \A i \in 1..(k - 1) : frames'[i].name = n => Overhead(n) <= frames'[i].own
      BY <3>3, <3>4
    <3> HIDE DEF o, p, c, m, d, start
    <3> QED
      BY <3>1, <3>2, <3>4, <3>5, <3>6
  <2>13. /\ x \notin busy' => Overhead(x)' = 0
         /\ x \notin recursive =>
              /\ Overhead(x)' \in 0..own'
              /\ \A i \in 1..(k - 1) : frames'[i].name # x
    <3>1. x \notin busy' => Overhead(x)' = 0
      BY <2>9, <2>11
    <3>2. x \notin recursive => Overhead(x)' \in 0..own'
      <4> SUFFICES ASSUME x \notin recursive
                   PROVE  Overhead(x)' \in 0..own'
        OBVIOUS
      <4>1. Overhead(x)' = o + p /\ o + p \in 0..own
        BY <2>10, <2>11
      <4>2. own \in Nat /\ own' \in Nat /\ own <= own'
        BY <1>1, <1>4 DEF Typed
      <4> HIDE DEF o, p
      <4> QED
        BY <4>1, <4>2
    <3>3. ASSUME NEW i \in 1..(k - 1), frames'[i].name = x
          PROVE  x \in recursive
      <4>1. i \in 1..Len(frames) /\ k \in 1..Len(frames) /\ i # k
        BY <1>2, <1>3
      <4>2. frames[i].name = frames[k].name /\ frames[i].name = x
        BY <1>3, <1>5, <3>3
      <4> QED
        BY <1>1, <4>1, <4>2 DEF Nested
    <3> QED
      BY <3>1, <3>2, <3>3
  <2>14. Figured'
    <3> HIDE DEF o, p, c, m, d, start
    <3> QED
      BY <1>3, <2>8, <2>12, <2>13 DEF Figured
  <2> QED
    BY <2>4, <2>14
<1>11. Running'
  BY <1>1, <1>3 DEF Running
<1> QED
  BY <1>6, <1>8, <1>9, <1>10, <1>11, NothingPrinted, PTL DEF FInv

\* The report shows the table, if the log is empty; after it nothing changes.
LEMMA RshutdownFInv == FInv /\ Rshutdown => FInv'
<1> SUFFICES ASSUME FInv, Rshutdown
             PROVE  FInv'
  OBVIOUS
<1>1. /\ Running /\ Typed /\ (Calm => Figured)
      /\ UNCHANGED <<ledger, torn, busy>>
  BY DEF FInv, Rshutdown, history
<1>2. CASE ~ Calm
  <2>1. printed' = [kind |-> "errors", rows |-> NoRows]
    BY <1>2 DEF Rshutdown, Calm, prof_has_errors
  <2>2. ~ Running'
    BY <2>1 DEF Running, NoReport
  <2> QED
    BY <2>1, <2>2 DEF FInv, FiguresExact, UndisturbedMemoryExact, NoRows
<1>3. CASE Calm
  <2> DEFINE rows == [n \in DOMAIN func_units |-> Row(func_units[n])]
  <2>1. printed' = [kind |-> "table", rows |-> rows]
    BY <1>3 DEF Rshutdown, Calm, prof_has_errors
  <2>2. ~ Running'
    BY <2>1 DEF Running, NoReport
  <2>3. ASSUME NEW n \in DOMAIN func_units
        PROVE  /\ rows[n].wall = ledger[n].wall /\ rows[n].calls = ledger[n].calls
               /\ n \notin torn => rows[n].cpu = ledger[n].cpu
               /\ n \notin busy => rows[n].memory = get_memory_with_units(ledger[n].memory)
    <3>1. n \in Names /\ func_units[n] \in Unit /\ Row0(n) = func_units[n]
      BY <1>1 DEF Typed, Row0
    <3>2. /\ rows[n].wall = func_units[n].wall /\ rows[n].cpu = func_units[n].cpu
          /\ rows[n].calls = func_units[n].calls
          /\ rows[n].memory = get_memory_with_units(func_units[n].memory)
      BY <3>1 DEF Row, Unit
    <3>3. /\ func_units[n].wall = ledger[n].wall /\ func_units[n].calls = ledger[n].calls
          /\ n \notin torn => func_units[n].cpu = ledger[n].cpu
      BY <1>1, <1>3, <3>1 DEF Figured
    <3>4. n \notin busy => func_units[n].memory = ledger[n].memory
      <4> SUFFICES ASSUME n \notin busy
                   PROVE  func_units[n].memory = ledger[n].memory
        OBVIOUS
      <4>1. func_units[n].memory - ledger[n].memory = 0
        BY <1>1, <1>3, <3>1 DEF Figured, Overhead
      <4>2. func_units[n].memory \in Int /\ ledger[n].memory \in Int
        BY <1>1, <3>1 DEF Typed, Unit
      <4> QED
        BY <4>1, <4>2
    <3> QED
      BY <3>2, <3>3, <3>4
  <2> HIDE DEF rows
  <2>4. DOMAIN rows = DOMAIN func_units /\ printed'.rows = rows
    BY <2>1 DEF rows
  <2> QED
    BY <1>1, <2>2, <2>3, <2>4 DEF FInv, FiguresExact, UndisturbedMemoryExact
<1> QED
  BY <1>2, <1>3

LEMMA NextFInv == FInv /\ [Next]_vars => FInv'
<1> SUFFICES ASSUME FInv, [Next]_vars
             PROVE  FInv'
  OBVIOUS
<1>1. CASE Compute
  BY <1>1, ChangeFInv DEF Compute, Change, FInv, Typed
<1>2. CASE Wait
  BY <1>2, ChangeFInv DEF Wait, Change, FInv, Typed
<1>3. CASE Allocate
  BY <1>3, ChangeFInv DEF Allocate, Change
<1>4. CASE Fork
  BY <1>4, ChangeFInv DEF Fork, Change, FInv, Typed
<1>5. CASE Leave
  BY <1>5, LeaveFInv
<1>6. CASE Rshutdown
  BY <1>6, RshutdownFInv
<1>7. ASSUME NEW x \in Names, Enter(x)
      PROVE  FInv'
  BY <1>7, EnterFInv
<1>8. CASE UNCHANGED vars
  BY <1>8 DEF vars, quantities, profVars, history, FInv, Running, Typed, Bounded, Nested, Calm,
       Matching, Figured, Row0, Overhead, FiguresExact, UndisturbedMemoryExact
<1> QED
  BY <1>1, <1>2, <1>3, <1>4, <1>5, <1>6, <1>7, <1>8 DEF Next

-----------------------------------------------------------------------------
(***************************************************************************)
(* While the log is empty, each call in progress has its reading on the    *)
(* stack, and the rows are the ledger but for what the profiler allocates. *)
(***************************************************************************)
THEOREM Inductive == Spec => []FInv
BY InitFInv, NextFInv, PTL DEF Spec

\* Printed figures are those of the calls that were made, CPU times unless a
\* call was open at a fork: of integers that wrap, the differences and their
\* signed sums come out right (func.c:127-130).
THEOREM FiguresAreExact == Spec => []FiguresExact
<1>1. FInv => FiguresExact
  BY DEF FInv
<1> QED
  BY <1>1, Inductive, PTL

\* Reading the memory does not disturb it: where the profiler allocated
\* nothing during the calls of a function, the memory that is printed is the
\* amount of what they allocated and freed.
THEOREM UndisturbedMemory == Spec => []UndisturbedMemoryExact
<1>1. FInv => UndisturbedMemoryExact
  BY DEF FInv
<1> QED
  BY <1>1, Inductive, PTL

\* What the profiler allocates is counted for a function that is not
\* recursive once at most.
THEOREM OverheadIsBounded == Spec => []OverheadBounded
<1>1. FInv => OverheadBounded
  <2> SUFFICES ASSUME FInv, Running, Calm, NEW n \in DOMAIN func_units \ recursive
               PROVE  func_units[n].memory - ledger[n].memory \in 0..own
    BY DEF OverheadBounded, Calm
  <2>1. n \in Names /\ Row0(n) = func_units[n]
    BY DEF FInv, Typed, Row0
  <2> QED
    BY <2>1 DEF FInv, Figured, Overhead
<1> QED
  BY <1>1, Inductive, PTL
=============================================================================
