-------------------------- MODULE FuncFibersProofs --------------------------
(***************************************************************************)
(* Theorems about FuncFibers, for any finite set of functions, any set of  *)
(* fibers, and every bound.                                                *)
(***************************************************************************)
EXTENDS FuncFibers, DataTheorems, TLAPS

Call == [fn : Functions, began : Int]

Typed ==
  /\ now \in Int /\ func_start_units \in Seq(Int) /\ IsUnitTable(func_units)
  /\ errors \in ErrorsType
  /\ calls \in [Fibers -> Seq(Call)]
  /\ chain \in Seq(Fibers) /\ chain # << >>
  /\ ledger \in [Names -> FuncUnit]

(***************************************************************************)
(* The observed calls that are in progress, of all fibers: a place is a    *)
(* fiber and a position in its calls.                                      *)
(***************************************************************************)
IsOpen(s) ==
  s[2] \in 1..Len(calls[s[1]]) /\ prof_observer(calls[s[1]][s[2]].fn)

Open == {s \in Fibers \X Nat : IsOpen(s)}

Began == [s \in Fibers \X Nat |-> IF IsOpen(s) THEN calls[s[1]][s[2]].began ELSE 0]

Calm == errors.levels = {}

Counted == \A n \in Names : Total(func_units)[n].calls = ledger[n].calls

(***************************************************************************)
(* There is no telling whose reading is where on the stack, but there are  *)
(* as many as calls in progress, and what the table lacks or has too much  *)
(* is the difference between the sum of the readings and the sum of the    *)
(* times at which those calls began.                                       *)
(***************************************************************************)
Balanced ==
  /\ IsFiniteSet(Open) /\ Cardinality(Open) = Len(func_start_units)
  /\ SumOf(Total(func_units)) + SumFunctionOnSet(Began, Open)
       = SumOf(ledger) + SeqTotal(func_start_units)

FInv ==
  /\ Typed
  /\ Calm => Counted /\ Balanced
  /\ Faults \cap {"clock", "name"} = {} => Calm

-----------------------------------------------------------------------------
(***************************************************************************)
(* The names that are reported are finitely many.                          *)
(***************************************************************************)
LEMMA NamesAreFinite == IsFiniteSet(Names)
<1> DEFINE name == [f \in Functions |-> get_function_name(f)]
<1>1. name \in Surjection(Functions, Names)
  BY DEF Names, Surjection
<1> QED
  BY <1>1, FibersAssumption, FS_Surjection

\* Every function of the program has one of them.
LEMMA NameOf ==
  ASSUME NEW f \in Functions
  PROVE  get_function_name(f) \in Names
BY DEF Names

\* What SumOf adds up.
LEMMA SumOfWalls ==
  ASSUME NEW l
  PROVE  SumOf(l) = SumFunctionOnSet([n \in Names |-> l[n].wall], Names)
<1> DEFINE f == [n \in Names |-> l[n].wall]
<1>1. DOMAIN f = Names /\ SumOf(l) = SumFunction(f)
  BY DEF SumOf
<1> HIDE DEF f
<1>2. SumOf(l) = SumFunctionOnSet(f, Names)
  BY <1>1, SumOfFunction
<1> QED
  BY <1>2 DEF f

\* The times of a ledger add up to an integer.
LEMMA SumOfIsInt ==
  ASSUME NEW l, \A n \in Names : l[n].wall \in Int
  PROVE  SumOf(l) \in Int
BY NamesAreFinite, SumOfWalls, SumIsInt

\* When one name gets d more, so does the sum.
LEMMA SumOfChange ==
  ASSUME NEW l, NEW m, NEW x \in Names, NEW d \in Int,
         \A n \in Names : l[n].wall \in Int,
         m[x].wall = l[x].wall + d,
         \A n \in Names \ {x} : m[n].wall = l[n].wall
  PROVE  SumOf(m) = SumOf(l) + d
<1> DEFINE f == [n \in Names |-> l[n].wall]
           g == [n \in Names |-> m[n].wall]
<1>1. /\ \A n \in Names : f[n] \in Int
      /\ g[x] = f[x] + d
      /\ \A n \in Names \ {x} : g[n] = f[n]
  OBVIOUS
<1>2. SumOf(l) = SumFunctionOnSet(f, Names) /\ SumOf(m) = SumFunctionOnSet(g, Names)
  BY SumOfWalls
<1> HIDE DEF f, g
<1>3. SumFunctionOnSet(g, Names) = SumFunctionOnSet(f, Names) + d
  BY <1>1, NamesAreFinite, SumAfterChange
<1> QED
  BY <1>2, <1>3

\* The times of an empty ledger add up to zero.
LEMMA SumOfEmpty ==
  ASSUME NEW l, \A n \in Names : l[n].wall = 0
  PROVE  SumOf(l) = 0
<1> DEFINE f == [n \in Names |-> l[n].wall]
<1>1. \A n \in Names : f[n] = 0
  OBVIOUS
<1> HIDE DEF f
<1>2. SumFunctionOnSet(f, Names) = 0
  BY <1>1, NamesAreFinite, SumOfZeroes
<1> QED
  BY <1>2, SumOfWalls DEF f

\* A table has integers for every name.
LEMMA TotalType ==
  ASSUME NEW u, IsUnitTable(u)
  PROVE  \A n \in Names : Total(u)[n].wall \in Int /\ Total(u)[n].calls \in Nat
<1> TAKE n \in Names
<1>1. Total(u)[n] = FindOrAdd(u, n)
  BY DEF Total
<1>2. FindOrAdd(u, n) \in FuncUnit
  BY DEF IsUnitTable, FindOrAdd, FuncUnit
<1> QED
  BY <1>1, <1>2 DEF FuncUnit

\* Adding a measurement to a table: one call more for the name, its time,
\* and nothing else.
LEMMA Accumulated ==
  ASSUME NEW u, IsUnitTable(u), NEW x \in Names, NEW w \in Int
  PROVE  LET v == Accumulate(u, x, w)
         IN  /\ IsUnitTable(v)
             /\ Total(v)[x].wall = Total(u)[x].wall + w
             /\ Total(v)[x].calls = Total(u)[x].calls + 1
             /\ \A n \in Names \ {x} : Total(v)[n] = Total(u)[n]
<1> DEFINE v == Accumulate(u, x, w)
           e == [wall |-> FindOrAdd(u, x).wall + w, calls |-> FindOrAdd(u, x).calls + 1]
<1>1. FindOrAdd(u, x) \in FuncUnit
  BY DEF IsUnitTable, FindOrAdd, FuncUnit
<1>2. e \in FuncUnit
  BY <1>1 DEF FuncUnit
<1>3. v = [n \in DOMAIN u \cup {x} |-> IF n = x THEN e ELSE u[n]]
  BY DEF Accumulate
<1>4. DOMAIN v = DOMAIN u \cup {x} /\ v[x] = e /\ \A n \in DOMAIN u \ {x} : v[n] = u[n]
  BY <1>3
<1>5. IsUnitTable(v)
  BY <1>2, <1>3 DEF IsUnitTable
<1>6. Total(v)[x] = e
  BY <1>4 DEF Total, FindOrAdd
<1>7. Total(u)[x] = FindOrAdd(u, x)
  BY DEF Total
<1>8. \A n \in Names \ {x} : Total(v)[n] = Total(u)[n]
  BY <1>4 DEF Total, FindOrAdd
<1> HIDE DEF v
<1>9. Total(v)[x].wall = Total(u)[x].wall + w /\ Total(v)[x].calls = Total(u)[x].calls + 1
  BY <1>6, <1>7
<1> QED
  BY <1>5, <1>8, <1>9 DEF v

\* Crediting an observed call does the same to the ledger.
LEMMA CreditedCall ==
  ASSUME NEW l \in [Names -> FuncUnit], NEW call \in Call, now \in Int,
         prof_observer(call.fn)
  PROVE  LET m == Credited(l, call)
             x == get_function_name(call.fn)
         IN  /\ m \in [Names -> FuncUnit]
             /\ m[x].wall = l[x].wall + (now - call.began)
             /\ m[x].calls = l[x].calls + 1
             /\ \A n \in Names \ {x} : m[n] = l[n]
<1> DEFINE x == get_function_name(call.fn)
           e == [wall |-> l[x].wall + (now - call.began), calls |-> l[x].calls + 1]
<1>1. call.fn \in Functions /\ call.began \in Int
  BY DEF Call
<1>2. x \in Names
  BY <1>1, NameOf
<1>3. e \in FuncUnit
  BY <1>1, <1>2 DEF FuncUnit
<1>4. Credited(l, call) = [l EXCEPT ![x] = e]
  BY DEF Credited
<1> HIDE DEF x
<1> QED
  BY <1>2, <1>3, <1>4 DEF x

-----------------------------------------------------------------------------
(***************************************************************************)
(* The places of calls after a step that changes one place s.              *)
(***************************************************************************)

\* Began gives integers.
LEMMA BeganType ==
  ASSUME Typed
  PROVE  \A t \in Fibers \X Nat : Began[t] \in Int
<1> TAKE t \in Fibers \X Nat
<1>1. CASE IsOpen(t)
  <2>1. calls[t[1]][t[2]] \in Call
    BY <1>1, ElementOfSeq DEF Typed, IsOpen
  <2> QED
    BY <1>1, <2>1 DEF Began, Call
<1>2. CASE ~ IsOpen(t)
  BY <1>2 DEF Began
<1> QED
  BY <1>1, <1>2

\* An observed call that begins.
LEMMA PlaceAdded ==
  ASSUME Typed, IsFiniteSet(Open), NEW s \in Fibers \X Nat,
         ~ IsOpen(s), IsOpen(s)', Began'[s] \in Int,
         \A t \in (Fibers \X Nat) \ {s} : (IsOpen(t)' <=> IsOpen(t)) /\ Began'[t] = Began[t]
  PROVE  /\ IsFiniteSet(Open') /\ Cardinality(Open') = Cardinality(Open) + 1
         /\ SumFunctionOnSet(Began', Open') = Began'[s] + SumFunctionOnSet(Began, Open)
<1>1. s \notin Open /\ Open' = Open \cup {s} /\ Open \subseteq Fibers \X Nat
  BY DEF Open
<1>2. \A t \in Open : Began[t] \in Int
  BY <1>1, BeganType
<1>3. \A t \in Open : Began'[t] = Began[t]
  BY <1>1
<1>4. SumFunctionOnSet(Began', Open \cup {s}) = Began'[s] + SumFunctionOnSet(Began, Open)
  BY <1>1, <1>2, <1>3, SumWithOneMore
<1>5. IsFiniteSet(Open \cup {s}) /\ Cardinality(Open \cup {s}) = Cardinality(Open) + 1
  BY <1>1, FS_AddElement
<1> QED
  BY <1>1, <1>4, <1>5

\* An observed call that ends.
LEMMA PlaceRemoved ==
  ASSUME Typed, IsFiniteSet(Open), NEW s \in Fibers \X Nat,
         IsOpen(s), ~ IsOpen(s)',
         \A t \in (Fibers \X Nat) \ {s} : (IsOpen(t)' <=> IsOpen(t)) /\ Began'[t] = Began[t]
  PROVE  /\ IsFiniteSet(Open') /\ Cardinality(Open') = Cardinality(Open) - 1
         /\ SumFunctionOnSet(Began', Open') = SumFunctionOnSet(Began, Open) - Began[s]
<1>1. s \in Open /\ Open' = Open \ {s} /\ Open \subseteq Fibers \X Nat
  BY DEF Open
<1>2. \A t \in Open : Began[t] \in Int
  BY <1>1, BeganType
<1>3. SumFunctionOnSet(Began, Open) = Began[s] + SumFunctionOnSet(Began, Open \ {s})
  BY <1>1, <1>2, SumOfOneAndRest
<1>4. IsFiniteSet(Open \ {s}) /\ Cardinality(Open \ {s}) = Cardinality(Open) - 1
  BY <1>1, FS_RemoveElement
<1>5. \A t \in Open \ {s} : Began'[t] = Began[t]
  BY <1>1
<1>6. SumFunctionOnSet(Began', Open \ {s}) = SumFunctionOnSet(Began, Open \ {s})
  BY <1>4, <1>5, SumOfSame
<1>7. SumFunctionOnSet(Began, Open \ {s}) \in Int /\ Began[s] \in Int
  BY <1>1, <1>2, <1>4, SumIsInt
<1> QED
  BY <1>1, <1>3, <1>4, <1>6, <1>7

\* A call that is not observed, or none at all.
LEMMA PlacesKept ==
  ASSUME IsFiniteSet(Open),
         \A t \in Fibers \X Nat : (IsOpen(t)' <=> IsOpen(t)) /\ Began'[t] = Began[t]
  PROVE  /\ Open' = Open
         /\ SumFunctionOnSet(Began', Open') = SumFunctionOnSet(Began, Open)
<1>1. Open' = Open /\ \A t \in Open : Began'[t] = Began[t]
  BY DEF Open
<1>2. SumFunctionOnSet(Began', Open) = SumFunctionOnSet(Began, Open)
  BY <1>1, SumOfSame
<1> QED
  BY <1>1, <1>2

(***************************************************************************)
(* A call takes the place s, if it is one that is observed.                *)
(***************************************************************************)
TakesPlace(s, call) ==
  /\ s \in Fibers \X Nat /\ ~ IsOpen(s)
  /\ IsOpen(s)' <=> prof_observer(call.fn)
  /\ IsOpen(s)' => Began'[s] = call.began
  /\ ~ IsOpen(s)' => Began'[s] = Began[s]
  /\ \A t \in (Fibers \X Nat) \ {s} :
       (IsOpen(t)' <=> IsOpen(t)) /\ Began'[t] = Began[t]

\* Which place a call that begins takes.
LEMMA PlaceOfBegin ==
  ASSUME Typed, NEW fiber \in Fibers, NEW call \in Call,
         calls' = [calls EXCEPT ![fiber] = Append(@, call)],
         NEW s, s = <<fiber, Len(calls[fiber]) + 1>>
  PROVE  TakesPlace(s, call)
<1> DEFINE n == Len(calls[fiber])
<1>1. calls[fiber] \in Seq(Call) /\ n \in Nat
  BY DEF Typed
<1>2. /\ Len(calls'[fiber]) = n + 1 /\ calls'[fiber][n + 1] = call
      /\ \A i \in 1..n : calls'[fiber][i] = calls[fiber][i]
      /\ \A fb \in Fibers \ {fiber} : calls'[fb] = calls[fb]
  BY <1>1, AppendLast DEF Typed
<1>3. s \in Fibers \X Nat /\ s[1] = fiber /\ s[2] = n + 1
  BY <1>1
<1>4. ~ IsOpen(s) /\ (IsOpen(s)' <=> prof_observer(call.fn))
  BY <1>1, <1>2, <1>3 DEF IsOpen
<1>5. (IsOpen(s)' => Began'[s] = call.began) /\ (~ IsOpen(s)' => Began'[s] = Began[s])
  BY <1>2, <1>3, <1>4 DEF Began
<1>6. ASSUME NEW t \in (Fibers \X Nat) \ {s}
      PROVE  (IsOpen(t)' <=> IsOpen(t)) /\ Began'[t] = Began[t]
  <2>1. CASE t[1] = fiber
    <3>1. t[2] \in Nat /\ t[2] # n + 1
      BY <1>6, <2>1
    <3>2. t[2] \in 1..(n + 1) <=> t[2] \in 1..n
      BY <1>1, <3>1
    <3> QED
      BY <1>2, <2>1, <3>2 DEF IsOpen, Began
  <2>2. CASE t[1] # fiber
    <3>1. t[1] \in Fibers \ {fiber}
      BY <2>2
    <3> QED
      BY <1>2, <3>1 DEF IsOpen, Began
  <2> QED
    BY <2>1, <2>2
<1> QED
  BY <1>3, <1>4, <1>5, <1>6 DEF TakesPlace

(***************************************************************************)
(* A call leaves the place s, if it was one that is observed.              *)
(***************************************************************************)
LeavesPlace(s, call) ==
  /\ s \in Fibers \X Nat /\ ~ IsOpen(s)' /\ call \in Call
  /\ IsOpen(s) <=> prof_observer(call.fn)
  /\ IsOpen(s) => Began[s] = call.began
  /\ ~ IsOpen(s) => Began'[s] = Began[s]
  /\ \A t \in (Fibers \X Nat) \ {s} :
       (IsOpen(t)' <=> IsOpen(t)) /\ Began'[t] = Began[t]

\* Which place a call that ends leaves.
LEMMA PlaceOfEnd ==
  ASSUME Typed, NEW fiber \in Fibers, calls[fiber] # << >>,
         calls' = [calls EXCEPT ![fiber] = Front(@)],
         NEW call, call = Last(calls[fiber]),
         NEW s, s = <<fiber, Len(calls[fiber])>>
  PROVE  LeavesPlace(s, call)
<1> DEFINE n == Len(calls[fiber])
<1>1. calls[fiber] \in Seq(Call) /\ n \in Nat \ {0} /\ call \in Call /\ call = calls[fiber][n]
  <2>1. calls[fiber] \in Seq(Call)
    BY DEF Typed
  <2> QED
    BY <2>1, FrontLast
<1>2. /\ Len(calls'[fiber]) = n - 1
      /\ \A i \in 1..(n - 1) : calls'[fiber][i] = calls[fiber][i]
      /\ \A fb \in Fibers \ {fiber} : calls'[fb] = calls[fb]
  <2>1. calls[fiber] \in Seq(Call) /\ calls'[fiber] = Front(calls[fiber])
    BY DEF Typed
  <2>2. \A fb \in Fibers \ {fiber} : calls'[fb] = calls[fb]
    BY DEF Typed
  <2>3. /\ Len(Front(calls[fiber])) = n - 1
        /\ \A i \in 1..(n - 1) : Front(calls[fiber])[i] = calls[fiber][i]
    BY <2>1, FrontLast
  <2> QED
    BY <2>1, <2>2, <2>3
<1>3. s \in Fibers \X Nat /\ s[1] = fiber /\ s[2] = n
  BY <1>1
<1>4. ~ IsOpen(s)' /\ (IsOpen(s) <=> prof_observer(call.fn))
  BY <1>1, <1>2, <1>3 DEF IsOpen
<1>5. (IsOpen(s) => Began[s] = call.began) /\ (~ IsOpen(s) => Began'[s] = Began[s])
  BY <1>1, <1>3, <1>4 DEF Began
<1>6. ASSUME NEW t \in (Fibers \X Nat) \ {s}
      PROVE  (IsOpen(t)' <=> IsOpen(t)) /\ Began'[t] = Began[t]
  <2>1. CASE t[1] = fiber
    <3>1. t[2] \in Nat /\ t[2] # n
      BY <1>6, <2>1
    <3>2. t[2] \in 1..(n - 1) <=> t[2] \in 1..n
      BY <1>1, <3>1
    <3> QED
      BY <1>2, <2>1, <3>2 DEF IsOpen, Began
  <2>2. CASE t[1] # fiber
    <3>1. t[1] \in Fibers \ {fiber}
      BY <2>2
    <3> QED
      BY <1>2, <3>1 DEF IsOpen, Began
  <2> QED
    BY <2>1, <2>2
<1> QED
  BY <1>1, <1>3, <1>4, <1>5, <1>6 DEF LeavesPlace

-----------------------------------------------------------------------------
(***************************************************************************)
(* The steps.                                                              *)
(***************************************************************************)

\* The sum of no readings.
LEMMA NoReadings == SeqTotal(<< >>) = 0
<1>1. 1..Len(<< >>) = {}
  OBVIOUS
<1> QED
  BY <1>1, SumOfNone DEF SeqTotal

\* The sums of the accounts are integers.
LEMMA SumsAreInts ==
  ASSUME Typed, IsFiniteSet(Open)
  PROVE  /\ SumOf(Total(func_units)) \in Int /\ SumOf(ledger) \in Int
         /\ SumFunctionOnSet(Began, Open) \in Int
         /\ SeqTotal(func_start_units) \in Int
<1>1. SumOf(Total(func_units)) \in Int
  BY TotalType, SumOfIsInt DEF Typed
<1>2. SumOf(ledger) \in Int
  <2>1. \A n \in Names : ledger[n].wall \in Int
    BY DEF Typed, FuncUnit
  <2> QED
    BY <2>1, SumOfIsInt
<1>3. SumFunctionOnSet(Began, Open) \in Int
  <2>1. \A t \in Open : Began[t] \in Int
    BY BeganType DEF Open
  <2> QED
    BY <2>1, SumIsInt
<1>4. SeqTotal(func_start_units) \in Int
  BY SeqTotalIsInt DEF Typed
<1> QED
  BY <1>1, <1>2, <1>3, <1>4

\* What an end adds to both sides of the account.
LEMMA StillBalanced ==
  ASSUME NEW a \in Int, NEW b \in Int, NEW c \in Int, NEW d \in Int, a + b = c + d,
         NEW time \in Int, NEW start \in Int, NEW began \in Int
  PROVE  (a + (time - start)) + (b - began) = (c + (time - began)) + (d - start)
OBVIOUS

\* Adding to the log leaves one that is not empty.
LEMMA WarningAdded ==
  ASSUME errors \in ErrorsType, prof_add_warning
  PROVE  errors' \in ErrorsType /\ ~ Calm'
BY DEF prof_add_warning, prof_add_error_message, ErrorsType, ErrorLevels, Calm

\* Where no call is in progress, no place is open.
LEMMA QuietHasNoPlace == Quiet => Open = {}
BY DEF Quiet, Open, IsOpen

LEMMA InitFInv == Init => FInv
<1> SUFFICES ASSUME Init
             PROVE  FInv
  OBVIOUS
<1>1. Typed
  <2>1. EmptyLedger \in [Names -> FuncUnit]
    BY DEF EmptyLedger, FuncUnit
  <2>2. IsUnitTable(NoUnits)
    BY DEF IsUnitTable, NoUnits
  <2>3. errors \in ErrorsType
    BY DEF Init, ErrorsType, ErrorLevels
  <2> QED
    BY <2>1, <2>2, <2>3, FibersAssumption DEF Init, Typed
<1>2. \A n \in Names : /\ Total(func_units)[n].calls = 0 /\ Total(func_units)[n].wall = 0
                       /\ ledger[n].calls = 0 /\ ledger[n].wall = 0
  BY DEF Init, Total, FindOrAdd, NoUnits, EmptyLedger
<1>3. Open = {}
  BY QuietHasNoPlace DEF Init, Quiet
<1>4. SumOf(Total(func_units)) = 0 /\ SumOf(ledger) = 0
  BY <1>2, SumOfEmpty
<1>5. SumFunctionOnSet(Began, Open) = 0 /\ SeqTotal(func_start_units) = 0
  BY <1>3, SumOfNone, NoReadings DEF Init
<1>6. IsFiniteSet(Open) /\ Cardinality(Open) = Len(func_start_units)
  BY <1>3, FS_EmptySet DEF Init
<1> QED
  BY <1>1, <1>2, <1>4, <1>5, <1>6 DEF FInv, Calm, Counted, Balanced, Init

\* A call begins, of whichever fiber.
LEMMA BeginFInv ==
  ASSUME FInv, NEW fiber \in Fibers, NEW f \in Functions, Begin(fiber, f),
         chain' \in Seq(Fibers), chain' # << >>
  PROVE  FInv'
<1>1. Typed
  BY DEF FInv
<1>2. PICK call \in Call : call = [fn |-> f, began |-> now]
  BY <1>1 DEF Call, Typed
<1>3. PICK s : s = <<fiber, Len(calls[fiber]) + 1>>
  OBVIOUS
<1>4. calls' = [calls EXCEPT ![fiber] = Append(@, call)] /\ UNCHANGED <<now, ledger>>
  BY <1>2 DEF Begin
<1>5. calls' \in [Fibers -> Seq(Call)]
  <2>1. Append(calls[fiber], call) \in Seq(Call)
    BY <1>1, AppendLast DEF Typed
  <2> QED
    BY <1>1, <1>4, <2>1 DEF Typed
<1>6. /\ s \in Fibers \X Nat /\ ~ IsOpen(s)
      /\ IsOpen(s)' <=> prof_observer(call.fn)
      /\ IsOpen(s)' => Began'[s] = call.began
      /\ ~ IsOpen(s)' => Began'[s] = Began[s]
      /\ \A t \in (Fibers \X Nat) \ {s} :
           (IsOpen(t)' <=> IsOpen(t)) /\ Began'[t] = Began[t]
  <2>1. TakesPlace(s, call)
    BY <1>1, <1>3, <1>4, PlaceOfBegin
  <2> QED
    BY <2>1 DEF TakesPlace
<1>7. call.fn = f /\ call.began = now /\ now \in Int
  BY <1>1, <1>2 DEF Typed
<1>8. CASE ~ prof_observer(f)
  <2>1. UNCHANGED <<func_start_units, func_units, errors>>
    BY <1>8 DEF Begin, profVars
  <2>2. Typed'
    BY <1>1, <1>4, <1>5, <2>1 DEF Typed, IsUnitTable
  <2>3. \A t \in Fibers \X Nat : (IsOpen(t)' <=> IsOpen(t)) /\ Began'[t] = Began[t]
    BY <1>6, <1>7, <1>8
  <2>4. Balanced => Balanced'
    <3> SUFFICES ASSUME Balanced
                 PROVE  Balanced'
      OBVIOUS
    <3>1. Open' = Open /\ SumFunctionOnSet(Began', Open') = SumFunctionOnSet(Began, Open)
      BY <2>3, PlacesKept DEF Balanced
    <3> QED
      BY <1>4, <2>1, <3>1 DEF Balanced
  <2>5. (Counted => Counted') /\ (Calm' <=> Calm)
    BY <1>4, <2>1 DEF Counted, Calm
  <2> QED
    BY <2>2, <2>4, <2>5 DEF FInv
<1>9. CASE prof_observer(f) /\ UNCHANGED <<errors, func_units>>
           /\ func_start_units' = Append(func_start_units, now)
  <2>1. /\ func_start_units' \in Seq(Int)
        /\ Len(func_start_units') = Len(func_start_units) + 1
    BY <1>1, <1>7, <1>9, AppendLast DEF Typed
  <2>2. Typed'
    BY <1>1, <1>4, <1>5, <1>9, <2>1 DEF Typed, IsUnitTable
  <2>3. Balanced => Balanced'
    <3> SUFFICES ASSUME Balanced
                 PROVE  Balanced'
      OBVIOUS
    <3>1. IsOpen(s)' /\ Began'[s] = now
      BY <1>6, <1>7, <1>9
    <3>2. /\ IsFiniteSet(Open') /\ Cardinality(Open') = Cardinality(Open) + 1
          /\ SumFunctionOnSet(Began', Open') = Began'[s] + SumFunctionOnSet(Began, Open)
      BY <1>1, <1>6, <1>7, <3>1, PlaceAdded DEF Balanced
    <3>3. SeqTotal(func_start_units') = now + SeqTotal(func_start_units)
      BY <1>1, <1>7, <1>9, SeqTotalOfAppend DEF Typed
    <3>4. SumOf(Total(func_units))' = SumOf(Total(func_units)) /\ SumOf(ledger)' = SumOf(ledger)
      BY <1>4, <1>9
    <3> DEFINE a == SumOf(Total(func_units))
               b == SumFunctionOnSet(Began, Open)
               c == SumOf(ledger)
               d == SeqTotal(func_start_units)
    <3>5. a \in Int /\ b \in Int /\ c \in Int /\ d \in Int
      BY <1>1, SumsAreInts DEF Balanced
    <3>6. a + b = c + d
      BY DEF Balanced
    <3>7. a + (now + b) = c + (now + d)
      <4> HIDE DEF a, b, c, d
      <4> QED
        BY <1>7, <3>5, <3>6
    <3>8. Cardinality(Open') = Len(func_start_units')
      BY <2>1, <3>2 DEF Balanced
    <3> QED
      BY <3>1, <3>2, <3>3, <3>4, <3>7, <3>8 DEF Balanced
  <2>4. (Counted => Counted') /\ (Calm' <=> Calm)
    BY <1>4, <1>9 DEF Counted, Calm
  <2> QED
    BY <2>2, <2>3, <2>4 DEF FInv
<1>10. CASE prof_observer(f) /\ "clock" \in Faults /\ prof_add_warning
            /\ UNCHANGED <<func_start_units, func_units>>
  <2>1. errors' \in ErrorsType /\ ~ Calm'
    BY <1>1, <1>10, WarningAdded DEF Typed
  <2>2. Typed'
    BY <1>1, <1>4, <1>5, <1>10, <2>1 DEF Typed, IsUnitTable
  <2> QED
    BY <1>10, <2>1, <2>2 DEF FInv
<1> QED
  BY <1>8, <1>9, <1>10 DEF Begin, prof_observer_begin

\* A call ends, and with it perhaps its fiber.
LEMMA LeaveFInv == FInv /\ Leave => FInv'
<1> SUFFICES ASSUME FInv, Leave
             PROVE  FInv'
  OBVIOUS
<1>1. Typed
  BY DEF FInv
<1>2. PICK fiber \in Fibers : fiber = Last(chain)
  BY <1>1, FrontLast DEF Typed
<1>3. PICK call, s : call = Last(calls[fiber]) /\ s = <<fiber, Len(calls[fiber])>>
  OBVIOUS
<1> DEFINE x == get_function_name(call.fn)
<1>4. /\ calls[fiber] # << >> /\ calls' = [calls EXCEPT ![fiber] = Front(@)]
      /\ ledger' = Credited(ledger, call) /\ UNCHANGED now
  BY <1>2, <1>3 DEF Leave
<1>5. /\ s \in Fibers \X Nat /\ ~ IsOpen(s)' /\ call \in Call
      /\ IsOpen(s) <=> prof_observer(call.fn)
      /\ IsOpen(s) => Began[s] = call.began
      /\ ~ IsOpen(s) => Began'[s] = Began[s]
      /\ \A t \in (Fibers \X Nat) \ {s} :
           (IsOpen(t)' <=> IsOpen(t)) /\ Began'[t] = Began[t]
  <2>1. LeavesPlace(s, call)
    BY <1>1, <1>3, <1>4, PlaceOfEnd
  <2> QED
    BY <2>1 DEF LeavesPlace
<1>6. calls' \in [Fibers -> Seq(Call)]
  <2>1. Front(calls[fiber]) \in Seq(Call)
    BY <1>1, <1>4, FrontLast DEF Typed
  <2> QED
    BY <1>1, <1>4, <2>1 DEF Typed
<1>7. chain' \in Seq(Fibers) /\ chain' # << >>
  <2>1. CASE Len(chain) > 1
    <3>1. Front(chain) \in Seq(Fibers) /\ Len(Front(chain)) = Len(chain) - 1 /\ Len(chain) \in Nat
      BY <1>1, FrontLast DEF Typed
    <3>2. Front(chain) # << >>
      BY <2>1, <3>1
    <3> QED
      BY <1>1, <3>1, <3>2 DEF Leave, Typed
  <2>2. CASE ~ Len(chain) > 1
    BY <1>1, <2>2 DEF Leave, Typed
  <2> QED
    BY <2>1, <2>2
<1>8. /\ call.fn \in Functions /\ call.began \in Int /\ now \in Int
      /\ x \in Names
  BY <1>1, <1>5, NameOf DEF Call, Typed
<1>9. CASE ~ prof_observer(call.fn)
  <2>1. UNCHANGED <<func_start_units, func_units, errors, ledger>>
    BY <1>2, <1>3, <1>4, <1>9 DEF Leave, profVars, Credited
  <2>2. Typed'
    BY <1>1, <1>4, <1>6, <1>7, <2>1 DEF Typed, IsUnitTable
  <2>3. \A t \in Fibers \X Nat : (IsOpen(t)' <=> IsOpen(t)) /\ Began'[t] = Began[t]
    BY <1>5, <1>9
  <2>4. Balanced => Balanced'
    <3> SUFFICES ASSUME Balanced
                 PROVE  Balanced'
      OBVIOUS
    <3>1. Open' = Open /\ SumFunctionOnSet(Began', Open') = SumFunctionOnSet(Began, Open)
      BY <2>3, PlacesKept DEF Balanced
    <3> QED
      BY <2>1, <3>1 DEF Balanced
  <2>5. (Counted => Counted') /\ (Calm' <=> Calm)
    BY <2>1 DEF Counted, Calm
  <2> QED
    BY <2>2, <2>4, <2>5 DEF FInv
<1>10. ASSUME prof_observer(call.fn)
       PROVE  /\ ledger' \in [Names -> FuncUnit]
              /\ ledger'[x].wall = ledger[x].wall + (now - call.began)
              /\ ledger'[x].calls = ledger[x].calls + 1
              /\ \A m \in Names \ {x} : ledger'[m] = ledger[m]
  BY <1>1, <1>4, <1>5, <1>8, <1>10, CreditedCall DEF Typed
<1>11. CASE prof_observer(call.fn) /\ prof_add_warning
            /\ UNCHANGED <<func_start_units, func_units>>
            /\ ("clock" \in Faults \/ "name" \in Faults \/ func_start_units = << >>)
  <2>1. errors' \in ErrorsType /\ ~ Calm'
    BY <1>1, <1>11, WarningAdded DEF Typed
  <2>2. Typed'
    BY <1>1, <1>4, <1>6, <1>7, <1>10, <1>11, <2>1 DEF Typed, IsUnitTable
  <2>3. Faults \cap {"clock", "name"} # {}
    <3> SUFFICES ASSUME func_start_units = << >>, Calm
                 PROVE  FALSE
      BY <1>11 DEF FInv
    <3>1. s \in Open
      BY <1>5, <1>11 DEF Open
    <3>2. IsFiniteSet(Open) /\ Cardinality(Open) = 0
      BY DEF FInv, Balanced
    <3> QED
      BY <3>1, <3>2, FS_EmptySet
  <2> QED
    BY <2>1, <2>2, <2>3 DEF FInv
<1>12. CASE /\ prof_observer(call.fn) /\ UNCHANGED errors
            /\ func_start_units # << >> /\ func_start_units' = Front(func_start_units)
            /\ func_units' = Accumulate(func_units, x, now - Last(func_start_units))
  <2> DEFINE start == Last(func_start_units)
  <2>1. /\ func_start_units' \in Seq(Int) /\ start \in Int
        /\ Len(func_start_units') = Len(func_start_units) - 1
    BY <1>1, <1>12, FrontLast DEF Typed
  <2> HIDE DEF start
  <2>2. now - start \in Int /\ func_units' = Accumulate(func_units, x, now - start)
    BY <1>8, <1>12, <2>1 DEF start
  <2>3. /\ IsUnitTable(func_units')
        /\ Total(func_units')[x].wall = Total(func_units)[x].wall + (now - start)
        /\ Total(func_units')[x].calls = Total(func_units)[x].calls + 1
        /\ \A m \in Names \ {x} : Total(func_units')[m] = Total(func_units)[m]
    <3> DEFINE w == now - start
               u == func_units
    <3>1. w \in Int /\ x \in Names /\ IsUnitTable(u) /\ func_units' = Accumulate(u, x, w)
      BY <1>1, <1>8, <2>2 DEF Typed
    <3> HIDE DEF w, u, x
    <3>2. LET v == Accumulate(u, x, w)
          IN  /\ IsUnitTable(v)
              /\ Total(v)[x].wall = Total(u)[x].wall + w
              /\ Total(v)[x].calls = Total(u)[x].calls + 1
              /\ \A m \in Names \ {x} : Total(v)[m] = Total(u)[m]
      BY <3>1, Accumulated
    <3> QED
      BY <3>1, <3>2 DEF w, u
  <2>4. Typed'
    BY <1>1, <1>4, <1>6, <1>7, <1>10, <1>12, <2>1, <2>3 DEF Typed, IsUnitTable
  <2>5. Counted => Counted'
    <3> SUFFICES ASSUME Counted, NEW m \in Names
                 PROVE  Total(func_units')[m].calls = ledger'[m].calls
      BY DEF Counted
    <3> QED
      BY <1>10, <1>12, <2>3 DEF Counted
  <2>6. Balanced => Balanced'
    <3> SUFFICES ASSUME Balanced
                 PROVE  Balanced'
      OBVIOUS
    <3> DEFINE a == SumOf(Total(func_units))
               b == SumFunctionOnSet(Began, Open)
               c == SumOf(ledger)
               d == SeqTotal(func_start_units)
    <3>1. a \in Int /\ b \in Int /\ c \in Int /\ d \in Int
      BY <1>1, SumsAreInts DEF Balanced
    <3>2. a + b = c + d
      BY DEF Balanced
    <3>3. IsOpen(s) /\ Began[s] = call.began
      BY <1>5, <1>12
    <3>4. /\ IsFiniteSet(Open') /\ Cardinality(Open') = Cardinality(Open) - 1
          /\ SumFunctionOnSet(Began', Open') = b - call.began
      BY <1>1, <1>5, <3>3, PlaceRemoved DEF Balanced
    <3>5. SeqTotal(func_start_units') = d - start
      BY <1>1, <1>12, SeqTotalOfFront DEF Typed, start
    <3>6. SumOf(Total(func_units')) = a + (now - start)
      <4>1. \A m \in Names : Total(func_units)[m].wall \in Int
        BY <1>1, TotalType DEF Typed
      <4>2. \A m \in Names \ {x} : Total(func_units')[m].wall = Total(func_units)[m].wall
        BY <2>3
      <4> HIDE DEF x
      <4> QED
        BY <1>8, <2>2, <2>3, <4>1, <4>2, SumOfChange
    <3>7. SumOf(ledger') = c + (now - call.began)
      <4>1. \A m \in Names : ledger[m].wall \in Int
        BY <1>1 DEF Typed, FuncUnit
      <4>2. \A m \in Names \ {x} : ledger'[m].wall = ledger[m].wall
        BY <1>10, <1>12
      <4>3. now - call.began \in Int
        BY <1>8
      <4>4. ledger'[x].wall = ledger[x].wall + (now - call.began)
        BY <1>10, <1>12
      <4> HIDE DEF x
      <4> QED
        BY <1>8, <4>1, <4>2, <4>3, <4>4, SumOfChange
    <3>8. (a + (now - start)) + (b - call.began) = (c + (now - call.began)) + (d - start)
      <4> DEFINE k == call.began
      <4>1. k \in Int /\ start \in Int /\ now \in Int
        BY <1>8, <2>1
      <4> HIDE DEF a, b, c, d, k
      <4>2. (a + (now - start)) + (b - k) = (c + (now - k)) + (d - start)
        BY <3>1, <3>2, <4>1, StillBalanced
      <4> QED
        BY <4>2 DEF k
    <3>9. Cardinality(Open') = Len(func_start_units')
      BY <2>1, <3>4 DEF Balanced
    <3> QED
      BY <3>4, <3>5, <3>6, <3>7, <3>8, <3>9 DEF Balanced
  <2>7. Calm' <=> Calm
    BY <1>12 DEF Calm
  <2> QED
    BY <2>4, <2>5, <2>6, <2>7 DEF FInv
<1> QED
  <2> HIDE DEF x
  <2>1. prof_observer(call.fn) => prof_observer_end(call.fn)
    BY <1>2, <1>3 DEF Leave
  <2> QED
    BY <1>9, <1>11, <1>12, <2>1 DEF prof_observer_end, x

LEMMA NextFInv == FInv /\ [Next]_vars => FInv'
<1> SUFFICES ASSUME FInv, [Next]_vars
             PROVE  FInv'
  OBVIOUS
<1>1. Typed
  BY DEF FInv
<1>2. ASSUME UNCHANGED <<profVars, calls, ledger>>, now' \in Int,
             chain' \in Seq(Fibers), chain' # << >>
      PROVE  FInv'
  <2>1. UNCHANGED <<func_start_units, func_units, errors>>
    BY <1>2 DEF profVars
  <2>2. Typed'
    BY <1>1, <1>2, <2>1 DEF Typed, IsUnitTable
  <2>3. Open' = Open /\ Began' = Began
    BY <1>2 DEF Open, Began, IsOpen
  <2> QED
    BY <1>2, <2>1, <2>2, <2>3 DEF FInv, Calm, Counted, Balanced
<1>3. CASE Tick
  BY <1>1, <1>2, <1>3 DEF Tick, Typed
<1>4. CASE Suspend
  <2>1. Front(chain) \in Seq(Fibers) /\ Len(Front(chain)) = Len(chain) - 1 /\ Len(chain) \in Nat
    BY <1>1, FrontLast DEF Typed
  <2>2. Front(chain) # << >>
    BY <1>4, <2>1 DEF Suspend
  <2> QED
    BY <1>1, <1>2, <1>4, <2>1, <2>2 DEF Suspend, Typed
<1>5. CASE Rshutdown
  BY <1>1, <1>2, <1>5 DEF Rshutdown, Typed
<1>6. ASSUME NEW fiber \in Fibers, Resume(fiber)
      PROVE  FInv'
  <2>1. chain' = Append(chain, fiber) /\ UNCHANGED <<profVars, calls, now, ledger>>
    BY <1>6 DEF Resume
  <2>2. chain \in Seq(Fibers) /\ now \in Int
    BY <1>1 DEF Typed
  <2>3. chain' \in Seq(Fibers) /\ chain' # << >> /\ now' \in Int
    BY <2>1, <2>2, AppendLast
  <2> QED
    BY <1>2, <2>1, <2>3
<1>7. ASSUME NEW f \in Functions, Enter(f)
      PROVE  FInv'
  <2>1. Last(chain) \in Fibers
    BY <1>1, FrontLast DEF Typed
  <2> QED
    BY <1>1, <1>7, <2>1, BeginFInv DEF Enter, Typed
<1>8. ASSUME NEW fiber \in Fibers, NEW f \in Functions, Start(fiber, f)
      PROVE  FInv'
  <2>1. chain \in Seq(Fibers) /\ chain' = Append(chain, fiber)
    BY <1>1, <1>8 DEF Start, Typed
  <2>2. chain' \in Seq(Fibers) /\ chain' # << >>
    BY <2>1, AppendLast
  <2> QED
    BY <1>8, <2>2, BeginFInv DEF Start
<1>9. CASE UNCHANGED vars
  BY <1>1, <1>2, <1>9 DEF vars, Typed
<1> QED
  BY <1>3, <1>4, <1>5, <1>6, <1>7, <1>8, <1>9, LeaveFInv DEF Next

-----------------------------------------------------------------------------
(***************************************************************************)
(* Whatever fails, however fibers are interleaved: as long as the log is   *)
(* empty, as many readings are on the stack as observed calls in progress, *)
(* and the accounts balance (func.c:86-134).                               *)
(***************************************************************************)
THEOREM Inductive == Spec => []FInv
BY InitFInv, NextFInv, PTL DEF Spec

\* Where no reading fails, an end handler finds a start reading and credits
\* its own function with a call, in whatever order the calls of fibers end.
THEOREM CountsRight ==
  ASSUME Faults \cap {"clock", "name"} = {}
  PROVE  Spec => []CallsExact
<1>1. FInv => CallsExact
  BY DEF FInv, Calm, Counted, CallsExact
<1> QED
  BY <1>1, Inductive, PTL

\* Where no reading fails, calls of fibers that take each other's readings
\* leave the sum of all times as it is, and no reading on the stack.
THEOREM TimesConserved ==
  ASSUME Faults \cap {"clock", "name"} = {}
  PROVE  Spec => []TimeConserved
<1>1. FInv => TimeConserved
  <2> SUFFICES ASSUME FInv, Quiet
               PROVE  /\ func_start_units = << >>
                      /\ SumOf(Total(func_units)) = SumOf(ledger)
    BY DEF TimeConserved
  <2>1. Typed /\ Balanced
    BY DEF FInv
  <2>2. Open = {}
    BY QuietHasNoPlace
  <2>3. Len(func_start_units) = 0
    BY <2>1, <2>2, FS_EmptySet DEF Balanced
  <2>4. func_start_units = << >>
    BY <2>1, <2>3, EmptySeq DEF Typed
  <2>5. SumFunctionOnSet(Began, Open) = 0 /\ SeqTotal(func_start_units) = 0
    BY <2>2, <2>4, SumOfNone, NoReadings
  <2>6. SumOf(Total(func_units)) \in Int /\ SumOf(ledger) \in Int
    BY <2>1, SumsAreInts DEF Balanced
  <2> QED
    BY <2>1, <2>4, <2>5, <2>6 DEF Balanced
<1> QED
  BY <1>1, Inductive, PTL
=============================================================================
