------------------------- MODULE FuncProfilerProofs -------------------------
(***************************************************************************)
(* Theorems about FuncProfiler, for every set of functions, every set of   *)
(* faults and every bound.                                                 *)
(***************************************************************************)
EXTENDS FuncProfiler, DataTheorems, TLAPS

(***************************************************************************)
(* Facts about the operators the model is built from.                      *)
(***************************************************************************)

\* The empty tables and the empty ledger have the right types.
LEMMA EmptyTypes ==
  /\ IsUnitTable(NoUnits)
  /\ EmptyLedger \in [Names -> FuncUnit]
  /\ NoErrorTable \in ErrorsType /\ [live |-> TRUE, levels |-> {}] \in ErrorsType
BY DEF IsUnitTable, NoUnits, EmptyLedger, FuncUnit, NoErrorTable, ErrorsType

\* Accumulate keeps a table of units one.
LEMMA AccumulateType ==
  ASSUME NEW u, IsUnitTable(u), NEW n \in Names, NEW w \in Int
  PROVE  IsUnitTable(Accumulate(u, n, w))
<1>1. FindOrAdd(u, n) \in FuncUnit
  BY DEF IsUnitTable, FindOrAdd, FuncUnit
<1>2. [wall |-> FindOrAdd(u, n).wall + w, calls |-> FindOrAdd(u, n).calls + 1]
        \in FuncUnit
  BY <1>1 DEF FuncUnit
<1> QED
  BY <1>2 DEF IsUnitTable, Accumulate

\* Every function of the program has a name that is reported.
LEMMA NameOf ==
  ASSUME NEW f \in Functions
  PROVE  get_function_name(f) \in Names
BY DEF Names

\* Crediting a call keeps a ledger one.
LEMMA CreditedType ==
  ASSUME NEW l \in [Names -> FuncUnit], NEW call \in Frame, now \in Nat
  PROVE  Credited(l, call) \in [Names -> FuncUnit]
<1>1. call.fn \in Functions /\ call.began \in Nat
  BY DEF Frame
<1>2. CASE ~ prof_observer(call.fn)
  BY <1>2 DEF Credited
<1>3. CASE prof_observer(call.fn)
  <2> DEFINE n == get_function_name(call.fn)
             e == [wall |-> l[n].wall + (now - call.began),
                   calls |-> l[n].calls + 1]
  <2>1. n \in Names
    BY <1>1, NameOf
  <2>2. e \in FuncUnit
    BY <2>1, <1>1 DEF FuncUnit
  <2>3. Credited(l, call) = [l EXCEPT ![n] = e]
    BY <1>3 DEF Credited
  <2> QED
    BY <2>1, <2>2, <2>3
<1> QED
  BY <1>2, <1>3

-----------------------------------------------------------------------------
(***************************************************************************)
(* Type correctness, one step per action.                                  *)
(***************************************************************************)

\* The handlers keep the types of the variables they change.
LEMMA HandlerTypes ==
  ASSUME TypeOK, NEW f \in Functions,
         prof_observer_begin \/ prof_observer_end(f) \/ prof_observer_end_bails(f)
  PROVE  /\ func_start_units' \in Seq(Nat)
         /\ IsUnitTable(func_units)'
         /\ errors' \in ErrorsType
<1> DEFINE popped == /\ func_start_units # << >>
                     /\ func_start_units' = Front(func_start_units)
<1>1. prof_add_warning => errors' \in ErrorsType
  BY DEF TypeOK, prof_add_warning, prof_add_error_message, ErrorsType, ErrorLevels
<1>2. popped => func_start_units' \in Seq(Nat)
  BY FrontLast DEF TypeOK
<1>3. CASE prof_observer_begin
  <2>1. Append(func_start_units, now) \in Seq(Nat)
    BY AppendLast DEF TypeOK
  <2> QED
    BY <1>1, <1>3, <2>1 DEF prof_observer_begin, TypeOK, IsUnitTable
<1>4. CASE prof_observer_end(f)
  <2>1. CASE prof_add_warning /\ UNCHANGED <<func_start_units, func_units>>
    BY <1>1, <2>1 DEF TypeOK, IsUnitTable
  <2>2. CASE popped /\ UNCHANGED errors
             /\ func_units' = Accumulate(func_units, get_function_name(f),
                                         now - Last(func_start_units))
    <3>1. now \in Nat /\ Last(func_start_units) \in Nat
      BY <2>2, FrontLast DEF TypeOK
    <3>2. IsUnitTable(Accumulate(func_units, get_function_name(f),
                                 now - Last(func_start_units)))
      BY <3>1, NameOf, AccumulateType DEF TypeOK
    <3> QED
      BY <1>2, <2>2, <3>2 DEF TypeOK, IsUnitTable
  <2> QED
    BY <1>4, <2>1, <2>2 DEF prof_observer_end
<1>5. CASE prof_observer_end_bails(f)
  BY <1>2, <1>5 DEF prof_observer_end_bails, TypeOK, IsUnitTable
<1> QED
  BY <1>3, <1>4, <1>5

LEMMA InitTypeOK == Init => TypeOK
BY EmptyTypes
   DEF Init, TypeOK, NoErrorTable, ErrorsType, ErrorLevels, Phases, NoReport

LEMMA NextTypeOK == TypeOK /\ [Next]_vars => TypeOK'
<1> SUFFICES ASSUME TypeOK, [Next]_vars PROVE TypeOK'
  OBVIOUS
<1> USE DEF TypeOK, Phases
<1>a. /\ prof_init_errors => errors' \in ErrorsType
      /\ prof_shutdown_errors => errors' \in ErrorsType
  BY EmptyTypes DEF prof_init_errors, prof_shutdown_errors
<1>b. /\ prof_func_setup => func_start_units' \in Seq(Nat) /\ IsUnitTable(func_units)'
      /\ prof_func_teardown => func_start_units' \in Seq(Nat) /\ IsUnitTable(func_units)'
  <2>1. << >> \in Seq(Nat)
    BY EmptySeq
  <2> QED
    BY <2>1, EmptyTypes DEF prof_func_setup, prof_func_teardown, IsUnitTable
<1>c. UNCHANGED profVars => /\ func_start_units' \in Seq(Nat)
                            /\ IsUnitTable(func_units)'
                            /\ errors' \in ErrorsType
  BY DEF profVars, IsUnitTable
<1>d. UNCHANGED printed => printed'.kind \in {"none", "errors", "table"}
                           /\ IsUnitTable(printed.table)'
  BY DEF IsUnitTable
<1>e. ASSUME NEW fs \in Seq(Frame), Stop(fs)
      PROVE  /\ phase' \in Phases /\ frames' \in Seq(Frame)
             /\ now' \in Nat /\ requests' \in Nat
             /\ ledger' \in [Names -> FuncUnit] /\ UNCHANGED printed
  <2>1. << >> \in Seq(Frame)
    BY EmptySeq
  <2> QED
    BY <1>e, <2>1 DEF Stop
<1>1. CASE Rinit
  <2>1. func_start_units' \in Seq(Nat) /\ IsUnitTable(func_units)' /\ phase' \in Phases
    BY <1>1, <1>b DEF Rinit, IsUnitTable
  <2> QED
    BY <1>1, <1>a, <2>1, EmptyTypes DEF Rinit, NoReport, IsUnitTable
<1>2. CASE Tick
  BY <1>2, <1>c, <1>d DEF Tick
<1>3. CASE Leave
  <2>1. Last(frames) \in Frame /\ Front(frames) \in Seq(Frame)
    BY <1>3, FrontLast DEF Leave
  <2>2. Last(frames).fn \in Functions
    BY <2>1 DEF Frame
  <2>3. func_start_units' \in Seq(Nat) /\ IsUnitTable(func_units)' /\ errors' \in ErrorsType
    BY <1>3, <1>c, <2>2, HandlerTypes DEF Leave
  <2> QED
    BY <1>3, <1>d, <2>1, <2>3, CreditedType DEF Leave
<1>4. CASE Fatal
  BY <1>4, <1>c, <1>d, <1>e DEF Fatal
<1>5. CASE LeaveBails
  <2>1. Last(frames) \in Frame
    BY <1>5, FrontLast DEF LeaveBails
  <2>a. Last(frames).fn \in Functions
    BY <2>1 DEF Frame
  <2>2. func_start_units' \in Seq(Nat) /\ IsUnitTable(func_units)' /\ errors' \in ErrorsType
    BY <1>5, <2>a, HandlerTypes DEF LeaveBails
  <2> QED
    BY <1>5, <1>d, <1>e, <2>2 DEF LeaveBails
<1>6. CASE ScriptOver
  BY <1>6, <1>c, <1>d DEF ScriptOver
<1>7. CASE Rshutdown
  BY <1>7, <1>a, <1>b, EmptyTypes DEF Rshutdown, ErrorReport, IsUnitTable
<1>8. CASE RshutdownBails
  BY <1>8, <1>c, <1>d DEF RshutdownBails
<1>9. ASSUME NEW f \in Functions, Enter(f) PROVE TypeOK'
  <2>1. func_start_units' \in Seq(Nat) /\ IsUnitTable(func_units)' /\ errors' \in ErrorsType
    BY <1>9, <1>c, HandlerTypes DEF Enter
  <2>2. [fn |-> f, began |-> now, slot |-> Len(func_start_units')] \in Frame
    BY <2>1 DEF Frame
  <2> QED
    BY <1>9, <1>d, <2>1, <2>2, AppendLast DEF Enter
<1>10. ASSUME NEW f \in Functions, EnterBails(f) PROVE TypeOK'
  <2>1. [fn |-> f, began |-> now, slot |-> Len(func_start_units) + 1] \in Frame
    BY DEF Frame
  <2>2. Append(frames, [fn |-> f, began |-> now, slot |-> Len(func_start_units) + 1])
          \in Seq(Frame)
    BY <2>1, AppendLast
  <2>3. entered' \in Nat /\ UNCHANGED profVars
    BY <1>10 DEF EnterBails
  <2> QED
    BY <1>10, <1>c, <1>d, <1>e, <2>2, <2>3 DEF EnterBails
<1>11. CASE UNCHANGED vars
  BY <1>11, <1>c, <1>d DEF vars
<1> QED
  BY <1>1, <1>2, <1>3, <1>4, <1>5, <1>6, <1>7, <1>8, <1>9, <1>10, <1>11 DEF Next

\* Every variable keeps its type: the handlers and the engine never leave an
\* entry of func_units, or a start reading, that is not one.
THEOREM TypeCorrect == Spec => []TypeOK
BY InitTypeOK, NextTypeOK, PTL DEF Spec

-----------------------------------------------------------------------------
(***************************************************************************)
(* The inductive invariant.  StackMatchesCalls alone is not inductive: an  *)
(* end pops one reading, so the heights of the calls below must be known   *)
(* too, and a table that is one short must run out of readings before it   *)
(* runs out of calls, which holds because the outermost call of a script   *)
(* is the code of a file and has no reading.                               *)
(***************************************************************************)
Pushes(call) == IF prof_observer(call.fn) THEN 1 ELSE 0

\* Each call lies one higher than the one below it if it is observed, and as
\* high otherwise.
Heights ==
  /\ \A i \in 1..(Len(frames) - 1) :
       frames[i + 1].slot = frames[i].slot + Pushes(frames[i + 1])
  /\ \A i, j \in 1..Len(frames) : i <= j => frames[i].slot <= frames[j].slot

Grounded ==
  /\ phase \in {"running", "ending"} /\ frames # << >> =>
       frames[1].slot = 0 /\ ~ prof_observer(frames[1].fn)
  /\ phase = "running" /\ frames = << >> => func_start_units = << >>

\* What is recorded is what happened, while the stack is not one short.
Accounts == ~ OneShort => func_units = Recorded(ledger)

Faultless ==
  /\ phase = "ending" => Faults # {}
  /\ Faults = {} => errors.levels = {}

NothingForNothing == \A n \in Names : ledger[n].calls = 0 => ledger[n].wall = 0

IInv ==
  /\ TypeOK
  /\ StackMatchesCalls
  /\ Calm => Heights /\ Grounded /\ Accounts
  /\ Faultless
  /\ NothingForNothing
  /\ phase = "idle" => frames = << >>
  /\ phase \in {"running", "ending", "shutdown"} => printed.kind = "none"
  /\ PrintedIsTrue

\* Adding one measurement to what is recorded records one more call.
LEMMA RecordedCredit ==
  ASSUME NEW l \in [Names -> FuncUnit], NEW call \in Frame, now \in Nat,
         prof_observer(call.fn),
         \A n \in Names : l[n].calls = 0 => l[n].wall = 0
  PROVE  /\ Recorded(Credited(l, call)) =
              Accumulate(Recorded(l), get_function_name(call.fn), now - call.began)
         /\ \A n \in Names : Credited(l, call)[n].calls = 0
                              => Credited(l, call)[n].wall = 0
<1> DEFINE m == get_function_name(call.fn)
           w == now - call.began
           e == [wall |-> l[m].wall + w, calls |-> l[m].calls + 1]
           c == Credited(l, call)
           r == Recorded(l)
           a == Accumulate(r, m, w)
<1>1. m \in Names /\ w \in Int
  BY NameOf DEF Frame
<1>2. c = [l EXCEPT ![m] = e]
  BY DEF Credited
<1>3. \A n \in Names : l[n] \in FuncUnit /\ l[n].calls \in Nat /\ l[n].wall \in Int
  BY DEF FuncUnit
<1>4. e.calls > 0 /\ e.calls # 0
  BY <1>1, <1>3
<1>5. /\ c[m] = e
      /\ \A n \in Names \ {m} : c[n] = l[n]
  BY <1>1, <1>2
<1>6. DOMAIN r = {n \in Names : l[n].calls > 0}
      /\ \A n \in DOMAIN r : r[n] = l[n]
  BY DEF Recorded
<1>7. DOMAIN Recorded(c) = {n \in Names : c[n].calls > 0}
      /\ \A n \in DOMAIN Recorded(c) : Recorded(c)[n] = c[n]
  BY DEF Recorded
<1>8. DOMAIN Recorded(c) = DOMAIN r \cup {m}
  BY <1>1, <1>4, <1>5, <1>6, <1>7
<1>9. FindOrAdd(r, m).wall = l[m].wall /\ FindOrAdd(r, m).calls = l[m].calls
  <2>1. CASE l[m].calls > 0
    BY <1>1, <1>6, <2>1 DEF FindOrAdd
  <2>2. CASE ~ (l[m].calls > 0)
    <3>1. l[m].calls = 0 /\ l[m].wall = 0
      BY <1>1, <1>3, <2>2
    <3>2. m \notin DOMAIN r
      BY <1>6, <2>2
    <3> QED
      BY <3>1, <3>2 DEF FindOrAdd
  <2> QED
    BY <2>1, <2>2
<1>10. a = [n \in DOMAIN r \cup {m} |-> IF n = m THEN e ELSE r[n]]
  BY <1>9 DEF Accumulate
<1>11. Recorded(c) = [n \in DOMAIN r \cup {m} |-> IF n = m THEN e ELSE r[n]]
  <2>1. ASSUME NEW n \in DOMAIN r \cup {m}
        PROVE  Recorded(c)[n] = IF n = m THEN e ELSE r[n]
    BY <1>1, <1>5, <1>6, <1>7, <1>8, <2>1
  <2>2. Recorded(c) = [n \in DOMAIN Recorded(c) |-> Recorded(c)[n]]
    BY DEF Recorded
  <2> HIDE DEF c, r, e, m
  <2> QED
    BY <1>8, <2>1, <2>2
<1>12. \A n \in Names : c[n].calls = 0 => c[n].wall = 0
  BY <1>1, <1>4, <1>5
<1> QED
  BY <1>10, <1>11, <1>12

\* What IInv says of a calm state, in the form the steps use it.
LEMMA CalmFacts ==
  ASSUME IInv, Calm
  PROVE  /\ frames # << >> => \/ Len(func_start_units) = Last(frames).slot
                              \/ phase = "ending" /\ OneShort
         /\ ~ OneShort =>
              \A i \in 1..Len(frames) : prof_observer(frames[i].fn) =>
                /\ frames[i].slot \in 1..Len(func_start_units)
                /\ func_start_units[frames[i].slot] = frames[i].began
         /\ Heights /\ Grounded /\ Accounts
         /\ Len(func_start_units) \in Nat /\ Len(frames) \in Nat
         /\ \A i \in 1..Len(frames) : frames[i] \in Frame /\ frames[i].slot \in Nat
<1>1. /\ Len(func_start_units) \in Nat /\ Len(frames) \in Nat
      /\ DOMAIN frames = 1..Len(frames)
      /\ DOMAIN func_start_units = 1..Len(func_start_units)
  BY LenProperties DEF IInv, TypeOK
<1>2. ASSUME NEW i \in 1..Len(frames)
      PROVE  frames[i] \in Frame /\ frames[i].slot \in Nat
  <2>1. frames[i] \in Frame
    BY ElementOfSeq DEF IInv, TypeOK
  <2> QED
    BY <2>1 DEF Frame
<1> QED
  BY <1>1, <1>2 DEF IInv, StackMatchesCalls

\* The same facts about the primed state establish the calm part of IInv'.
LEMMA Calmly ==
  ASSUME TypeOK', ~ Calm' \/
         (/\ (frames # << >> => \/ Len(func_start_units) = Last(frames).slot
                                \/ phase = "ending" /\ OneShort)'
          /\ (~ OneShort =>
                \A i \in 1..Len(frames) : prof_observer(frames[i].fn) =>
                  /\ frames[i].slot \in 1..Len(func_start_units)
                  /\ func_start_units[frames[i].slot] = frames[i].began)'
          /\ (Heights /\ Grounded /\ Accounts)')
  PROVE  StackMatchesCalls' /\ (Calm => Heights /\ Grounded /\ Accounts)'
<1>1. /\ (DOMAIN frames = 1..Len(frames))'
      /\ (DOMAIN func_start_units = 1..Len(func_start_units))'
  BY LenProperties DEF TypeOK
<1> QED
  BY <1>1 DEF StackMatchesCalls

\* A warning ends the calm.
LEMMA Warned ==
  ASSUME TypeOK, prof_add_warning
  PROVE  ~ Calm'
BY DEF prof_add_warning, prof_add_error_message, Calm, TypeOK, ErrorsType

\* The end of a call, with one reading popped if the call is observed.
LEMMA LeaveCalm ==
  ASSUME IInv, Leave, TypeOK', Calm'
  PROVE  StackMatchesCalls' /\ (Calm => Heights /\ Grounded /\ Accounts)'
<1> DEFINE n == Len(frames)
           k == Len(func_start_units)
           call == Last(frames)
<1>1. TypeOK /\ Calm
  BY DEF Calm, Leave, IInv, prof_observer_end, profVars, prof_add_warning,
         prof_add_error_message, TypeOK, ErrorsType
<1>2. /\ n \in Nat \ {0} /\ call = frames[n] /\ call \in Frame
      /\ Len(frames') = n - 1
      /\ \A i \in 1..(n - 1) : frames'[i] = frames[i]
  BY <1>1, FrontLast DEF Leave, TypeOK
<1>3. phase' = phase
  BY DEF Leave
<1>4. (frames' = << >>) <=> (n = 1)
  <2>1. frames' \in Seq(Frame)
    BY DEF TypeOK
  <2> QED
    BY <1>2, <2>1, EmptySeq
<1>a. /\ \A i \in 1..(n - 1) : frames[i + 1].slot = frames[i].slot + Pushes(frames[i + 1])
      /\ \A i, j \in 1..n : i <= j => frames[i].slot <= frames[j].slot
  BY <1>1, CalmFacts DEF Heights
<1>5. n # 1 => /\ n - 1 \in 1..(n - 1) /\ Last(frames') = frames[n - 1]
               /\ frames[n].slot = frames[n - 1].slot + Pushes(frames[n])
  <2>1. n # 1 => n - 1 \in 1..(n - 1) /\ (n - 1) + 1 = n
    BY <1>2
  <2> QED
    BY <1>2, <1>a, <2>1 DEF Last
<1>6. \A i \in 1..n : frames[i] \in Frame /\ frames[i].slot \in Nat
  BY <1>1, CalmFacts
<1>7. k \in Nat
  BY <1>1, CalmFacts
<1>8. Heights'
  <2>1. \A i \in 1..(n - 2) : /\ i \in 1..(n - 1) /\ i + 1 \in 1..(n - 1)
    BY <1>2
  <2>2. \A i \in 1..(n - 2) :
          frames'[i + 1].slot = frames'[i].slot + Pushes(frames'[i + 1])
    BY <1>2, <1>a, <2>1
  <2>3. 1..(n - 1) \subseteq 1..n
    BY <1>2
  <2>4. \A i, j \in 1..(n - 1) : i <= j => frames'[i].slot <= frames'[j].slot
    BY <1>2, <1>a, <2>3
  <2>5. (Len(frames) - 1)' = n - 2
    BY <1>2
  <2> QED
    BY <1>2, <2>2, <2>4, <2>5 DEF Heights, Pushes
<1>9. /\ k = call.slot \/ (phase = "ending" /\ OneShort)
      /\ OneShort <=> k + 1 = call.slot
      /\ phase \in {"running", "ending"} => frames[1].slot = 0 /\ ~ prof_observer(frames[1].fn)
  <2>1. frames # << >>
    BY DEF Leave
  <2>2. Grounded
    BY <1>1, CalmFacts
  <2>3. Len(func_start_units) = Last(frames).slot \/ (phase = "ending" /\ OneShort)
    BY <1>1, <2>1, CalmFacts
  <2> QED
    BY <2>1, <2>2, <2>3 DEF Grounded, OneShort
<1>10. n = 1 => ~ OneShort
  BY <1>2, <1>7, <1>9
<1>11. ASSUME NEW p \in {0, 1}, p = Pushes(call), Len(func_start_units') = k - p
       PROVE  /\ OneShort' <=> OneShort
              /\ frames' # << >> => \/ Len(func_start_units') = Last(frames').slot
                                    \/ phase' = "ending" /\ OneShort'
  <2>1. CASE n = 1
    BY <1>4, <1>10, <2>1 DEF OneShort
  <2>2. CASE n # 1
    <3>1. /\ n - 1 \in 1..n /\ frames[n - 1].slot \in Nat
          /\ call.slot = frames[n - 1].slot + p
          /\ Last(frames') = frames[n - 1] /\ frames' # << >>
      BY <1>2, <1>4, <1>5, <1>6, <1>11, <2>2
    <3>2. OneShort' <=> k - p + 1 = frames[n - 1].slot
      BY <3>1, <1>11 DEF OneShort
    <3> HIDE DEF n, k, call
    <3>3. OneShort' <=> OneShort
      BY <1>7, <1>9, <3>1, <3>2
    <3> QED
      BY <1>3, <1>7, <1>9, <1>11, <3>1, <3>3
  <2> QED
    BY <2>1, <2>2
<1>12. CASE ~ prof_observer(call.fn)
  <2>1. UNCHANGED <<func_start_units, func_units, errors>> /\ ledger' = ledger
    BY <1>12 DEF Leave, profVars, Credited
  <2>2. Pushes(call) = 0 /\ Len(func_start_units') = k - 0
    BY <1>7, <1>12, <2>1 DEF Pushes
  <2>3. /\ OneShort' <=> OneShort
        /\ frames' # << >> => \/ Len(func_start_units') = Last(frames').slot
                              \/ phase' = "ending" /\ OneShort'
    BY <1>11, <2>2
  <2>4. Accounts'
    BY <1>1, <2>1, <2>3, CalmFacts DEF Accounts, Recorded
  <2>5. Grounded'
    <3>1. n = 1 /\ phase = "running" => func_start_units = << >>
      BY <1>1, <1>2, <1>7, <1>9, EmptySeq DEF TypeOK
    <3>2. n # 1 => frames'[1] = frames[1]
      BY <1>2
    <3> QED
      BY <1>3, <1>4, <1>9, <2>1, <3>1, <3>2 DEF Grounded
  <2>6. ~ OneShort' => \A i \in 1..Len(frames') : prof_observer(frames'[i].fn) =>
          /\ frames'[i].slot \in 1..Len(func_start_units')
          /\ func_start_units'[frames'[i].slot] = frames'[i].began
    <3>1. \A i \in 1..(n - 1) : i \in 1..n
      BY <1>2
    <3> QED
      BY <1>1, <1>2, <2>1, <2>3, <3>1, CalmFacts
  <2> QED
    BY <1>8, <2>3, <2>4, <2>5, <2>6, Calmly DEF prof_observer
<1>13. CASE prof_observer(call.fn)
  <2>1. /\ func_start_units # << >>
        /\ func_start_units' = Front(func_start_units)
        /\ func_units' = Accumulate(func_units, get_function_name(call.fn),
                                    now - Last(func_start_units))
        /\ ledger' = Credited(ledger, call)
    BY <1>1, <1>13, Warned DEF Leave, prof_observer_end
  <2>2. /\ Len(func_start_units') = k - 1 /\ k \in Nat \ {0}
        /\ Last(func_start_units) = func_start_units[k]
        /\ \A i \in 1..(k - 1) : func_start_units'[i] = func_start_units[i]
    BY <1>1, <2>1, FrontLast DEF TypeOK
  <2>3. /\ OneShort' <=> OneShort
        /\ frames' # << >> => \/ Len(func_start_units') = Last(frames').slot
                              \/ phase' = "ending" /\ OneShort'
    BY <1>11, <1>13, <2>2 DEF Pushes
  <2>4. ~ OneShort => k = call.slot /\ func_start_units[k] = call.began
    <3>1. n \in 1..n
      BY <1>2
    <3> QED
      BY <1>1, <1>2, <1>9, <1>13, <3>1, CalmFacts
  <2>5. Accounts'
    <3> SUFFICES ASSUME ~ OneShort' PROVE (func_units = Recorded(ledger))'
      BY DEF Accounts
    <3>1. func_units = Recorded(ledger) /\ Last(func_start_units) = call.began
      BY <1>1, <2>2, <2>3, <2>4, CalmFacts DEF Accounts
    <3>2. Recorded(Credited(ledger, call)) =
            Accumulate(Recorded(ledger), get_function_name(call.fn), now - call.began)
      BY <1>1, <1>2, <1>13, RecordedCredit DEF IInv, TypeOK, NothingForNothing
    <3> QED
      BY <2>1, <3>1, <3>2 DEF Recorded, Names
  <2>6. Grounded'
    <3>1. n = 1 => phase = "shutdown"
      BY <1>1, <1>2, <1>9, <1>13 DEF Calm
    <3>2. n # 1 => frames'[1] = frames[1]
      BY <1>2
    <3> QED
      BY <1>3, <1>4, <1>9, <3>1, <3>2 DEF Grounded, prof_observer
  <2>7. ASSUME ~ OneShort', NEW i \in 1..Len(frames'), prof_observer(frames'[i].fn)
        PROVE  /\ frames'[i].slot \in 1..Len(func_start_units')
               /\ func_start_units'[frames'[i].slot] = frames'[i].began
    <3>1. /\ i \in 1..n /\ i \in 1..(n - 1) /\ n - 1 \in 1..n
          /\ i <= n - 1 /\ n # 1 /\ frames'[i] = frames[i]
      BY <1>2, <2>7
    <3>2. /\ frames[i].slot \in 1..k
          /\ func_start_units[frames[i].slot] = frames[i].began
      BY <1>1, <2>3, <2>7, <3>1, CalmFacts
    <3>3. frames[i].slot <= frames[n - 1].slot
      BY <1>a, <3>1
    <3>4. call.slot = frames[n - 1].slot + 1 /\ frames[n - 1].slot \in Nat
      BY <1>2, <1>5, <1>6, <1>13, <3>1 DEF Pushes
    <3>5. k = call.slot
      BY <2>3, <2>4, <2>7
    <3>6. frames[i].slot \in 1..(k - 1)
      BY <3>2, <3>3, <3>4, <3>5, <1>7
    <3> QED
      BY <2>2, <3>1, <3>2, <3>6
  <2> QED
    BY <1>8, <2>3, <2>5, <2>6, <2>7, Calmly DEF prof_observer
<1> QED
  BY <1>12, <1>13

\* A new innermost call at the right height keeps the heights.
LEMMA HeightsAppend ==
  ASSUME IInv, Calm, NEW call \in Frame, frames' = Append(frames, call),
         frames # << >> => call.slot = Last(frames).slot + Pushes(call)
  PROVE  Heights'
<1> DEFINE n == Len(frames)
<1>1. /\ n \in Nat /\ frames \in Seq(Frame)
      /\ \A i \in 1..n : frames[i].slot \in Nat
  BY CalmFacts DEF IInv, TypeOK
<1>2. /\ Len(frames') = n + 1
      /\ \A i \in 1..n : frames'[i] = frames[i]
      /\ frames'[n + 1] = call
  BY <1>1, AppendLast
<1>3. /\ \A i \in 1..(n - 1) : frames[i + 1].slot = frames[i].slot + Pushes(frames[i + 1])
      /\ \A i, j \in 1..n : i <= j => frames[i].slot <= frames[j].slot
  BY CalmFacts DEF Heights
<1>4. n # 0 => /\ n \in 1..n /\ frames # << >> /\ Last(frames) = frames[n]
  BY <1>1 DEF Last
<1>5. call.slot \in Nat /\ Pushes(call) \in {0, 1}
  BY DEF Frame, Pushes
<1>6. ASSUME NEW i \in 1..n
      PROVE  frames'[i + 1].slot = frames'[i].slot + Pushes(frames'[i + 1])
  <2>1. CASE i = n
    BY <1>1, <1>2, <1>4, <2>1
  <2>2. CASE i # n
    <3>1. i \in 1..(n - 1) /\ i + 1 \in 1..n
      BY <1>1, <2>2
    <3> QED
      BY <1>2, <1>3, <3>1
  <2> QED
    BY <2>1, <2>2
<1>7. ASSUME NEW i \in 1..(n + 1), NEW j \in 1..(n + 1), i <= j
      PROVE  frames'[i].slot <= frames'[j].slot
  <2>1. CASE i = n + 1
    <3>1. j = n + 1
      BY <1>1, <1>7, <2>1
    <3> QED
      BY <1>2, <1>5, <2>1, <3>1
  <2>2. CASE i # n + 1 /\ j = n + 1
    <3>1. i \in 1..n /\ n \in 1..n /\ i <= n /\ n # 0
      BY <1>1, <2>2
    <3>2. frames[i].slot <= frames[n].slot /\ frames[n].slot \in Nat /\ frames[i].slot \in Nat
      BY <1>1, <1>3, <3>1
    <3>3. call.slot = frames[n].slot + Pushes(call)
      BY <1>4, <3>1
    <3> QED
      BY <1>2, <1>5, <2>2, <3>1, <3>2, <3>3
  <2>3. CASE j # n + 1
    <3>1. i \in 1..n /\ j \in 1..n
      BY <1>1, <1>7, <2>3
    <3> QED
      BY <1>2, <1>3, <1>7, <3>1
  <2> QED
    BY <2>1, <2>2, <2>3
<1>8. (Len(frames) - 1)' = n
  BY <1>1, <1>2
<1> QED
  BY <1>2, <1>6, <1>7, <1>8 DEF Heights, Pushes

\* Outside the ending phase the stack is never one short.
LEMMA NotShort ==
  ASSUME IInv, Calm, phase # "ending"
  PROVE  ~ OneShort /\ (frames # << >> => Len(func_start_units) = Last(frames).slot)
<1>1. frames # << >> => Len(func_start_units) = Last(frames).slot
  BY CalmFacts
<1>2. Len(func_start_units) \in Nat
  BY CalmFacts
<1> QED
  BY <1>1, <1>2 DEF OneShort

\* The start of a call, with one reading pushed if the call is observed.
LEMMA EnterCalm ==
  ASSUME IInv, NEW f \in Functions, Enter(f), TypeOK', Calm'
  PROVE  StackMatchesCalls' /\ (Calm => Heights /\ Grounded /\ Accounts)'
<1> DEFINE n == Len(frames)
           k == Len(func_start_units)
           call == [fn |-> f, began |-> now, slot |-> Len(func_start_units')]
<1>1. /\ TypeOK /\ phase' = phase /\ phase \in {"running", "shutdown"}
      /\ frames' = Append(frames, call) /\ ledger' = ledger
      /\ (frames = << >> => (prof_observer(f) <=> phase = "shutdown"))
  BY DEF IInv, Enter, MayEnter
<1>2. IF prof_observer(f)
      THEN /\ func_start_units' = Append(func_start_units, now)
           /\ UNCHANGED <<errors, func_units>>
      ELSE UNCHANGED <<func_start_units, errors, func_units>>
  BY <1>1, Warned DEF Enter, prof_observer_begin, profVars
<1>3. Calm
  BY <1>1, <1>2 DEF Calm
<1>4. ~ OneShort /\ (frames # << >> => k = Last(frames).slot)
  BY <1>1, <1>3, NotShort
<1>5. n \in Nat /\ k \in Nat /\ now \in Nat
  BY <1>1, <1>3, CalmFacts DEF TypeOK
<1>6. /\ Len(func_start_units') = k + Pushes(call) /\ call \in Frame
      /\ \A i \in 1..k : func_start_units'[i] = func_start_units[i]
      /\ prof_observer(f) => func_start_units'[k + 1] = now
  <2>1. CASE prof_observer(f)
    <3>1. func_start_units \in Seq(Nat)
      BY <1>1 DEF TypeOK
    <3> QED
      <4>1. /\ func_start_units' = Append(func_start_units, now) /\ now \in Nat
            /\ Pushes(call) = 1 /\ call \in Frame
        BY <1>2, <1>5, <2>1 DEF Pushes, Frame
      <4> QED
        BY <1>5, <3>1, <4>1, AppendLast
  <2>2. CASE ~ prof_observer(f)
    BY <1>2, <1>5, <2>2 DEF Pushes, Frame
  <2> QED
    BY <2>1, <2>2
<1>7. /\ Len(frames') = n + 1 /\ frames' # << >> /\ Last(frames') = call
      /\ \A i \in 1..n : frames'[i] = frames[i]
      /\ frames'[n + 1] = call
  BY <1>1, <1>6, AppendLast DEF TypeOK
<1>8. Heights'
  BY <1>1, <1>3, <1>4, <1>6, HeightsAppend
<1>9. Len(func_start_units') = Last(frames').slot /\ ~ OneShort'
  <2>1. call.slot \in Nat
    BY <1>6 DEF Frame
  <2> QED
    BY <1>6, <1>7, <2>1 DEF OneShort
<1>10. Accounts'
  BY <1>1, <1>2, <1>3, <1>4, CalmFacts
     DEF Accounts, Recorded, Names, prof_observer_begin
<1>11. Grounded'
  <2>1. CASE n = 0
    <3>1. frames = << >>
      BY <1>1, <2>1, EmptySeq DEF TypeOK
    <3>2. phase = "running" => func_start_units = << >> /\ ~ prof_observer(f)
      BY <1>1, <1>3, <3>1, CalmFacts DEF Grounded
    <3>3. frames'[1] = call /\ (phase = "running" => k = 0 /\ Pushes(call) = 0)
      BY <1>7, <2>1, <3>2 DEF Pushes
    <3> QED
      BY <1>1, <1>6, <1>7, <3>2, <3>3 DEF Grounded, prof_observer
  <2>2. CASE n # 0
    <3>1. frames # << >> /\ frames'[1] = frames[1]
      BY <1>5, <1>7, <2>2
    <3> QED
      BY <1>1, <1>3, <1>7, <3>1, CalmFacts DEF Grounded, prof_observer
  <2> QED
    BY <2>1, <2>2
<1>12. ASSUME NEW i \in 1..Len(frames'), prof_observer(frames'[i].fn)
       PROVE  /\ frames'[i].slot \in 1..Len(func_start_units')
              /\ func_start_units'[frames'[i].slot] = frames'[i].began
  <2>1. CASE i \in 1..n
    <3>1. /\ frames'[i] = frames[i] /\ frames[i].slot \in 1..k
          /\ func_start_units[frames[i].slot] = frames[i].began
      BY <1>3, <1>4, <1>7, <1>12, <2>1, CalmFacts
    <3>2. k <= Len(func_start_units')
      BY <1>5, <1>6 DEF Pushes
    <3> QED
      BY <1>5, <1>6, <3>1, <3>2
  <2>2. CASE i = n + 1
    <3>1. frames'[i] = call /\ prof_observer(f) /\ Pushes(call) = 1
      BY <1>7, <1>12, <2>2 DEF Pushes
    <3> QED
      BY <1>5, <1>6, <3>1
  <2> QED
    BY <1>5, <1>7, <2>1, <2>2
<1> QED
  BY <1>8, <1>9, <1>10, <1>11, <1>12, Calmly DEF prof_observer

\* A bailout in the shutdown phase drops the calls.
LEMMA DroppedCalm ==
  ASSUME IInv, Calm, TypeOK', phase = "shutdown", phase' = phase,
         frames' = << >>, UNCHANGED <<func_units, ledger>>
  PROVE  StackMatchesCalls' /\ (Calm => Heights /\ Grounded /\ Accounts)'
<1>1. Accounts'
  BY NotShort, CalmFacts DEF Accounts, Recorded
<1> QED
  BY <1>1, Calmly DEF Heights, Grounded

\* A bailout anywhere else: the calls stay, the one it hit may be one short.
LEMMA FatalCalm ==
  ASSUME IInv, Fatal, TypeOK', Calm'
  PROVE  StackMatchesCalls' /\ (Calm => Heights /\ Grounded /\ Accounts)'
<1>1. /\ UNCHANGED <<func_start_units, func_units, errors, ledger>>
      /\ frames # << >> /\ Calm
      /\ \/ phase = "running" /\ phase' = "ending" /\ frames' = frames
         \/ phase = "shutdown" /\ phase' = phase /\ frames' = << >>
  BY DEF Fatal, Stop, Calm, profVars
<1>2. CASE phase = "running"
  <2>1. frames' = frames /\ ~ OneShort /\ Len(func_start_units) = Last(frames).slot
    BY <1>1, <1>2, NotShort
  <2>2. ~ OneShort' /\ Heights' /\ Accounts'
    BY <1>1, <2>1, CalmFacts DEF OneShort, Heights, Accounts, Recorded, Pushes
  <2>3. Grounded'
    BY <1>1, <1>2, <2>1, CalmFacts DEF Grounded
  <2> QED
    BY <1>1, <2>1, <2>2, <2>3, Calmly, CalmFacts
<1>3. CASE phase = "shutdown"
  BY <1>1, <1>3, DroppedCalm
<1> QED
  BY <1>1, <1>2, <1>3

LEMMA EnterBailsCalm ==
  ASSUME IInv, NEW f \in Functions, EnterBails(f), TypeOK', Calm'
  PROVE  StackMatchesCalls' /\ (Calm => Heights /\ Grounded /\ Accounts)'
<1> DEFINE call == [fn |-> f, began |-> now, slot |-> Len(func_start_units) + 1]
<1>1. /\ UNCHANGED <<func_start_units, func_units, errors, ledger>>
      /\ prof_observer(f) /\ Calm
      /\ \/ /\ phase = "running" /\ phase' = "ending"
            /\ frames' = Append(frames, call) /\ frames # << >>
         \/ phase = "shutdown" /\ phase' = phase /\ frames' = << >>
  BY DEF EnterBails, MayEnter, Stop, Calm, profVars
<1>2. CASE phase = "running"
  <2>1. /\ frames' = Append(frames, call) /\ frames # << >> /\ phase' = "ending"
        /\ Len(func_start_units) = Last(frames).slot
    BY <1>1, <1>2, NotShort
  <2>2. call \in Frame /\ Pushes(call) = 1
    BY <1>1, CalmFacts DEF Frame, IInv, TypeOK, Pushes
  <2>3. Heights'
    BY <1>1, <2>1, <2>2, HeightsAppend
  <2>4. OneShort' /\ frames'[1] = frames[1] /\ frames' # << >>
    <3>1. /\ Last(frames') = call /\ frames' # << >>
          /\ \A i \in 1..Len(frames) : frames'[i] = frames[i]
      BY <2>1, <2>2, AppendLast DEF IInv, TypeOK
    <3>2. 1 \in 1..Len(frames)
      BY <2>1, EmptySeq DEF IInv, TypeOK
    <3> QED
      BY <1>1, <3>1, <3>2 DEF OneShort
  <2>5. Grounded' /\ Accounts'
    BY <1>1, <1>2, <2>1, <2>4, CalmFacts DEF Grounded, Accounts
  <2> QED
    BY <2>1, <2>3, <2>4, <2>5, Calmly
<1>3. CASE phase = "shutdown"
  BY <1>1, <1>3, DroppedCalm
<1> QED
  BY <1>1, <1>2, <1>3

LEMMA LeaveBailsCalm ==
  ASSUME IInv, LeaveBails, TypeOK', Calm'
  PROVE  StackMatchesCalls' /\ (Calm => Heights /\ Grounded /\ Accounts)'
<1>1. /\ UNCHANGED <<func_units, errors, ledger>>
      /\ func_start_units' = Front(func_start_units) /\ func_start_units # << >>
      /\ frames # << >> /\ Calm
      /\ \/ phase = "running" /\ phase' = "ending" /\ frames' = frames
         \/ phase = "shutdown" /\ phase' = phase /\ frames' = << >>
  BY DEF LeaveBails, prof_observer_end_bails, Stop, Calm, profVars
<1>2. CASE phase = "running"
  <2>1. frames' = frames /\ Len(func_start_units) = Last(frames).slot
    BY <1>1, <1>2, NotShort
  <2>2. Len(func_start_units') = Len(func_start_units) - 1
        /\ Len(func_start_units) \in Nat
    BY <1>1, FrontLast DEF IInv, TypeOK
  <2>3. OneShort'
    BY <1>1, <2>1, <2>2 DEF OneShort
  <2>4. Heights' /\ Grounded' /\ Accounts'
    BY <1>1, <1>2, <2>1, <2>3, CalmFacts DEF Heights, Grounded, Accounts, Pushes
  <2> QED
    BY <1>1, <1>2, <2>3, <2>4, Calmly
<1>3. CASE phase = "shutdown"
  BY <1>1, <1>3, DroppedCalm
<1> QED
  BY <1>1, <1>2, <1>3

\* A step that only lets time pass, or ends the script, keeps the calm facts.
LEMMA StillCalm ==
  ASSUME IInv, TypeOK', Calm',
         UNCHANGED <<func_start_units, func_units, errors, frames, ledger>>,
         \/ phase' = phase
         \/ phase \in {"running", "ending"} /\ phase' = "shutdown" /\ frames = << >>
  PROVE  StackMatchesCalls' /\ (Calm => Heights /\ Grounded /\ Accounts)'
<1>1. Calm
  BY DEF Calm
<1>2. (OneShort' <=> OneShort) /\ Heights' /\ Accounts'
  BY <1>1, CalmFacts DEF OneShort, Heights, Accounts, Recorded, Pushes
<1>3. Grounded'
  BY <1>1, CalmFacts DEF Grounded
<1>4. frames' # << >> => \/ Len(func_start_units') = Last(frames').slot
                         \/ phase' = "ending" /\ OneShort'
  BY <1>1, <1>2, CalmFacts
<1> QED
  BY <1>1, <1>2, <1>3, <1>4, Calmly, CalmFacts

-----------------------------------------------------------------------------
(***************************************************************************)
(* The parts of IInv that are not about the stack.                         *)
(***************************************************************************)

LEMMA InitIInv == Init => IInv
<1> SUFFICES ASSUME Init PROVE IInv
  OBVIOUS
<1>1. TypeOK
  BY InitTypeOK
<1>2. ~ Calm /\ phase = "idle" /\ frames = << >> /\ printed.kind = "none"
  BY DEF Init, Calm, NoReport
<1>3. Faultless
  BY DEF Init, Faultless, NoErrorTable
<1>4. NothingForNothing
  BY DEF Init, NothingForNothing, EmptyLedger
<1> QED
  BY <1>1, <1>2, <1>3, <1>4 DEF IInv, StackMatchesCalls, PrintedIsTrue

\* Where nothing fails, an end handler finds a start reading.
LEMMA EndFindsStart ==
  ASSUME IInv, Leave, Faults = {}, prof_observer(Last(frames).fn)
  PROVE  func_start_units # << >>
<1>1. Calm /\ phase # "ending" /\ frames # << >>
  BY DEF IInv, Faultless, Leave, Calm
<1>2. Len(frames) \in 1..Len(frames) /\ Last(frames) = frames[Len(frames)]
  <2>1. Len(frames) \in Nat \ {0} /\ Last(frames) = frames[Len(frames)]
    BY <1>1, FrontLast DEF IInv, TypeOK
  <2> QED
    BY <2>1
<1>3. frames[Len(frames)].slot \in 1..Len(func_start_units)
  BY <1>1, <1>2, NotShort, CalmFacts
<1>4. Len(func_start_units) # 0
  BY <1>1, <1>3, CalmFacts
<1> QED
  BY <1>4, EmptySeq

LEMMA FaultlessKept == IInv /\ Next => Faultless'
<1> SUFFICES ASSUME IInv, Next PROVE Faultless'
  OBVIOUS
<1>1. TypeOK /\ Faultless
  BY DEF IInv
<1>2. ASSUME NEW fs, Stop(fs), UNCHANGED errors PROVE Faultless'
  BY <1>1, <1>2 DEF Stop, Faultless
<1>3. ASSUME UNCHANGED profVars, phase' # "ending" \/ phase' = phase PROVE Faultless'
  BY <1>1, <1>3 DEF Faultless, profVars
<1>4. CASE Rinit
  BY <1>4 DEF Rinit, prof_init_errors, Faultless
<1>5. CASE Tick
  BY <1>3, <1>5 DEF Tick
<1>6. CASE Leave
  <2>1. phase' = phase
    BY <1>6 DEF Leave
  <2>2. CASE prof_observer(Last(frames).fn)
    <3>1. Faults = {} => UNCHANGED errors
      BY <1>6, <2>2, EndFindsStart DEF Leave, prof_observer_end
    <3> QED
      BY <1>1, <2>1, <3>1 DEF Faultless
  <2>3. CASE ~ prof_observer(Last(frames).fn)
    BY <1>3, <1>6, <2>1, <2>3 DEF Leave
  <2> QED
    BY <2>2, <2>3
<1>7. CASE Fatal
  BY <1>2, <1>7 DEF Fatal, profVars
<1>8. CASE LeaveBails
  BY <1>2, <1>8 DEF LeaveBails, prof_observer_end_bails
<1>9. CASE ScriptOver
  BY <1>3, <1>9 DEF ScriptOver
<1>10. CASE Rshutdown
  BY <1>10 DEF Rshutdown, prof_shutdown_errors, NoErrorTable, Faultless
<1>11. CASE RshutdownBails
  BY <1>3, <1>11 DEF RshutdownBails
<1>12. ASSUME NEW f \in Functions, Enter(f) PROVE Faultless'
  <2>1. phase' = phase /\ (Faults = {} => UNCHANGED errors)
    BY <1>12 DEF Enter, prof_observer_begin, profVars
  <2> QED
    BY <1>1, <2>1 DEF Faultless
<1>13. ASSUME NEW f \in Functions, EnterBails(f) PROVE Faultless'
  BY <1>2, <1>13 DEF EnterBails, profVars
<1> QED
  BY <1>4, <1>5, <1>6, <1>7, <1>8, <1>9, <1>10, <1>11, <1>12, <1>13 DEF Next

LEMMA LedgerKept == IInv /\ Next => NothingForNothing'
<1> SUFFICES ASSUME IInv, Next PROVE NothingForNothing'
  OBVIOUS
<1>1. TypeOK /\ NothingForNothing
  BY DEF IInv
<1>2. CASE Rinit
  BY <1>2 DEF Rinit, EmptyLedger, NothingForNothing, Names
<1>3. CASE Leave
  <2>1. Last(frames) \in Frame /\ now \in Nat
    BY <1>1, <1>3, FrontLast DEF Leave, TypeOK
  <2>2. \A n \in Names : Credited(ledger, Last(frames))[n].calls = 0
                         => Credited(ledger, Last(frames))[n].wall = 0
    <3>1. CASE prof_observer(Last(frames).fn)
      BY <1>1, <2>1, <3>1, RecordedCredit DEF TypeOK, NothingForNothing
    <3>2. CASE ~ prof_observer(Last(frames).fn)
      BY <1>1, <3>2 DEF Credited, NothingForNothing
    <3> QED
      BY <3>1, <3>2
  <2> QED
    BY <1>3, <2>2 DEF Leave, NothingForNothing, Names
<1>4. CASE UNCHANGED ledger
  BY <1>1, <1>4 DEF NothingForNothing, Names
<1> QED
  BY <1>2, <1>3, <1>4
     DEF Next, Tick, Fatal, LeaveBails, ScriptOver, Rshutdown, RshutdownBails,
         Enter, EnterBails, Stop

LEMMA PhasesKept ==
  ASSUME IInv, Next
  PROVE  /\ (phase = "idle" => frames = << >>)'
         /\ (phase \in {"running", "ending", "shutdown"} => printed.kind = "none")'
<1>1. /\ phase = "idle" => frames = << >>
      /\ phase \in {"running", "ending", "shutdown"} => printed.kind = "none"
  BY DEF IInv
<1>2. ASSUME NEW fs, Stop(fs), phase \in {"running", "ending", "shutdown"}
      PROVE  /\ (phase = "idle" => frames = << >>)'
             /\ (phase \in {"running", "ending", "shutdown"} => printed.kind = "none")'
  BY <1>1, <1>2 DEF Stop
<1>3. CASE Rinit
  BY <1>1, <1>3 DEF Rinit, NoReport
<1>4. CASE Fatal
  BY <1>2, <1>4 DEF Fatal, Stop
<1>5. CASE LeaveBails
  BY <1>2, <1>5 DEF LeaveBails, Stop
<1>6. ASSUME NEW f \in Functions, EnterBails(f)
      PROVE  /\ (phase = "idle" => frames = << >>)'
             /\ (phase \in {"running", "ending", "shutdown"} => printed.kind = "none")'
  BY <1>2, <1>6 DEF EnterBails, Stop
<1>7. CASE Tick \/ Leave \/ ScriptOver \/ \E f \in Functions : Enter(f)
  BY <1>1, <1>7 DEF Tick, Leave, ScriptOver, Enter, MayEnter
<1>8. CASE Rshutdown \/ RshutdownBails
  BY <1>1, <1>8 DEF Rshutdown, RshutdownBails
<1> QED
  BY <1>3, <1>4, <1>5, <1>6, <1>7, <1>8 DEF Next

LEMMA PrintedKept == IInv /\ Next => PrintedIsTrue'
<1> SUFFICES ASSUME IInv, Next PROVE PrintedIsTrue'
  OBVIOUS
<1>1. CASE Rinit
  BY <1>1 DEF Rinit, NoReport, PrintedIsTrue
<1>2. CASE Leave
  BY <1>2 DEF IInv, Leave, PrintedIsTrue
<1>3. CASE Rshutdown
  <2>1. CASE prof_has_errors
    BY <1>3, <2>1 DEF Rshutdown, ErrorReport, PrintedIsTrue
  <2>2. CASE ~ prof_has_errors
    <3>1. Calm /\ phase # "ending" /\ frames = << >>
      BY <1>3, <2>2 DEF Rshutdown, prof_has_errors, Calm
    <3>2. func_units = Recorded(ledger)
      BY <3>1, NotShort, CalmFacts DEF Accounts
    <3> QED
      BY <1>3, <2>2, <3>2 DEF Rshutdown, PrintedIsTrue, Recorded, Names
  <2> QED
    BY <2>1, <2>2
<1>4. CASE UNCHANGED <<ledger, printed>>
  BY <1>4 DEF IInv, PrintedIsTrue, Recorded, Names
<1> QED
  BY <1>1, <1>2, <1>3, <1>4
     DEF Next, Tick, Fatal, LeaveBails, ScriptOver, RshutdownBails,
         Enter, EnterBails, Stop

-----------------------------------------------------------------------------
(***************************************************************************)
(* The invariant, and what follows from it.                                *)
(***************************************************************************)

LEMMA CalmKept ==
  ASSUME IInv, Next, TypeOK'
  PROVE  StackMatchesCalls' /\ (Calm => Heights /\ Grounded /\ Accounts)'
<1>1. CASE ~ Calm'
  BY <1>1 DEF StackMatchesCalls
<1>2. CASE Calm'
  <2>1. CASE Rinit
    <3>1. frames = << >> /\ frames' = << >> /\ phase' = "running"
      BY <1>2, <2>1 DEF IInv, Rinit, Calm
    <3>2. func_start_units' = << >> /\ func_units' = NoUnits /\ ledger' = EmptyLedger
      BY <1>2, <2>1 DEF Rinit, Calm, prof_func_setup
    <3>3. Recorded(EmptyLedger) = NoUnits
      BY DEF Recorded, EmptyLedger, NoUnits
    <3>4. Accounts'
      BY <3>2, <3>3 DEF Accounts, Recorded, Names, EmptyLedger
    <3>5. Heights' /\ Grounded'
      BY <3>1, <3>2 DEF Heights, Grounded
    <3> QED
      BY <3>1, <3>4, <3>5, Calmly
  <2>2. CASE Tick
    BY <1>2, <2>2, StillCalm DEF Tick, profVars
  <2>3. CASE Leave
    BY <1>2, <2>3, LeaveCalm
  <2>4. CASE Fatal
    BY <1>2, <2>4, FatalCalm
  <2>5. CASE LeaveBails
    BY <1>2, <2>5, LeaveBailsCalm
  <2>6. CASE ScriptOver
    BY <1>2, <2>6, StillCalm DEF ScriptOver, profVars
  <2>7. CASE Rshutdown \/ RshutdownBails
    BY <1>2, <2>7 DEF Rshutdown, RshutdownBails, Calm
  <2>8. ASSUME NEW f \in Functions, Enter(f) \/ EnterBails(f)
        PROVE  StackMatchesCalls' /\ (Calm => Heights /\ Grounded /\ Accounts)'
    BY <1>2, <2>8, EnterCalm, EnterBailsCalm
  <2> QED
    BY <2>1, <2>2, <2>3, <2>4, <2>5, <2>6, <2>7, <2>8 DEF Next
<1> QED
  BY <1>1, <1>2

LEMMA NextIInv == IInv /\ [Next]_vars => IInv'
<1> SUFFICES ASSUME IInv, [Next]_vars PROVE IInv'
  OBVIOUS
<1>1. TypeOK'
  BY NextTypeOK DEF IInv
<1>2. CASE Next
  BY <1>1, <1>2, CalmKept, FaultlessKept, LedgerKept, PhasesKept, PrintedKept DEF IInv
<1>3. CASE UNCHANGED vars
  <2>1. /\ UNCHANGED <<func_start_units, func_units, errors, phase, frames, ledger, printed>>
    BY <1>3 DEF vars, profVars
  <2>2. StackMatchesCalls' /\ (Calm => Heights /\ Grounded /\ Accounts)'
    <3>1. CASE Calm'
      BY <1>1, <2>1, <3>1, StillCalm
    <3>2. CASE ~ Calm'
      BY <3>2 DEF StackMatchesCalls
    <3> QED
      BY <3>1, <3>2
  <2>3. Faultless' /\ NothingForNothing' /\ PrintedIsTrue'
    BY <2>1 DEF IInv, Faultless, NothingForNothing, PrintedIsTrue, Recorded, Names
  <2> QED
    BY <1>1, <2>1, <2>2, <2>3 DEF IInv
<1> QED
  BY <1>2, <1>3

\* The inductive invariant holds of every behaviour.
THEOREM Inductive == Spec => []IInv
BY InitIInv, NextIInv, PTL DEF Spec

\* A profile that is printed has exactly the calls that were completed, and
\* the time they took, whatever failed during the request: a wrong measurement
\* never gets past the error log that PHP_RSHUTDOWN looks at (prof.c:88).
THEOREM PrintedTrue == Spec => []PrintedIsTrue
<1>1. IInv => PrintedIsTrue
  BY DEF IInv
<1> QED
  BY <1>1, Inductive, PTL

\* While the log is empty every observed call in progress finds its own start
\* reading, or a bailout has left the stack one reading short.
THEOREM StackCorrect == Spec => []StackMatchesCalls
<1>1. IInv => StackMatchesCalls
  BY DEF IInv
<1> QED
  BY <1>1, Inductive, PTL

\* Where nothing fails the log stays empty and no profile is withheld.
THEOREM NeverWithheld == Spec => []NothingWithheld
<1>1. IInv => NothingWithheld
  BY DEF IInv, Faultless, NothingWithheld
<1> QED
  BY <1>1, Inductive, PTL

-----------------------------------------------------------------------------
(***************************************************************************)
(* FuncProfiler implements FuncLedger: the open calls are the frames       *)
(* without their heights, and a table stands for the ledger it records.    *)
(***************************************************************************)
OpenCall == [fn : Functions, began : Nat]

LEMMA OpenSeq ==
  ASSUME NEW fs \in Seq(Frame)
  PROVE  /\ Open(fs) \in Seq(OpenCall) /\ Len(Open(fs)) = Len(fs)
         /\ Len(fs) \in Nat
         /\ \A i \in 1..Len(fs) : Open(fs)[i] = [fn |-> fs[i].fn, began |-> fs[i].began]
<1>1. Len(fs) \in Nat /\ DOMAIN fs = 1..Len(fs)
  BY LenProperties
<1>2. ASSUME NEW i \in 1..Len(fs)
      PROVE  [fn |-> fs[i].fn, began |-> fs[i].began] \in OpenCall
  <2>1. fs[i] \in Frame
    BY ElementOfSeq
  <2> QED
    BY <2>1 DEF Frame, OpenCall
<1>3. Open(fs) = [i \in 1..Len(fs) |-> [fn |-> fs[i].fn, began |-> fs[i].began]]
  BY <1>1 DEF Open
<1>4. Open(fs) \in [1..Len(fs) -> OpenCall]
  BY <1>2, <1>3
<1>5. Open(fs) \in Seq(OpenCall)
  BY <1>1, <1>4, SeqDef
<1>6. Len(Open(fs)) = Len(fs)
  BY <1>1, <1>4, <1>5, LenProperties
<1> QED
  BY <1>1, <1>3, <1>5, <1>6

LEMMA OpenEmpty == Open(<< >>) = << >>
<1>1. << >> \in Seq(Frame) /\ Len(<< >>) = 0
  BY EmptySeq
<1>2. Open(<< >>) \in Seq(OpenCall) /\ Len(Open(<< >>)) = 0
  BY <1>1, OpenSeq
<1> QED
  BY <1>2, EmptySeq

LEMMA OpenAppend ==
  ASSUME NEW fs \in Seq(Frame), NEW call \in Frame
  PROVE  Open(Append(fs, call)) = Append(Open(fs), [fn |-> call.fn, began |-> call.began])
<1> DEFINE c == [fn |-> call.fn, began |-> call.began]
           s == Open(Append(fs, call))
           t == Append(Open(fs), c)
<1>1. c \in OpenCall
  BY DEF Frame, OpenCall
<1>2. /\ Append(fs, call) \in Seq(Frame) /\ Len(Append(fs, call)) = Len(fs) + 1
      /\ \A i \in 1..Len(fs) : Append(fs, call)[i] = fs[i]
      /\ Append(fs, call)[Len(fs) + 1] = call
  BY AppendLast
<1>3. /\ Open(fs) \in Seq(OpenCall) /\ Len(Open(fs)) = Len(fs) /\ Len(fs) \in Nat
      /\ \A i \in 1..Len(fs) : Open(fs)[i] = [fn |-> fs[i].fn, began |-> fs[i].began]
  BY OpenSeq
<1>4. /\ s \in Seq(OpenCall) /\ Len(s) = Len(fs) + 1
      /\ \A i \in 1..(Len(fs) + 1) :
           s[i] = [fn |-> Append(fs, call)[i].fn, began |-> Append(fs, call)[i].began]
  BY <1>2, OpenSeq
<1>5. /\ t \in Seq(OpenCall) /\ Len(t) = Len(fs) + 1
      /\ \A i \in 1..Len(fs) : t[i] = Open(fs)[i]
      /\ t[Len(fs) + 1] = c
  BY <1>1, <1>3, AppendLast
<1>6. ASSUME NEW i \in 1..(Len(fs) + 1) PROVE s[i] = t[i]
  <2>1. CASE i = Len(fs) + 1
    BY <1>2, <1>4, <1>5, <2>1
  <2>2. CASE i # Len(fs) + 1
    <3>1. i \in 1..Len(fs)
      BY <1>3, <2>2
    <3> QED
      BY <1>2, <1>3, <1>4, <1>5, <3>1
  <2> QED
    BY <2>1, <2>2
<1> QED
  BY <1>4, <1>5, <1>6, SeqEqual

LEMMA OpenFront ==
  ASSUME NEW fs \in Seq(Frame), fs # << >>
  PROVE  /\ Open(fs) # << >> /\ Open(Front(fs)) = Front(Open(fs))
         /\ Last(Open(fs)) = [fn |-> Last(fs).fn, began |-> Last(fs).began]
<1> DEFINE n == Len(fs)
<1>1. /\ n \in Nat \ {0} /\ Last(fs) = fs[n] /\ Front(fs) \in Seq(Frame)
      /\ Len(Front(fs)) = n - 1 /\ \A i \in 1..(n - 1) : Front(fs)[i] = fs[i]
  BY FrontLast
<1>2. /\ Open(fs) \in Seq(OpenCall) /\ Len(Open(fs)) = n
      /\ \A i \in 1..n : Open(fs)[i] = [fn |-> fs[i].fn, began |-> fs[i].began]
  BY OpenSeq
<1>3. Open(fs) # << >>
  BY <1>1, <1>2, EmptySeq
<1>4. /\ Last(Open(fs)) = Open(fs)[n] /\ Front(Open(fs)) \in Seq(OpenCall)
      /\ Len(Front(Open(fs))) = n - 1
      /\ \A i \in 1..(n - 1) : Front(Open(fs))[i] = Open(fs)[i]
  BY <1>2, <1>3, FrontLast
<1>5. /\ Open(Front(fs)) \in Seq(OpenCall) /\ Len(Open(Front(fs))) = n - 1
      /\ \A i \in 1..(n - 1) : Open(Front(fs))[i] =
           [fn |-> Front(fs)[i].fn, began |-> Front(fs)[i].began]
  BY <1>1, OpenSeq
<1>6. n \in 1..n /\ \A i \in 1..(n - 1) : i \in 1..n
  BY <1>1
<1>7. \A i \in 1..(n - 1) : Open(Front(fs))[i] = Front(Open(fs))[i]
  BY <1>1, <1>2, <1>4, <1>5, <1>6
<1>8. Open(Front(fs)) = Front(Open(fs))
  BY <1>4, <1>5, <1>7, SeqEqual
<1> QED
  BY <1>1, <1>2, <1>3, <1>4, <1>6, <1>8

\* The two modules agree on names and on how a call is credited.
LEMMA SameNames ==
  /\ Ledger!Zero = EmptyLedger
  /\ \A f : Ledger!get_function_name(f) = get_function_name(f)
  /\ \A f : Ledger!Reported(f) <=> prof_observer(f)
<1>1. \A f : Ledger!get_function_name(f) = get_function_name(f)
  BY DEF Ledger!get_function_name, get_function_name, Ledger!Main, Main,
         Ledger!get_function_or_method_name, get_function_or_method_name
<1>2. Ledger!LedgerNames = Names
  BY <1>1 DEF Ledger!LedgerNames, Names
<1>3. Ledger!Zero = EmptyLedger
  BY <1>2 DEF Ledger!Zero, EmptyLedger
<1>4. \A f : Ledger!Reported(f) <=> prof_observer(f)
  BY DEF Ledger!Reported, prof_observer
<1> QED
  BY <1>1, <1>3, <1>4

LEMMA SameCredit ==
  ASSUME NEW l, NEW call
  PROVE  Ledger!Credit(l, [fn |-> call.fn, began |-> call.began], now) = Credited(l, call)
BY SameNames DEF Ledger!Credit, Credited

\* A recorded ledger, read back, is the ledger.
LEMMA TotalRecorded ==
  ASSUME NEW l \in [Names -> FuncUnit],
         \A n \in Names : l[n].calls = 0 => l[n].wall = 0
  PROVE  Total(Recorded(l)) = l
<1>1. ASSUME NEW n \in Names PROVE FindOrAdd(Recorded(l), n) = l[n]
  <2>1. l[n] = [wall |-> l[n].wall, calls |-> l[n].calls] /\ l[n].calls \in Nat
    BY DEF FuncUnit
  <2>2. CASE l[n].calls > 0
    BY <2>2 DEF FindOrAdd, Recorded
  <2>3. CASE ~ (l[n].calls > 0)
    <3>1. l[n].calls = 0 /\ l[n].wall = 0
      BY <2>1, <2>3
    <3>2. n \notin DOMAIN Recorded(l)
      BY <2>3 DEF Recorded
    <3> QED
      BY <2>1, <3>1, <3>2 DEF FindOrAdd
  <2> QED
    BY <2>2, <2>3
<1> QED
  BY <1>1 DEF Total

LEMMA TotalNothing == Total(NoUnits) = EmptyLedger
BY DEF Total, NoUnits, FindOrAdd, EmptyLedger

LEMMA InitRefines == Init => Ledger!Init
BY OpenEmpty, SameNames, TotalNothing
   DEF Init, Ledger!Init, Ledger!NoReport, NoReport

LEMMA NextRefines == IInv /\ [Next]_vars => [Ledger!Next]_Ledger!vars
<1> SUFFICES ASSUME IInv, [Next]_vars PROVE [Ledger!Next]_Ledger!vars
  OBVIOUS
<1> DEFINE open == Open(frames)
           report == [kind |-> printed.kind, table |-> Total(printed.table)]
<1>1. /\ TypeOK /\ frames \in Seq(Frame) /\ now \in Nat
      /\ phase = "idle" => frames = << >>
  BY DEF IInv, TypeOK
<1>2. UNCHANGED printed => report' = report
  BY DEF Total, Names
<1>3. UNCHANGED frames => open' = open
  OBVIOUS
<1>4. UNCHANGED <<now, frames, ledger, printed>> => UNCHANGED Ledger!vars
  BY <1>2, <1>3 DEF Ledger!vars
<1>5. frames' = << >> /\ UNCHANGED <<now, ledger, printed>> => Ledger!Abandon
  BY <1>2, OpenEmpty DEF Ledger!Abandon
<1>6. ASSUME NEW f \in Functions, NEW slot \in Nat,
             frames' = Append(frames, [fn |-> f, began |-> now, slot |-> slot]),
             UNCHANGED <<now, ledger, printed>>
      PROVE  Ledger!Enter(f)
  <2>1. [fn |-> f, began |-> now, slot |-> slot] \in Frame
    BY <1>1 DEF Frame
  <2>2. open' = Append(open, [fn |-> f, began |-> now])
    BY <1>1, <1>6, <2>1, OpenAppend
  <2> QED
    BY <1>2, <1>6, <2>2 DEF Ledger!Enter
<1>7. ASSUME NEW fs, Stop(fs), fs = frames
      PROVE  [Ledger!Next]_Ledger!vars
  BY <1>4, <1>5, <1>7 DEF Stop, Ledger!Next
<1>8. CASE Rinit
  <2>1. open = << >> /\ open' = open
    BY <1>1, <1>8, OpenEmpty DEF Rinit
  <2>2. report' = Ledger!NoReport /\ ledger' = Ledger!Zero
    <3>1. EmptyLedger' = EmptyLedger /\ Total(NoUnits)' = Total(NoUnits)
      BY DEF EmptyLedger, Names, Total, NoUnits, FindOrAdd
    <3> QED
      BY <1>8, <3>1, TotalNothing, SameNames
         DEF Rinit, NoReport, Ledger!NoReport, Total, Names
  <2> QED
    BY <1>8, <2>1, <2>2 DEF Rinit, Ledger!Begin, Ledger!Next
<1>9. CASE Tick
  BY <1>2, <1>3, <1>9 DEF Tick, Ledger!Tick, Ledger!Next
<1>10. CASE Leave
  <2>1. frames # << >> /\ frames' = Front(frames) /\ ledger' = Credited(ledger, Last(frames))
        /\ UNCHANGED <<now, printed>>
    BY <1>10 DEF Leave
  <2>2. /\ open # << >> /\ open' = Front(open)
        /\ Last(open) = [fn |-> Last(frames).fn, began |-> Last(frames).began]
    BY <1>1, <2>1, OpenFront
  <2>3. ledger' = Ledger!Credit(ledger, Last(open), now)
    BY <2>1, <2>2, SameCredit
  <2> QED
    BY <1>2, <2>1, <2>2, <2>3
       DEF Ledger!Leave, Ledger!Next, Ledger!Last, Ledger!Front, Last, Front
<1>11. CASE Fatal
  BY <1>7, <1>11 DEF Fatal
<1>12. CASE LeaveBails
  BY <1>7, <1>12 DEF LeaveBails
<1>13. CASE ScriptOver \/ RshutdownBails
  BY <1>4, <1>13 DEF ScriptOver, RshutdownBails
<1>14. CASE Rshutdown
  <2>1. open = << >> /\ open' = open
    BY <1>14, OpenEmpty DEF Rshutdown
  <2>2. report' \in {Ledger!ErrorReport, [kind |-> "table", table |-> ledger]}
    <3>1. CASE prof_has_errors
      <4>1. printed' = ErrorReport
        BY <1>14, <3>1 DEF Rshutdown
      <4>2. Total(printed.table)' = EmptyLedger
        BY <4>1, TotalNothing DEF ErrorReport, Total, Names
      <4> QED
        BY <4>1, <4>2, SameNames DEF ErrorReport, Ledger!ErrorReport
    <3>2. CASE ~ prof_has_errors
      <4>1. printed' = [kind |-> "table", table |-> func_units] /\ ledger' = ledger
        BY <1>14, <3>2 DEF Rshutdown
      <4>2. func_units = Recorded(ledger)
        <5>1. PrintedIsTrue'
          BY <1>14, PrintedKept DEF Next
        <5> QED
          BY <4>1, <5>1 DEF PrintedIsTrue, Recorded, Names
      <4>3. Total(func_units) = ledger
        BY <4>2, TotalRecorded DEF IInv, TypeOK, NothingForNothing
      <4>4. Total(printed.table)' = ledger
        BY <4>1, <4>3 DEF Total, Names
      <4> QED
        BY <4>1, <4>4
    <3> QED
      BY <3>1, <3>2
  <2> QED
    BY <1>14, <2>1, <2>2 DEF Rshutdown, Ledger!Report, Ledger!Next
<1>15. ASSUME NEW f \in Functions, Enter(f) PROVE [Ledger!Next]_Ledger!vars
  <2>1. func_start_units' \in Seq(Nat)
    BY NextTypeOK DEF IInv, TypeOK
  <2>2. Len(func_start_units') \in Nat
    BY <2>1, LenProperties
  <2> QED
    BY <1>6, <1>15, <2>2 DEF Enter, Ledger!Next
<1>16. ASSUME NEW f \in Functions, EnterBails(f) PROVE [Ledger!Next]_Ledger!vars
  <2> DEFINE slot == Len(func_start_units) + 1
  <2>1. slot \in Nat
    BY <1>1, LenProperties DEF TypeOK
  <2>2. \/ frames' = Append(frames, [fn |-> f, began |-> now, slot |-> slot])
        \/ frames' = << >>
    BY <1>16 DEF EnterBails, MayEnter, Stop
  <2>3. UNCHANGED <<now, ledger, printed>>
    BY <1>16 DEF EnterBails, Stop
  <2> HIDE DEF slot
  <2> QED
    BY <1>5, <1>6, <2>1, <2>2, <2>3 DEF Ledger!Next
<1>17. CASE UNCHANGED vars
  BY <1>4, <1>17 DEF vars
<1> QED
  BY <1>8, <1>9, <1>10, <1>11, <1>12, <1>13, <1>14, <1>15, <1>16, <1>17 DEF Next

\* Func mode implements the ledger: a call is credited with its own time when
\* it ends, and a request prints exactly the ledger or no figures at all.
THEOREM Refinement == Spec => LedgerSpec
BY Inductive, InitRefines, NextRefines, PTL DEF Spec, LedgerSpec, Ledger!Spec
=============================================================================
