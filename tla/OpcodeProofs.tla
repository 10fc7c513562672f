---------------------------- MODULE OpcodeProofs ----------------------------
(***************************************************************************)
(* Theorems about OpcodeProfiler, for every set of files, with any lines,  *)
(* every set of faults and every bound.                                    *)
(***************************************************************************)
EXTENDS OpcodeProfiler, FiniteSetTheorems, TLAPS

(***************************************************************************)
(* The handler never remembers a time of the future, so that what it       *)
(* records is not negative; and it has tables of files that were entered.  *)
(***************************************************************************)
TInv ==
  /\ TypeOK
  /\ opcode_last_time <= now /\ DOMAIN opcode_timings \subseteq Files

(***************************************************************************)
(* In the first request of a process with one file: as long as nothing is  *)
(* in the log, nor should be, the handler remembers the line that runs,    *)
(* and its tables hold the visits that are over.                           *)
(***************************************************************************)
Follows ==
  /\ opcode_last_file = visit.file /\ opcode_last_lineno = visit.line
  /\ visit # NoVisit => visit.file \in Files /\ opcode_last_time = visit.since
  /\ took = Rows(opcode_timings)

FInv ==
  /\ requests = 0 =>
       /\ phase = "idle" /\ printed = NoReport
       /\ opcode_last_file = NULL /\ opcode_last_lineno = 0
  /\ requests = 1 =>
       /\ phase = "running" =>
            printed = NoReport /\ (errors.levels = {} /\ ~ unlogged => Follows)
       /\ ~ unlogged =>
            /\ printed.kind = "table" => printed.rows = AboveThreshold(took)
            /\ phase = "lost" => took = Nothing \/ printed.kind = "errors"

IInv == TInv /\ (Cardinality(Files) = 1 => FInv)

-----------------------------------------------------------------------------
\* There are no rows without tables.
LEMMA NoRows == Rows(Nothing) = Nothing
BY DEF Rows, Nothing

\* The time of a line in the table of a file is a row of the report.
LEMMA RowsOfUpdate ==
  ASSUME NEW timings, NEW file, NEW line, NEW time
  PROVE  LET lines == IF file \in DOMAIN timings THEN timings[file] ELSE Nothing
         IN  Rows(Update(timings, file, Update(lines, line, time)))
               = Update(Rows(timings), <<file, line>>, time)
<1> DEFINE lines == IF file \in DOMAIN timings THEN timings[file] ELSE Nothing
           more == Update(lines, line, time)
           after == Update(timings, file, more)
           Pairs(t) == UNION {{f} \X DOMAIN t[f] : f \in DOMAIN t}
<1>1. /\ DOMAIN more = DOMAIN lines \cup {line} /\ more[line] = time
      /\ \A l \in DOMAIN lines \ {line} : more[l] = lines[l]
  BY DEF Update
<1>2. /\ DOMAIN after = DOMAIN timings \cup {file} /\ after[file] = more
      /\ \A f \in DOMAIN timings \ {file} : after[f] = timings[f]
  BY DEF Update
<1>3. file \notin DOMAIN timings => DOMAIN lines = {}
  BY DEF Nothing
<1>4. file \in DOMAIN timings => lines = timings[file]
  OBVIOUS
<1> HIDE DEF after, more, lines
<1>5. ASSUME NEW x
      PROVE  x \in Pairs(after) <=> x \in Pairs(timings) \cup {<<file, line>>}
  <2>1. x \in Pairs(after) <=> \E f \in DOMAIN after : x \in {f} \X DOMAIN after[f]
    OBVIOUS
  <2>2. x \in Pairs(timings) <=> \E f \in DOMAIN timings : x \in {f} \X DOMAIN timings[f]
    OBVIOUS
  <2>3. x \in {file} \X DOMAIN more <=>
          x \in {file} \X DOMAIN lines \/ x = <<file, line>>
    BY <1>1
  <2> QED
    BY <1>2, <1>3, <1>4, <2>1, <2>2, <2>3
<1>6. Pairs(after) = Pairs(timings) \cup {<<file, line>>}
  BY <1>5
<1>7. ASSUME NEW x \in Pairs(after)
      PROVE  after[x[1]][x[2]] = IF x = <<file, line>> THEN time ELSE timings[x[1]][x[2]]
  <2>1. PICK f \in DOMAIN after : x \in {f} \X DOMAIN after[f]
    OBVIOUS
  <2>2. x = <<x[1], x[2]>> /\ x[1] = f /\ x[2] \in DOMAIN after[f]
    BY <2>1
  <2>3. CASE f # file
    BY <1>2, <2>1, <2>2, <2>3
  <2>4. CASE f = file
    BY <1>1, <1>2, <1>3, <1>4, <2>2, <2>4
  <2> QED
    BY <2>3, <2>4
<1>8. Rows(after) = [x \in Pairs(after) |-> after[x[1]][x[2]]]
      /\ Rows(timings) = [x \in Pairs(timings) |-> timings[x[1]][x[2]]]
  BY DEF Rows
<1> HIDE DEF Pairs
<1>9. Rows(after) = Update(Rows(timings), <<file, line>>, time)
  BY <1>6, <1>7, <1>8 DEF Update
<1> QED
  BY <1>9 DEF after, more, lines

\* The table of a file, without any time yet, is no row.
LEMMA RowsOfNewFile ==
  ASSUME NEW timings, NEW file, file \notin DOMAIN timings
  PROVE  Rows(Update(timings, file, Nothing)) = Rows(timings)
<1> DEFINE after == Update(timings, file, Nothing)
           Pairs(t) == UNION {{f} \X DOMAIN t[f] : f \in DOMAIN t}
<1>1. /\ DOMAIN after = DOMAIN timings \cup {file} /\ after[file] = Nothing
      /\ \A f \in DOMAIN timings : after[f] = timings[f]
  BY DEF Update
<1>2. DOMAIN Nothing = {}
  BY DEF Nothing
<1> HIDE DEF after
<1>3. Pairs(after) = Pairs(timings)
  <2> SUFFICES ASSUME NEW x
               PROVE  x \in Pairs(after) <=> x \in Pairs(timings)
    OBVIOUS
  <2> QED
    BY <1>1, <1>2
<1>4. \A x \in Pairs(timings) : after[x[1]][x[2]] = timings[x[1]][x[2]]
  <2> SUFFICES ASSUME NEW f \in DOMAIN timings, NEW x \in {f} \X DOMAIN timings[f]
               PROVE  after[x[1]][x[2]] = timings[x[1]][x[2]]
    OBVIOUS
  <2> QED
    BY <1>1
<1>5. Rows(after) = [x \in Pairs(after) |-> after[x[1]][x[2]]]
      /\ Rows(timings) = [x \in Pairs(timings) |-> timings[x[1]][x[2]]]
  BY DEF Rows
<1> HIDE DEF Pairs
<1>6. Rows(after) = Rows(timings)
  BY <1>3, <1>4, <1>5
<1> QED
  BY <1>6 DEF after

\* A file whose table is empty gives no row, so that with one file there is
\* none at all.
LEMMA HalfMadeIsEmpty ==
  ASSUME NEW F, Files = {F}, DOMAIN opcode_timings \subseteq Files, HalfMade
  PROVE  Rows(opcode_timings) = Nothing
<1>1. DOMAIN opcode_timings = {F} /\ opcode_timings[F] = Nothing
  BY DEF HalfMade
<1>2. UNION {{file} \X DOMAIN opcode_timings[file] : file \in DOMAIN opcode_timings} = {}
  BY <1>1 DEF Nothing
<1> QED
  BY <1>2 DEF Rows, Nothing

-----------------------------------------------------------------------------
LEMMA InitTInv == Init => TInv
BY NoRows DEF Init, TInv, TypeOK, NoErrorTable, ErrorsType, Nothing

\* Adding an entry keeps the log, and makes it one with entries.
LEMMA AddWarning ==
  ASSUME errors \in ErrorsType, prof_add_warning
  PROVE  errors' \in ErrorsType /\ errors'.levels # {}
BY DEF prof_add_warning, prof_add_error_message, ErrorsType, ErrorLevels

\* What Record does to the rows.
LEMMA RecordAddsRow ==
  ASSUME NEW file, NEW line, NEW time, Record(file, line, time)
  PROVE  /\ Rows(opcode_timings') = Update(Rows(opcode_timings),
              <<file, opcode_last_lineno>>, time - opcode_last_time)
         /\ DOMAIN opcode_timings' = DOMAIN opcode_timings \cup {file}
<1> DEFINE lines == IF file \in DOMAIN opcode_timings THEN opcode_timings[file] ELSE Nothing
           row == Update(lines, opcode_last_lineno, time - opcode_last_time)
<1>1. opcode_timings' = Update(opcode_timings, file, row)
  BY DEF Record
<1>2. Rows(Update(opcode_timings, file, row))
        = Update(Rows(opcode_timings), <<file, opcode_last_lineno>>, time - opcode_last_time)
  BY RowsOfUpdate
<1>3. DOMAIN Update(opcode_timings, file, row) = DOMAIN opcode_timings \cup {file}
  BY DEF Update
<1> QED
  BY <1>1, <1>2, <1>3

\* An opcode keeps the types.
LEMMA ExecuteTInv ==
  ASSUME TInv, NEW file \in Files, NEW line \in Lines[file], Execute(file, line)
  PROVE  TInv'
<1>1. /\ now' = now /\ phase' = phase /\ requests' = requests
      /\ line \in Nat \ {0}
  BY OpcodeAssumption DEF Execute
<1>2. ASSUME opcode_last_file' \in Files \cup {NULL, Dangling},
             opcode_last_lineno' \in Nat, opcode_last_time' \in Nat,
             opcode_last_time' <= now, DOMAIN opcode_timings' \subseteq Files,
             \A x \in DOMAIN Rows(opcode_timings') : Rows(opcode_timings')[x] \in Nat,
             errors' \in ErrorsType
      PROVE  TInv'
  BY <1>1, <1>2 DEF TInv, TypeOK
<1>3. CASE First(file, line)
  <2>1. PICK time \in GetTime :
          /\ Remember(file, line, time)
          /\ IF time = 0 THEN prof_add_warning ELSE UNCHANGED errors
    BY <1>3 DEF First
  <2>2. time \in Nat /\ time <= now
    BY DEF GetTime, TInv, TypeOK
  <2>3. errors' \in ErrorsType
    BY <2>1, AddWarning DEF TInv, TypeOK
  <2> QED
    BY <1>1, <1>2, <1>3, <2>1, <2>2, <2>3 DEF First, Remember, TInv, TypeOK
<1>4. CASE SameLine(file, line)
  BY <1>2, <1>4 DEF SameLine, lastVars, TInv, TypeOK
<1>5. CASE Switch(file, line)
  <2>1. PICK end_time \in GetTime :
          IF end_time = 0
          THEN prof_add_warning /\ UNCHANGED <<lastVars, opcode_timings>>
          ELSE /\ Record(file, line, end_time)
               /\ Remember(file, line, end_time)
               /\ UNCHANGED errors
    BY <1>5 DEF Switch
  <2>2. CASE end_time = 0
    <3>1. errors' \in ErrorsType
      BY <2>1, <2>2, AddWarning DEF TInv, TypeOK
    <3> QED
      BY <1>2, <2>1, <2>2, <3>1 DEF lastVars, TInv, TypeOK
  <2>3. CASE end_time # 0
    <3>1. end_time = now
      BY <2>3 DEF GetTime
    <3>2. end_time - opcode_last_time \in Nat
      BY <3>1 DEF TInv, TypeOK
    <3>3. Rows(opcode_timings') = Update(Rows(opcode_timings),
              <<file, opcode_last_lineno>>, end_time - opcode_last_time)
          /\ DOMAIN opcode_timings' = DOMAIN opcode_timings \cup {file}
      BY <2>1, <2>3, RecordAddsRow
    <3>4. \A x \in DOMAIN Rows(opcode_timings') : Rows(opcode_timings')[x] \in Nat
      BY <3>2, <3>3 DEF Update, TInv, TypeOK
    <3>5. Remember(file, line, end_time) /\ errors' = errors
      BY <2>1, <2>3
    <3> QED
      BY <1>1, <1>2, <3>1, <3>3, <3>4, <3>5 DEF Remember, TInv, TypeOK
  <2> QED
    BY <2>2, <2>3
<1> QED
  BY <1>3, <1>4, <1>5 DEF Execute

\* Leaving the handler for want of memory changes no row.
LEMMA BailoutKeepsRows ==
  ASSUME TInv, NEW file \in Files, NEW line, Bailout(file, line)
  PROVE  /\ Rows(opcode_timings') = Rows(opcode_timings)
         /\ DOMAIN opcode_timings' \subseteq Files
         /\ UNCHANGED <<now, phase, requests, lastVars, errors, history, printed>>
<1>1. CASE UNCHANGED opcode_timings
  BY <1>1 DEF Bailout, TInv
<1>2. CASE /\ file \notin DOMAIN opcode_timings
           /\ opcode_timings' = Update(opcode_timings, file, Nothing)
  <2>1. DOMAIN opcode_timings' = DOMAIN opcode_timings \cup {file}
    BY <1>2 DEF Update
  <2> QED
    BY <1>2, <2>1, RowsOfNewFile DEF Bailout, TInv
<1> QED
  BY <1>1, <1>2 DEF Bailout

\* Each step of opcode mode keeps the types.
LEMMA NextTInv == TInv /\ [Next]_vars => TInv'
<1> SUFFICES ASSUME TInv, [Next]_vars
             PROVE  TInv'
  OBVIOUS
<1>1. CASE Tick
  BY <1>1 DEF Tick, lastVars, TInv, TypeOK
<1>2. CASE Rinit
  <2>1. errors' \in ErrorsType
    BY <1>2 DEF Rinit, prof_init_errors, ErrorsType
  <2>2. opcode_last_file' \in Files \cup {NULL, Dangling}
    BY <1>2 DEF Rinit
  <2>3. /\ now' = now /\ opcode_last_lineno' = opcode_last_lineno
        /\ opcode_last_time' = opcode_last_time /\ requests' = requests + 1
        /\ phase' \in {"dead", "running"}
        /\ opcode_timings' = opcode_timings \/ opcode_timings' = Nothing
    BY <1>2 DEF Rinit
  <2>4. DOMAIN Nothing = {} /\ DOMAIN Rows(Nothing) = {}
    BY NoRows DEF Nothing
  <2> QED
    BY <2>1, <2>2, <2>3, <2>4 DEF TInv, TypeOK
<1>3. CASE Rshutdown
  <2>1. errors' \in ErrorsType /\ opcode_timings' = Nothing
    BY <1>3 DEF Rshutdown, prof_shutdown_errors, NoErrorTable, ErrorsType
  <2>2. DOMAIN Nothing = {} /\ DOMAIN Rows(Nothing) = {}
    BY NoRows DEF Nothing
  <2> QED
    BY <1>3, <2>1, <2>2 DEF Rshutdown, lastVars, TInv, TypeOK
<1>4. ASSUME NEW file \in Files, NEW line \in Lines[file], Execute(file, line)
      PROVE  TInv'
  BY <1>4, ExecuteTInv
<1>5. ASSUME NEW file \in Files, NEW line \in Lines[file], Bailout(file, line)
      PROVE  TInv'
  BY <1>5, BailoutKeepsRows DEF lastVars, TInv, TypeOK
<1>6. ASSUME NEW file \in Files, NEW line \in Lines[file], FirstBails(file, line)
      PROVE  TInv'
  <2>1. line \in Nat
    BY OpcodeAssumption
  <2> QED
    BY <1>6, <2>1 DEF FirstBails, Remember, TInv, TypeOK
<1>7. CASE UNCHANGED vars
  BY <1>7 DEF vars, lastVars, TInv, TypeOK
<1> QED
  BY <1>1, <1>2, <1>3, <1>4, <1>5, <1>6, <1>7 DEF Next

\* The variables of opcode mode have their types: no time is negative,
\* however often the clock fails (opcode.c:92-114).
THEOREM TypeCorrect == Spec => []TypeOK
<1>1. TInv => TypeOK
  BY DEF TInv
<1>2. Spec => []TInv
  BY InitTInv, NextTInv, PTL DEF Spec
<1> QED
  BY <1>1, <1>2, PTL

-----------------------------------------------------------------------------
LEMMA InitFInv == Init => FInv
BY DEF Init, FInv

\* With one file, an opcode of another line closes the visit of the last
\* one, and the row that it records is that of this visit.
LEMMA ExecuteFollows ==
  ASSUME TInv, Follows, errors.levels = {}, NEW F, Files = {F},
         NEW line \in Lines[F], Execute(F, line), errors'.levels = {}
  PROVE  Follows'
<1>1. line # 0 /\ F # NULL
  BY OpcodeAssumption
<1>2. NoVisit.file = NULL /\ NoVisit.line = 0
  BY DEF NoVisit
<1>3. CASE First(F, line)
  <2>1. PICK time \in GetTime :
          /\ Remember(F, line, time)
          /\ IF time = 0 THEN prof_add_warning ELSE UNCHANGED errors
    BY <1>3 DEF First
  <2>2. time # 0
    BY <2>1, AddWarning DEF TInv, TypeOK
  <2>3. time = now
    BY <2>2 DEF GetTime
  <2>4. opcode_last_file = NULL /\ UNCHANGED opcode_timings
    BY <1>3 DEF First
  <2>5. visit = NoVisit /\ visit.file # F
    BY <1>1, <2>4 DEF Follows
  <2>6. visit' = [file |-> F, line |-> line, since |-> now] /\ took' = took
    BY <2>5 DEF Execute
  <2>7. opcode_last_file' = F /\ opcode_last_lineno' = line /\ opcode_last_time' = now
    BY <2>1, <2>3 DEF Remember
  <2> QED
    BY <2>4, <2>6, <2>7 DEF Follows
<1>4. CASE SameLine(F, line)
  <2>1. visit.file = F /\ visit.line = line
    BY <1>4 DEF SameLine, Follows
  <2>2. UNCHANGED visits
    BY <2>1 DEF Execute
  <2> QED
    BY <1>4, <2>2 DEF SameLine, lastVars, visits, Follows
<1>5. CASE Switch(F, line)
  <2>1. PICK end_time \in GetTime :
          IF end_time = 0
          THEN prof_add_warning /\ UNCHANGED <<lastVars, opcode_timings>>
          ELSE /\ Record(F, line, end_time)
               /\ Remember(F, line, end_time)
               /\ UNCHANGED errors
    BY <1>5 DEF Switch
  <2>2. end_time # 0
    BY <2>1, AddWarning DEF TInv, TypeOK
  <2>3. end_time = now
    BY <2>2 DEF GetTime
  <2>4. visit # NoVisit
    BY <1>2, <1>5 DEF Switch, Follows
  <2>5. visit.file = F /\ visit.line # line
    BY <1>5, <2>4 DEF Switch, Follows
  <2>6. visit' = [file |-> F, line |-> line, since |-> now]
        /\ took' = Update(took, <<visit.file, visit.line>>, now - visit.since)
    BY <2>4, <2>5 DEF Execute
  <2>7. Rows(opcode_timings') = Update(Rows(opcode_timings),
            <<F, opcode_last_lineno>>, now - opcode_last_time)
    BY <2>1, <2>2, <2>3, RecordAddsRow
  <2>8. took' = Rows(opcode_timings')
    BY <2>4, <2>5, <2>6, <2>7 DEF Follows
  <2>9. opcode_last_file' = F /\ opcode_last_lineno' = line /\ opcode_last_time' = now
    BY <2>1, <2>2, <2>3 DEF Remember
  <2> QED
    BY <2>6, <2>8, <2>9 DEF Follows
<1> QED
  BY <1>3, <1>4, <1>5 DEF Execute

\* An entry stays in the log until it is printed.
LEMMA ExecuteLogs ==
  ASSUME TInv, NEW file, NEW line, Execute(file, line), errors'.levels = {}
  PROVE  errors.levels = {}
<1>1. errors' = errors \/ prof_add_warning
  BY DEF Execute, First, SameLine, Switch
<1> QED
  BY <1>1, AddWarning DEF TInv, TypeOK

\* Each step of a process with one file keeps the account of its visits.
LEMMA NextFInv ==
  ASSUME TInv, FInv, Cardinality(Files) = 1, [Next]_vars
  PROVE  FInv'
<1>0. PICK F : Files = {F}
  BY OpcodeAssumption, FS_Singleton
<1>1. requests \in Nat
  BY DEF TInv, TypeOK
<1>2. CASE Tick
  BY <1>2 DEF Tick, lastVars, history, visits, FInv, Follows
<1>3. CASE Rinit
  <2>1. /\ phase = "idle" /\ requests' = requests + 1 /\ phase' \in {"dead", "running"}
        /\ visit' = NoVisit /\ took' = Nothing /\ printed' = NoReport
        /\ phase' = "running" => opcode_timings' = Nothing
        /\ opcode_last_file' \in IF opcode_last_file = NULL THEN {NULL}
                                 ELSE Files \cup {Dangling}
        /\ opcode_last_lineno' = opcode_last_lineno
    BY <1>3 DEF Rinit
  <2>2. requests' # 0 /\ (requests' = 1 => requests = 0)
    BY <1>1, <2>1
  <2>3. requests' = 1 /\ phase' = "running" => Follows'
    <3> SUFFICES ASSUME requests' = 1, phase' = "running"
                 PROVE  Follows'
      OBVIOUS
    <3>1. opcode_last_file = NULL /\ opcode_last_lineno = 0
      BY <2>2 DEF FInv
    <3>2. opcode_last_file' = NULL /\ opcode_last_lineno' = 0
      BY <2>1, <3>1
    <3>3. visit'.file = NULL /\ visit'.line = 0
      BY <2>1 DEF NoVisit
    <3>4. Rows(opcode_timings') = Nothing
      BY <2>1, NoRows
    <3> QED
      BY <2>1, <3>2, <3>3, <3>4 DEF Follows, NoVisit
  <2>4. printed'.kind = "none"
    BY <2>1 DEF NoReport
  <2> QED
    BY <2>1, <2>2, <2>3, <2>4 DEF FInv
<1>4. CASE Rshutdown
  <2>1. /\ phase = "running" /\ phase' = IF HalfMade THEN "lost" ELSE "idle"
        /\ printed' = IF prof_has_errors THEN [NoReport EXCEPT !.kind = "errors"]
                ELSE IF HalfMade THEN NoReport
                ELSE [kind |-> "table", rows |-> AboveThreshold(Rows(opcode_timings))]
        /\ UNCHANGED <<requests, lastVars, history>>
    BY <1>4 DEF Rshutdown
  <2>2. NoReport.kind = "none" /\ [NoReport EXCEPT !.kind = "errors"].kind = "errors"
    BY DEF NoReport
  <2>3. CASE prof_has_errors
    BY <2>1, <2>2, <2>3 DEF FInv
  <2>4. CASE ~ prof_has_errors /\ requests = 1 /\ ~ unlogged
    <3>1. took = Rows(opcode_timings) /\ took' = took
      BY <2>1, <2>4 DEF prof_has_errors, FInv, Follows, history, visits
    <3>2. CASE HalfMade
      <4>1. took = Nothing
        BY <1>0, <3>1, <3>2, HalfMadeIsEmpty DEF TInv
      <4> QED
        BY <2>1, <2>2, <2>4, <3>1, <3>2, <4>1 DEF FInv
    <3>3. CASE ~ HalfMade
      <4>1. printed'.kind = "table" /\ printed'.rows = AboveThreshold(took)
        BY <2>1, <2>4, <3>1, <3>3
      <4> QED
        BY <2>1, <2>4, <3>1, <3>3, <4>1 DEF FInv, AboveThreshold
    <3> QED
      BY <3>2, <3>3
  <2>5. CASE requests # 1 \/ unlogged
    BY <2>1, <2>5 DEF FInv, history
  <2> QED
    BY <2>3, <2>4, <2>5
<1>5. ASSUME NEW file \in Files, NEW line \in Lines[file], Execute(file, line)
      PROVE  FInv'
  <2>1. file = F /\ phase = "running" /\ UNCHANGED <<phase, requests, unlogged, printed>>
    BY <1>0, <1>5 DEF Execute
  <2>2. CASE requests = 1
    <3>1. printed = NoReport /\ printed.kind = "none"
      BY <2>1, <2>2 DEF FInv, NoReport
    <3>2. errors'.levels = {} /\ ~ unlogged => Follows'
      <4> SUFFICES ASSUME errors'.levels = {}, ~ unlogged
                   PROVE  Follows'
        OBVIOUS
      <4>1. errors.levels = {}
        BY <1>5, ExecuteLogs
      <4>2. Follows
        BY <2>1, <2>2, <4>1 DEF FInv
      <4> QED
        BY <1>0, <1>5, <2>1, <4>1, <4>2, ExecuteFollows
    <3> QED
      BY <2>1, <2>2, <3>1, <3>2 DEF FInv
  <2>3. CASE requests # 1
    BY <2>1, <2>3 DEF FInv
  <2> QED
    BY <2>2, <2>3
<1>6. ASSUME NEW file \in Files, NEW line \in Lines[file], Bailout(file, line)
      PROVE  FInv'
  <2>1. phase = "running" /\ Rows(opcode_timings') = Rows(opcode_timings)
        /\ UNCHANGED <<phase, requests, lastVars, errors, history, printed>>
    BY <1>6, BailoutKeepsRows DEF Bailout
  <2> QED
    BY <2>1 DEF FInv, Follows, lastVars, history, visits, AboveThreshold
<1>7. ASSUME NEW file, NEW line, FirstBails(file, line)
      PROVE  FInv'
  <2>1. phase = "running" /\ unlogged' = TRUE /\ UNCHANGED <<phase, requests, printed>>
    BY <1>7 DEF FirstBails
  <2> QED
    BY <2>1 DEF FInv
<1>8. CASE UNCHANGED vars
  BY <1>8 DEF vars, lastVars, history, visits, FInv, Follows, AboveThreshold
<1> QED
  BY <1>2, <1>3, <1>4, <1>5, <1>6, <1>7, <1>8 DEF Next

(***************************************************************************)
(* The profile of a script of one file is true: each row is what the last  *)
(* completed visit of its line took, in whatever order the lines run, when *)
(* the clock fails and when memory runs out (opcode.c:78-114).             *)
(***************************************************************************)
THEOREM TrueProfile == Spec => []OneFileIsTrue
<1>1. Init => IInv
  BY InitTInv, InitFInv DEF IInv
<1>2. IInv /\ [Next]_vars => IInv'
  BY NextTInv, NextFInv DEF IInv
<1>3. IInv => OneFileIsTrue
  BY DEF IInv, FInv, OneFileIsTrue
<1> QED
  BY <1>1, <1>2, <1>3, PTL DEF Spec
=============================================================================
