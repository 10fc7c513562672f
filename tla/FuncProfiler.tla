---------------------------- MODULE FuncProfiler ----------------------------
(***************************************************************************)
(* Func mode (src/func.c) under the engine of one PHP process: requests    *)
(* start and stop (prof.c), functions of the script are entered and left,  *)
(* and the engine may abandon running code.                                *)
(*                                                                         *)
(* The engine's side, taken from how the extension uses it:                *)
(*  - Begin and end handlers of one stack of calls are nested.             *)
(*  - A fatal error (a "bailout", also raised inside a handler when an     *)
(*    allocation exceeds the memory limit) leaves the script at once; the  *)
(*    engine then calls the end handlers of the calls still open (phase    *)
(*    "ending") and runs shutdown functions and destructors (phase         *)
(*    "shutdown"); a bailout in those just drops their calls, and a        *)
(*    bailout while ending calls kills the process.                        *)
(*  - A failing RINIT makes the engine exit.                               *)
(*                                                                         *)
(* frames, ledger and printed are history: what really ran, what it really *)
(* took, and what the user was shown.                                      *)
(***************************************************************************)
EXTENDS FuncObserver

CONSTANTS MaxTime, MaxCalls, MaxRequests   \* bounds of the model

ASSUME BoundsAssumption ==
  MaxTime \in Nat /\ MaxCalls \in Nat /\ MaxRequests \in Nat

VARIABLES
  phase,     \* where the process is, see Phases
  frames,    \* the calls in progress: [fn, began, slot]
  entered,   \* calls made in this request
  requests,  \* requests started
  ledger,    \* name -> what its completed calls took
  printed    \* the last report

profVars == <<func_start_units, func_units, errors>>
vars == <<now, profVars, phase, frames, entered, requests, ledger, printed>>

Phases == {"idle", "running", "ending", "shutdown", "dead"}

(***************************************************************************)
(* slot is the height of func_start_units at which the call's own start    *)
(* reading lies, or would lie if it had been pushed.                       *)
(***************************************************************************)
Frame == [fn : Functions, began : Nat, slot : Nat]

NoReport    == [kind |-> "none",   table |-> NoUnits]
ErrorReport == [kind |-> "errors", table |-> NoUnits]

Init ==
  /\ now = 0
  /\ func_start_units = << >> /\ func_units = NoUnits
  /\ errors = NoErrorTable
  /\ phase = "idle" /\ frames = << >> /\ entered = 0 /\ requests = 0
  /\ ledger = EmptyLedger /\ printed = NoReport

-----------------------------------------------------------------------------
(***************************************************************************)
(* PHP_RINIT in func mode: start_time cannot be read, and the engine       *)
(* exits, or the tables are created.                                       *)
(***************************************************************************)
Rinit ==
  /\ phase = "idle" /\ requests < MaxRequests
  /\ prof_init_errors
  /\ \/ "clock" \in Faults /\ phase' = "dead"
        /\ UNCHANGED <<func_start_units, func_units>>
     \/ prof_func_setup /\ phase' = "running"
  /\ requests' = requests + 1 /\ entered' = 0
  /\ ledger' = EmptyLedger /\ printed' = NoReport
  /\ UNCHANGED <<now, frames>>

Tick ==
  /\ phase \in {"running", "ending", "shutdown"} /\ now < MaxTime
  /\ now' = now + 1
  /\ UNCHANGED <<profVars, phase, frames, entered, requests, ledger, printed>>

(***************************************************************************)
(* A call.  The outermost call of a script is the code of a file, that of  *)
(* the shutdown phase a function.                                          *)
(***************************************************************************)
MayEnter(f) ==
  /\ phase \in {"running", "shutdown"} /\ entered < MaxCalls
  /\ frames = << >> => (prof_observer(f) <=> phase = "shutdown")

Enter(f) ==
  /\ MayEnter(f)
  /\ IF prof_observer(f) THEN prof_observer_begin ELSE UNCHANGED profVars
  /\ frames' = Append(frames, [fn |-> f, began |-> now,
                               slot |-> Len(func_start_units')])
  /\ entered' = entered + 1
  /\ UNCHANGED <<now, phase, requests, ledger, printed>>

(***************************************************************************)
(* The innermost call ends: by a return, an exception or exit(), or, after *)
(* a bailout, because the engine ends what is still open.                  *)
(***************************************************************************)
Leave ==
  /\ phase \in {"running", "ending", "shutdown"} /\ frames # << >>
  /\ IF prof_observer(Last(frames).fn) THEN prof_observer_end(Last(frames).fn)
     ELSE UNCHANGED profVars
  /\ frames' = Front(frames)
  /\ ledger' = Credited(ledger, Last(frames))
  /\ UNCHANGED <<now, phase, entered, requests, printed>>

-----------------------------------------------------------------------------
(***************************************************************************)
(* Bailouts.  Stop(fs) says where one leads when fs are the open calls.    *)
(***************************************************************************)
Stop(fs) ==
  /\ "bailout" \in Faults
  /\ \/ phase = "running"  /\ phase' = "ending"  /\ frames' = fs
     \/ phase = "shutdown" /\ phase' = phase     /\ frames' = << >>
     \/ phase = "ending"   /\ phase' = "dead"    /\ UNCHANGED frames
  /\ UNCHANGED <<now, requests, ledger, printed>>

Fatal ==                  \* in the code of the script, or before a handler
  /\ frames # << >>       \* has changed anything
  /\ phase = "ending" => prof_observer(Last(frames).fn)
  /\ Stop(frames)
  /\ UNCHANGED <<profVars, entered>>

EnterBails(f) ==          \* in prof_observer_begin
  /\ MayEnter(f) /\ prof_observer(f)
  /\ Stop(Append(frames, [fn |-> f, began |-> now,
                          slot |-> Len(func_start_units) + 1]))
  /\ entered' = entered + 1
  /\ UNCHANGED profVars

LeaveBails ==             \* in prof_observer_end, the start unit popped
  /\ frames # << >> /\ prof_observer(Last(frames).fn)
  /\ prof_observer_end_bails(Last(frames).fn)
  /\ Stop(frames)
  /\ UNCHANGED entered

-----------------------------------------------------------------------------
ScriptOver ==
  /\ phase \in {"running", "ending"} /\ frames = << >>
  /\ phase' = "shutdown"
  /\ UNCHANGED <<now, profVars, frames, entered, requests, ledger, printed>>

ReportIgnoresErrors ==
  /\ phase = "shutdown" /\ frames = << >>
  /\ printed' = [kind |-> "table", table |-> func_units]
  /\ prof_shutdown_errors /\ prof_func_teardown
  /\ phase' = "idle"
  /\ UNCHANGED <<now, frames, entered, requests, ledger>>

(***************************************************************************)
(* PHP_RSHUTDOWN in func mode.  A log with entries is printed instead of   *)
(* the profile; printing the profile adds no entry, so the second call of  *)
(* prof_print_errors prints nothing.                                       *)
(***************************************************************************)
Rshutdown ==
  /\ phase = "shutdown" /\ frames = << >>
  /\ printed' = IF prof_has_errors THEN ErrorReport
                ELSE [kind |-> "table", table |-> func_units]
  /\ prof_shutdown_errors /\ prof_func_teardown
  /\ phase' = "idle"
  /\ UNCHANGED <<now, frames, entered, requests, ledger>>

(***************************************************************************)
(* A bailout while the table is built: nothing of the profile is shown,    *)
(* and neither the error log nor the tables are torn down.                 *)
(***************************************************************************)
RshutdownBails ==
  /\ "bailout" \in Faults
  /\ phase = "shutdown" /\ frames = << >> /\ ~prof_has_errors
  /\ phase' = "idle"
  /\ UNCHANGED <<now, profVars, frames, entered, requests, ledger, printed>>

-----------------------------------------------------------------------------
Next ==
  \/ Rinit \/ Tick \/ Leave \/ Fatal \/ LeaveBails \/ ScriptOver
  \/ Rshutdown \/ RshutdownBails
  \/ \E f \in Functions : Enter(f) \/ EnterBails(f)

Spec == Init /\ [][Next]_vars

(***************************************************************************)
(* After a bailout the engine ends the open calls in a loop, and goes on   *)
(* when there are none.  Nothing is assumed of the script: neither that a  *)
(* call returns nor that it ends.                                          *)
(***************************************************************************)
FairSpec == Spec /\ WF_vars(phase = "ending" /\ (Leave \/ ScriptOver))

-----------------------------------------------------------------------------
(***************************************************************************)
(* Type correctness.                                                       *)
(***************************************************************************)
TypeOK ==
  /\ now \in Nat
  /\ func_start_units \in Seq(Nat)
  /\ IsUnitTable(func_units)
  /\ errors \in ErrorsType
  /\ phase \in Phases
  /\ frames \in Seq(Frame)
  /\ entered \in Nat /\ requests \in Nat
  /\ ledger \in [Names -> FuncUnit]
  /\ printed.kind \in {"none", "errors", "table"} /\ IsUnitTable(printed.table)

(***************************************************************************)
(* A profile that is printed is true: it has a row for exactly the         *)
(* functions that completed a call, with the number of those calls and the *)
(* time they took, whatever failed on the way.  A measurement that went    *)
(* wrong (a start reading that is missing, or one that an earlier call     *)
(* left behind) must have left an entry in the error log, so that          *)
(* PHP_RSHUTDOWN prints the log instead (prof.c:88).                       *)
(***************************************************************************)
PrintedIsTrue == printed.kind = "table" => printed.table = Recorded(ledger)

(***************************************************************************)
(* The stack of start readings and the stack of calls agree while the log  *)
(* is empty: every observed call in progress finds its own reading at its  *)
(* own height.  The exception is what a bailout inside a handler leaves    *)
(* behind, a stack that is one reading short until the engine has ended    *)
(* all calls, the last of which then writes to the log (func.c:112-117).   *)
(***************************************************************************)
Calm == phase \in {"running", "ending", "shutdown"} /\ errors.levels = {}

OneShort == frames # << >> /\ Len(func_start_units) + 1 = Last(frames).slot

StackMatchesCalls ==
  Calm =>
    /\ frames # << >> => \/ Len(func_start_units) = Last(frames).slot
                         \/ phase = "ending" /\ OneShort
    /\ ~ OneShort =>
         \A i \in DOMAIN frames : prof_observer(frames[i].fn) =>
           /\ frames[i].slot \in DOMAIN func_start_units
           /\ func_start_units[frames[i].slot] = frames[i].began

(***************************************************************************)
(* The log is not written to without a reason: where nothing fails, every  *)
(* end handler finds a start reading, and the profile is never withheld.   *)
(***************************************************************************)
NothingWithheld == Faults = {} => errors.levels = {}

(***************************************************************************)
(* Func mode implements the ledger: every step of the handlers and of the  *)
(* engine is one of FuncLedger's, or changes nothing it speaks of.         *)
(***************************************************************************)
Open(fs) == [i \in DOMAIN fs |-> [fn |-> fs[i].fn, began |-> fs[i].began]]

Ledger == INSTANCE FuncLedger WITH
  open    <- Open(frames),
  printed <- [kind |-> printed.kind, table |-> Total(printed.table)]

LedgerSpec == Ledger!Spec

(***************************************************************************)
(* The end handlers that the engine calls after a bailout always get to    *)
(* the last open call, also when there is no start reading left for them   *)
(* (func.c:112-117).                                                       *)
(***************************************************************************)
EndingFinishes == (phase = "ending") ~> (phase # "ending")
=============================================================================
