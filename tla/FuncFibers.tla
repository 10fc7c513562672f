----------------------------- MODULE FuncFibers -----------------------------
(***************************************************************************)
(* Func mode (src/func.c) under PHP 8.1, whose fibers leave calls          *)
(* suspended while others run and end.  The handlers are those of          *)
(* FuncObserver: one stack of start readings for the whole process.        *)
(*                                                                         *)
(* Each fiber has a stack of calls of its own.  chain is the fibers that   *)
(* have resumed one another; its last one runs.  A fiber that suspends, or *)
(* whose first call ends, gives control back to the one that resumed it.   *)
(* At the end of the script the engine resumes the fibers still suspended, *)
(* to unwind their calls.                                                  *)
(***************************************************************************)
EXTENDS FuncObserver

CONSTANTS
  Fibers, MainFiber,         \* the fibers, and the one the script starts in
  Threshold,             \* prof.func_threshold
  MaxTime, MaxCalls      \* bounds of the model

ASSUME FibersAssumption ==
  MainFiber \in Fibers /\ Threshold \in Nat /\ IsFiniteSet(Functions)

VARIABLES
  calls,    \* fiber -> its calls in progress: [fn, began]
  chain,    \* the running fiber and those that wait for it
  entered,  \* calls made
  ledger,   \* name -> what its completed calls took
  over      \* has the request been shut down

profVars == <<func_start_units, func_units, errors>>
vars == <<now, profVars, calls, chain, entered, ledger, over>>

Init ==
  /\ now = 0
  /\ func_start_units = << >> /\ func_units = NoUnits
  /\ errors = [live |-> TRUE, levels |-> {}]
  /\ calls = [fiber \in Fibers |-> << >>] /\ chain = <<MainFiber>>
  /\ entered = 0 /\ ledger = EmptyLedger /\ over = FALSE

Tick ==
  /\ ~over /\ now < MaxTime
  /\ now' = now + 1
  /\ UNCHANGED <<profVars, calls, chain, entered, ledger, over>>

(***************************************************************************)
(* The first call of the request is the code of a file; the first call of  *)
(* a fiber, and one that the engine makes after the script, a function.    *)
(***************************************************************************)
Begin(fiber, f) ==
  /\ ~over /\ entered < MaxCalls
  /\ calls[fiber] = << >> => (prof_observer(f) <=> entered > 0)
  /\ IF prof_observer(f) THEN prof_observer_begin ELSE UNCHANGED profVars
  /\ calls' = [calls EXCEPT ![fiber] = Append(@, [fn |-> f, began |-> now])]
  /\ entered' = entered + 1
  /\ UNCHANGED <<now, ledger, over>>

Enter(f) == Begin(Last(chain), f) /\ UNCHANGED chain

Start(fiber, f) ==
  /\ entered > 0 /\ fiber \notin ToSet(chain) /\ calls[fiber] = << >>
  /\ Begin(fiber, f)
  /\ chain' = Append(chain, fiber)

Resume(fiber) ==
  /\ fiber \notin ToSet(chain) /\ calls[fiber] # << >>
  /\ chain' = Append(chain, fiber)
  /\ UNCHANGED <<now, profVars, calls, entered, ledger, over>>

Suspend ==
  /\ Len(chain) > 1
  /\ chain' = Front(chain)
  /\ UNCHANGED <<now, profVars, calls, entered, ledger, over>>

Leave ==
  LET fiber == Last(chain)
      call  == Last(calls[fiber])
  IN  /\ calls[fiber] # << >>
      /\ IF prof_observer(call.fn) THEN prof_observer_end(call.fn)
         ELSE UNCHANGED profVars
      /\ calls' = [calls EXCEPT ![fiber] = Front(@)]
      /\ chain' = IF Len(calls[fiber]) = 1 /\ Len(chain) > 1
                  THEN Front(chain) ELSE chain
      /\ ledger' = Credited(ledger, call)
      /\ UNCHANGED <<now, entered, over>>

Quiet == \A fiber \in Fibers : calls[fiber] = << >>

Rshutdown ==
  /\ ~over /\ Quiet
  /\ over' = TRUE
  /\ UNCHANGED <<now, profVars, calls, chain, entered, ledger>>

Next ==
  \/ Tick \/ Suspend \/ Leave \/ Rshutdown
  \/ \E f \in Functions : Enter(f)
  \/ \E fiber \in Fibers : Resume(fiber)
  \/ \E fiber \in Fibers, f \in Functions : Start(fiber, f)

Spec == Init /\ [][Next]_vars

-----------------------------------------------------------------------------
(***************************************************************************)
(* However the calls of fibers are interleaved, an end handler credits its *)
(* own function with one call, and always finds some start reading: the    *)
(* counts are right, and nothing is written to the error log.              *)
(***************************************************************************)
CallsExact ==
  /\ errors.levels = {}
  /\ \A n \in Names : Total(func_units)[n].calls = ledger[n].calls

(***************************************************************************)
(* Readings are swapped between calls, never lost or used twice: once      *)
(* nothing is in progress, the times of all functions together are right,  *)
(* and no start reading is left behind.                                    *)
(***************************************************************************)
SumOf(l) == SumFunction([n \in Names |-> l[n].wall])

TimeConserved ==
  Quiet => /\ func_start_units = << >>
           /\ SumOf(Total(func_units)) = SumOf(ledger)

(***************************************************************************)
(* The rows of the printed table are the functions whose calls took longer *)
(* than the threshold (readme.md:88).                                      *)
(***************************************************************************)
ThresholdShowsSlowCalls ==
  over /\ errors.levels = {} =>
    \A n \in Names :
      Total(func_units)[n].wall > Threshold <=> ledger[n].wall > Threshold
=============================================================================
