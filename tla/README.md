# Verification of php-ext-prof

php-ext-prof is a profiler for PHP's command line, written as an extension in
C. This directory holds TLA+ models of it, TLC configurations that check them
on small instances, and proofs that TLAPS checks for every value of the
constants. Paths and line numbers are those of the repository (`prof.c`,
`src/func.c`, ...).

## 1. The system

| Component | State | Operations |
|---|---|---|
| module life cycle (`prof.c`) | `config`, `start_time`, what MINIT installed | MINIT, RINIT, RSHUTDOWN, MSHUTDOWN, each with a switch over the mode |
| configuration (`prof_config.c`) | `prof_config` | `build_config`: INI, else environment, else default; refuse what cannot be read |
| error log (`errors.c`) | `errors` | init, add warning, add error, has, print, shutdown |
| func mode (`func.c`) | `func_start_units` (a stack of readings), `func_units` (name -> sums) | `prof_observer_begin`, `prof_observer_end`, set-up, report, tear-down |
| sampling mode (`sampling.c`) | `sampling_enabled`, `sampling_units` (name -> hits, file, line), `ITIMER_PROF`, the handler of SIGPROF | `prof_sigprof_handler`, set-up, three reports, tear-down |
| opcode mode (`opcode.c`) | `opcode_last_file/lineno/time`, `opcode_timings` (file -> line -> time) | the handler of every opcode, set-up, report, tear-down |
| console table (`func.c`, `sampling.c`, `ht_slice`) | the sorted table, the slice, the rows | sort, slice, threshold |
| writers (`sampling.c`, `gzencode.c`) | the pprof message with its string table, the output file | `..._print_result_callgrind`, `..._print_result_pprof` |
| helpers (`helpers.c`) | none | clocks, function names, `ht_slice`, the header |
| protobuf code (`profile.pb-c.*`) | none | generated |

**How they interact.** Everything runs on the thread of one PHP process. The
engine calls the module's four functions; between RINIT and RSHUTDOWN it calls
the hook of the mode: the observer's begin and end handlers around calls (func),
a handler before every opcode (opcode), or the system delivers SIGPROF between
any two instructions (sampling). A hook that cannot measure writes to the error
log and returns; RSHUTDOWN prints the log *instead of* the profile when it has
entries (`prof.c:88`). So the log is the only thing between a mismeasurement and
a wrong profile, and an entry written without need loses a good one.

**What is hard.**

* func mode has no identity of a call: an end pops whatever reading is on top
  (`func.c:111-118`). The handlers have five early returns, allocations in
  them may be abandoned by the memory limit half-way, the engine ends open calls
  after a fatal error, and PHP 8.1's fibers break the nesting of calls.
* SIGPROF arrives between any two statements of set-up, report and tear-down, its
  handler may be left at its allocations, and the script can set the same timer.
* opcode mode records the line that was *left*, when the next one is *entered*,
  and remembers where it was across files and requests.
* a report goes through several steps that fail one by one, on data whose size
  is bounded by what users configure, and the memory limit may abandon it.
* the readings include the profiler's own allocations, and a forked process has a
  copy of all state, but neither the timer nor the CPU time.
* code of other modules' RSHUTDOWN runs when the tables are gone.

**What makes each component correct.** A func profile that is printed is exactly
what the completed calls took; a sampling profile counts each sample once,
for the function it was due to, unless the memory limit ends the handler of that very
sample, and no signal finds a missing table; a row of the
opcode table is the time of that line; the console table is the top n; a file is
well formed, complete, or its failure is reported; each request shows one result
and leaves nothing behind; a configuration runs within its bounds or not at all.

## 2. Modules

```
ProfErrors   ProfHelpers   ProfConfig   ReportOutcome
    |  \________ |  ____________/ |  ______/   |
    |           \|/               | /          |
    |      FuncObserver         Prof -- MCProf, ProfProofs
    |       /       \                          |
    | FuncProfiler  FuncFibers -- MCFuncFibers, FuncFibersProofs
    |   |  (refines FuncLedger)                |
    |   |-- MCFuncProfiler                     |
    |   '-- FuncProfilerProofs                 |
    |-- FuncFigures -- MCFuncFigures, FuncFiguresProofs
    |-- Sampling (also ProfHelpers) -- MCSampling, SamplingProofs
    |     (refines SampleLedger)               |
    |-- OpcodeProfiler -- MCOpcodeProfiler, OpcodeProofs
    '-- ProfileFiles ---- Reports -------------'
        (PprofProfile)    /    \
              ResultTable       MCReports, ReportsProofs

DataTheorems: used by all modules of proofs but OpcodeProofs and ProfProofs
```

* **ProfErrors**: the log, as whether it exists and the set of levels in it. Its
  operations are the actions that the other modules use.
* **ProfHelpers**: `get_function_name` and what it does to identity: the code of
  files is `main`, closures are their file and line, so functions share rows.
* **FuncObserver**: func mode's two handlers, its tables, and their failures.
  `Faults` says which failures an instance allows. Two engines drive it:
  * **FuncProfiler**: one stack of calls, several requests, bailouts in the
    script, in shutdown functions and inside the handlers. History variables
    keep what really ran (`frames`), what it really took (`ledger`) and what was
    shown (`printed`).
  * **FuncFibers**: one stack of calls per fiber, resume and suspend.
* **FuncLedger**: the abstract specification of func mode: calls open and close,
  a ledger is credited, and a report is the ledger or has no figures.
  FuncProfiler implements it with `open <- Open(frames)` and the printed table
  completed with zeroes.
* **FuncFigures**: all three quantities, in integers of `Width` bits as the code
  subtracts and sums them, and what moves them beside the script: blocks of the
  stack, the first table and each row (`own`), a fork, a reading that fails. It
  leaves out what FuncProfiler has (fatal errors, bailouts, several requests).
* **SampleLedger**: the abstract specification of sampling mode's console output:
  samples are due, each is kept or lost as it is raised, and a report is an error, or
  the total and then the counts by name of those kept, with no sample after the total.
* **Sampling**: set-up, report and tear-down as one action per statement that a
  signal could tell apart; `Sigprof` runs the whole handler between any two, or the
  part of it up to an allocation that hits the memory limit (`HitBails`), which ends the
  calls in progress and loses the sample. The history variable `lost` counts these.
  It implements SampleLedger with `due <- taken` and `lost <- lost`.
* **OpcodeProfiler**: the opcode handler over files and requests; `Bailout` is the handler
  left at one of its allocations, with or without an entry that has no table;
  `FirstBails` is the double fault at the first opcode, where neither the time nor the
  entry of the log can be had (the history variable `unlogged` remembers it).
* **ResultTable**: sort, `ht_slice` (with the size as a `uint32_t` of
  `UintWidth` bits) and threshold.
* **PprofProfile**: the messages of a pprof profile, what `profile.proto` asks of
  them, and what a reader makes of a sample.
* **ProfileFiles**: both file writers, down to string indexes and ids, with
  stdio's deferred failures, a bailout that leaves the file as it is, and the second
  `prof_print_errors`.
* **Reports**: the switch over mode and output mode that leads to the table or to a
  writer, and composes `ResultTable` with `ProfileFiles`.
* **ReportOutcome**: what a report may come to, for each mode and output mode. The
  property `OutcomeExpected` shows Reports to keep to it, and Prof has it in the
  place of the reports; so the two are checked apart and fit together.
* **ProfConfig**, **Prof**: `build_config`, the two readers of the same
  settings in `helpers.c`, which nothing calls (`ReadersAgree` says that calling them would
  be safe), and the four module functions over any configuration, with the modes
  reduced to the resources they hold. An RSHUTDOWN that is abandoned goes to the
  end of the request; one that is not, to phase `late`, in which other modules
  shut down and may run code. A hook that finds its tables gone leads to `lost`.

The models are of a build without thread safety, as in the images that
`ci.yml` tests with (`php:*-cli`): the module has no globals constructor, so its
globals start zeroed only there. Thresholds are in the unit of the clock.

In all models a time is a natural number of a clock that `Tick` moves; in all but
FuncFigures the wall time stands for the three quantities func mode reads. Names
are tuples and strings are model values or records: formatting is left out.

## 3. Runs

| Run | Checks | Instance | Shows |
|---|---|---|---|
| `func_gate` | `TypeOK` `PrintedIsTrue` `StackMatchesCalls` `LedgerSpec` `EndingFinishes` | 3 functions, 4 calls, 2 ticks, 2 requests, all faults, fair | no combination of failures lets a wrong profile through; FuncProfiler implements FuncLedger; end handlers get through after a bailout |
| `fibers_conserve` | `CallsExact` `TimeConserved` | 3 fibers, 5 calls | what stays right under fibers |
| `fibers_attribution` | `ThresholdShowsSlowCalls` | 2 fibers, 3 calls | **violated**: times are swapped between functions |
| `func_figures` | `FiguresExact` `UndisturbedMemoryExact` `OverheadBounded` | 2 functions, 3 calls, 3 changes of the quantities, 6 bits, clock may fail, process may fork | printed times and counts are those of the calls, but for the CPU time of a call that was open at a fork; memory is exact but for what the profiler allocated meanwhile |
| `sampling_signals` | `TypeOK` `NeverKilled` `ReportComplete` `SamplingGoesOn` `LedgerSpec` | 4 functions of 2 files, depth 3, 3 samples, 2 requests, all faults, fair | a signal at any step does no harm; no sample is invented, given to another name, or counted after the total is printed, and none is lost but with its own handler, ended by the memory limit (Sampling implements SampleLedger); samples keep coming |
| `sampling_time_limit` | `SamplesAnyScript` | script may call `set_time_limit` | **violated**: the timer is shared |
| `opcode_one_file` | `TypeOK` `OneFileIsTrue` | 3 lines, 6 ticks, clock may fail, memory may run out in the handler | times are right within a file, also in what shutdown functions add after the memory ran out, unless clock and memory both fail at the first opcode |
| `opcode_two_files` | `RowsAreExecuted` | 2 files | **violated**: rows for lines of the wrong file |
| `reports` | `TypeOK` `TopN` `WellFormed` `FileHasUnits` `MissingIsReported` `OutcomeExpected` | up to 3 units, values 1..3, all orders, 8 limits, both modes, all output modes, all faults | the table is the top n, also when the limit wraps; a complete file is well formed and says what was sampled; a missing one has a message; no outcome that Prof does not reckon with |
| `files_period` | `PeriodInItsUnit` | no faults | **violated**: microseconds under the unit nanoseconds |
| `prof_requests` | `TypeOK` `HooksFindTables` `NothingLeft` `OneAnswer` `RunsWithinBounds` `ReadersAgree` | every mode with every string of one other setting, from INI and environment, empty ones included, 2 requests, all faults | the switches over the mode agree, as do the three readers of it; an abandoned request is healed by the next |
| `prof_interval` | `AcceptedConfigStarts` | as above, no faults | **violated**: an interval of a second keeps PHP from starting |

**Bounds.** Two requests suffice for anything that leaks from one request to the
next. The faults of func mode need an outer call, a call whose handler fails and
a call that then meets the shifted stack: three calls, and a fourth for the code
of the file around them. Two ticks tell apart an outer, a middle and an inner
reading. For fibers, two stacks and three calls swap readings; the conserving
run has one of each more. For figures, three changes are a computation, a fork and
a computation in one call, or memory that is freed and allocated again; three
calls, nested or recursive, outgrow the stack of two elements and add a second row
to a table that was allocated by the first; six bits hold every sum and show a
difference that wraps. For samples, one before, one during and one after a
report. For rows, tables around the limit: one below, equal, above. For string
indexes, a function that has the name of a sample type, and one that has the name
of its file. `MaxTime`, `MaxCalls`, `MaxChanges`, `MaxSamples`, `MaxDepth` and
`MaxRequests` only bound the instances; they are in guards and nowhere else, apart
from the two liveness properties of sampling, which also end when the samples of
the instance are used up. `CHECK_DEADLOCK FALSE` is set everywhere because a PHP process ends.

**Fairness.** `func_gate` assumes weak fairness of what ends a request after a fatal
error or a bailout, and of nothing else: `Leave` and `ScriptOver` while the phase is
`ending`. The engine ends the calls that are still open in a loop on its one thread,
and no user code runs between two of them. Of a script that runs nothing is assumed;
it may stop at any point or go on for ever. `sampling_signals` and
`sampling_time_limit` assume weak fairness of `Sigprof` alone: a running CPU-time timer
expires while the process uses CPU time. `SamplingGoesOn` is about requests whose timer
is still the profiler's and whose signal can be delivered: it has as exceptions
`set_time_limit` and `fork`, which take the timer away, and a request that was cut
short in the handler, since SIGPROF may stay blocked after the jump out of it.
`SamplesAnyScript` has no exceptions, and is violated.

**Mutants.** Definitions marked "a mutated form" are plausible wrong versions of
the definition after them (a forgotten push, pop, check, tear-down, an index
off by one). No specification uses them; each property of a passing run is
violated when one of them takes the place of the original.

## 4. Proofs

Every invariant that a passing run checks, and both refinements, are theorems:
they hold for every value of the constants under the assumptions that the modules
declare. The proofs of a component are in a module of their own. In each of them a
property is not inductive as it stands; the invariant that is was checked by TLC on
the instance of the run, with the sets of its types made finite where needed, before it
was proved.

Assumptions, apart from the types of the constants: the functions of a program and
the files of a script are finitely many (`SamplingAssumption`, `FibersAssumption`,
`OpcodeAssumption`); the strings of the extension's own literals are strings
(`ProfileFilesAssumption`); and for the figures of func mode, that no clock runs
through a whole unsigned integer in a request and that what the calls of a function
may allocate is within a signed one (`FitsAssumption`).

**`DataTheorems`**: what the others need of sequences, sums, folds, powers of two and
remainders. None of the library's induction rules can be used, as they take an operator
as a parameter; induction over a finite set is done by taking a smallest
counterexample among its subsets (`SmallestSubset`), over the natural numbers by a
least one (`LeastNat`). So `SumOfOneAndRest` shows that the sum of a function over a
finite set, which chooses some order, does not depend on it, and `TypedFold` that a
fold of the community modules exists and is of the type of its steps. That `2 ^ w`
is a positive natural number and twice the one before comes from counting the
subsets of `1..w`.

**`FuncProfilerProofs`**:

* `TypeCorrect`: `TypeOK`. The handlers are typed first (`HandlerTypes`), then
  each action of the engine.
* `Inductive`: the inductive invariant `IInv`. `PrintedIsTrue` alone is not
  inductive: that a table equals the ledger at RSHUTDOWN depends on every reading
  having been popped by its own call. `IInv` therefore says, for states in which
  a request is active and the log is empty (`Calm`): the slots of the open calls
  count the observed calls below them (`Heights`), the first call of a script is
  unobserved and at height 0 (`Grounded`), and `func_units` is the ledger
  (`Accounts`) unless the stack is one reading short (`OneShort`), the state in
  which a bailout inside an end handler leaves it. From there the height can only
  stay one short until the end handler of the last observed call finds the stack
  empty and writes to the log. Once the log has an entry nothing is claimed but
  that it keeps it until RSHUTDOWN prints it.
* `PrintedTrue`, `StackCorrect`: `PrintedIsTrue` and `StackMatchesCalls`.
* `NeverWithheld`: when nothing fails (`Faults = {}`), no handler writes to the
  log, whatever the order of calls, so that a good profile is never withheld. No
  run repeats this.
* `Refinement`: `Spec => LedgerSpec`, with one step per action under `IInv`; the
  report maps to the ledger by `PrintedIsTrue`.

**`FuncFibersProofs`**: under fibers there is no telling whose reading is where on the
stack, so that no invariant can relate a reading to a call. `FInv` relates sums: there
are as many readings as open observed calls, and the times in the table plus the times
at which the open calls began are the times of the ledger plus the readings on the
stack (`Balanced`). A begin adds the same time to both sides; an end moves the
reading it pops, whichever it is, to the table. `CountsRight` and `TimesConserved`
are the two properties of `fibers_conserve`.

**`FuncFiguresProofs`**: `FInv` bounds how far clocks and memory may have come
(`Bounded`), gives each open call the reading it began with (`Nested`, `Matching`),
and each row the figures of its ledger (`Figured`), with the memory of a row too large by
at most what the profiler has allocated (`Overhead`). The width of the integers is
any: that `OverheadBounded` and `UndisturbedMemoryExact` hold although differences
wrap is arithmetic modulo `2 ^ Width` (`SignedSum`), and needs the bounds.
`FiguresAreExact`, `UndisturbedMemory` and `OverheadIsBounded` are the three
properties of `func_figures`.

**`SamplingProofs`**:

* `Inductive`: for a process in which no RSHUTDOWN ended early, `Ordered` lists
  for each step which of timer, handler, units and log exist. `NeverKilled` alone
  is not inductive: that a signal does no harm depends on what the statements
  before have created. A signal at any step is one lemma (`SigprofIInv`): outside
  of `running` no code runs, so that the handler returns at once. `NoSignalKills`
  is `NeverKilled`, from it.
* `Accounting`: `CInv`. The hits of a name are the sum of the samples due to the
  functions of that name, and all hits are all samples (`Accounts`), at each step from
  the creation of the table; the report has what the table has. All samples are those
  that were raised without those whose handler was left (`Kept`): a signal adds one to
  the kept ones and to the units, or changes neither (`KeptOrLost`). `TypeCorrect` and
  `Complete` (`ReportComplete`) follow.
* `Refinement`: `Spec => LedgerSpec` under `CInv`; a handler that is left is the
  ledger's `Lose`.

**`OpcodeProofs`**: `TypeCorrect` needs that the handler remembers no time of the
future. `TrueProfile` (`OneFileIsTrue`) needs that, in the first request of a process
with one file and as long as the log is empty, what the handler remembers is the
visit that is open, and its tables are the visits that are over (`Follows`) -
unless the first time could not be read and no entry says so (`unlogged`).

**`ReportsProofs`**:

* `Inductive`: what log and file have come to at each step (`RInv`), from which
  `FailuresReported` (`MissingIsReported`) and `OutcomesKept` (`OutcomeExpected`)
  follow: Reports and Prof fit together for any tables, limits and faults.
* `TopOfProfile`: `TopN`. `TInv` says that the slice is the first units in the order that the
  sort left (`Sliced`), and the rows the first of the slice up to one that is not above
  the threshold (`Selected`). It needs nothing of the size passed to
  `zend_hash_init`, and so holds also for a limit that is cut to 32 bits.
* `FilesInductive`: `WInv`. A string table numbers its keys from 1, without gaps
  (`Numbered`), and keeps the indexes it gave (`Keeps`); so what was described of the
  first units stays described while strings are added for the next ones
  (`Described`), and the array of strings has no place unset (`Filled`).
  `WellFormedFiles` (`WellFormed`) and `FilesHaveUnits` (`FileHasUnits`) follow, for any
  names: also that of a function named like a sample type.
* `TypeCorrect`: `TypeOK`, from the three.

**`ProfProofs`**:

* `Inductive`: `Installed`, `Acquired` and `Released` give what is held in each
  phase as a function of the mode, which relates the switches of MINIT, RINIT and
  RSHUTDOWN to one another.
* `TablesFound`, `NothingIsLeft`: `HooksFindTables` and `NothingLeft`, from it and
  two lemmas that say what hooks find in a request (`RequestFinds`) and after it
  (`LateFinds`).
* `BoundsHold`: `RunsWithinBounds`, from the invariant `Bounded` (either nothing is
  active, or the configuration is one that `build_config` checked) and the lemma
  `BuiltConfig`.
* `Agreement`: `ReadersAgree`, from the invariant `Chosen` (the configuration is what
  `build_config` made of the environment) and one lemma for each of the two readers.
* `TypeCorrect`: `TypeOK`, which needs the types of what `build_config` returns.
* `Answered`: `OneAnswer`. `AInv` adds what it depends on: while the request runs,
  what was logged in it is still in the log, so that RSHUTDOWN prints one of log and
  result.

Only model-checked: the two liveness properties, `EndingFinishes` and
`SamplingGoesOn`, which rest on fairness and so on ENABLED, which the prover does not
handle. That the five findings are violated is, by nature, shown by TLC.

## 5. What the code does differently from what is said of it

The five runs marked **violated** are listed under `findings` in `PROJECT.json`
with the line of the code and the text it contradicts. The models contain
more ways of the code that a reader of readme.md would not expect, and the
properties are stated so as to leave them open:

* `ht_slice` makes room for `limit` elements, however few there are
  (`helpers.c:129`): an accepted limit that is large ends the report
  (`ResultTable`, step `bailed`).
* The results of `fprintf` and `fclose` are dropped (`sampling.c:153, 159, 320`):
  a file may be incomplete without a message (`ProfileFiles`, `WriteEntry` and
  `Close`); `MissingIsReported` is about the failures that are looked at.
* When the SIGPROF handler hits the memory limit (`sampling.c:338-350`), its sample
  is in neither the units nor the log: RSHUTDOWN prints a profile whose total is short,
  without a message (`Sampling`, `HitBails`). `ReportComplete` and SampleLedger count
  such a sample as lost and show that no other is; func mode in the same place keeps a
  call that is not accounted for from being printed, by the short stack
  (`FuncObserver`, `prof_observer_end_bails`).
* The code of all files is one function `main`, shown with the file that was
  sampled first (`sampling.c:348`); `ReportComplete` asks only that it is a file
  of some function of that name.
* The memory of a function includes what the profiler allocates in its calls: the
  whole first table, of 4096 slots, for the functions that are open when the first
  call ends (`func.c:93, 124`). `OverheadBounded` bounds the error by what the
  profiler has allocated. `get_memory_with_units` drops the sign (`helpers.c:151`),
  so memory that was freed looks like memory that was allocated.
* In a forked process the CPU time of the calls that were open is the difference of
  two clocks (`helpers.c:24`), sampling has stopped (`sampling.c:59`), and what was
  sampled before is reported by both processes. `FiguresExact` and
  `SamplingGoesOn` have the first two as exceptions.
* User code that another module's RSHUTDOWN calls, such as a session save handler,
  is observed with tables that were destroyed, in func and opcode mode
  (`Prof`, phase `lost`). Sampling mode is safe from it.
* When opcode mode runs out of memory between the entry of a file and its table
  (`opcode.c:103-104`), the report follows a pointer that was never set
  (`OpcodeProfiler`, phase `lost`). It is mended when another line of the file is
  entered; `OneFileIsTrue` has as its exception only a request that had nothing to
  report.
* When the clock fails at the first opcode and there is no memory for the entry of the
  log (`opcode.c:85-87`), the time 0 is remembered without a message, and the row of that
  line would have the time since the origin of the clock (`OpcodeProfiler`,
  `FirstBails`); `OneFileIsTrue` has this as its exception.
* `opcode_last_file` survives its request (`opcode.c:24`), so that the last line
  of a preload script becomes a row of the next request.

## 6. Not modelled

* The generated protobuf code apart from its messages, the fields of time and
  duration, zlib, libfort and the engine's hash tables and
  allocator: they are used as functions that succeed or fail. In particular that
  `emalloc` in a signal handler may corrupt the allocator (`sampling.c:346`) is
  listed as a hazard only.
* Signals that are merged while one is handled, the time handlers take, and a signal
  that is pending when a handler is left.
* Rounding: the code sums times in doubles, the models in integers (`FuncFigures`,
  `FuncObserver`), and thresholds are integers too.
* Reports covers func and sampling mode. The report of opcode mode, which has neither a
  limit nor files, is part of OpcodeProfiler, so that `OutcomeExpected` says nothing of
  it; what Prof reckons with for it is the table, or an abandoned report. That a file is
  written together with an entry in the log is one of ReportOutcome's outcomes with an
  entry.
* A failing `setitimer` in tear-down is in Sampling only; Prof has the failing one of
  RINIT.
* `prof_compare_reverse_numeric_unstable_i`: nothing calls it; `local_malloc` and
  `local_free`, which only forward.
* Formatting of rows, the header's total time, `phpinfo`.
* More than one process at a time: the models follow the child of a fork. Both
  processes write the same output file.
* What should happen when an RSHUTDOWN ends early: its timer runs on while the
  module is unloaded, and a signal then kills the process. `NeverKilled` has this
  as its exception.

## 7. Plan

Done in this order: func mode and its proofs, sampling, opcode mode, the console
table, the writers, configuration and life cycle; then the composition of the
reports and their outcomes, the figures of func mode, the ledger of sampling,
forks, abandoned requests and code after RSHUTDOWN; then a theorem for every
invariant that a run checks. Next:

1. Converse theorems where a property has an exception: that the exception is as
   narrow as it can be, as `NeverWithheld` shows it for the log of func mode. A candidate
   is that a complete file is always written when nothing fails.
2. An abstract specification of the console table (the top n in one step), with
   ResultTable as its implementation.
3. An abstract specification of opcode mode. It would have to leave open whatever a
   second file or request does, and say little more than `OneFileIsTrue`.
