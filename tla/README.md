# Omniprobe: TLA+ models, model checking and proofs

Omniprobe instruments AMD GPU kernels. A compiler plugin adds, next to every
kernel, a *clone* that reports memory accesses or basic blocks; a library
preloaded into the application (`hsaInterceptor`) replaces the kernels it
dispatches by their clones, rewrites their arguments and completion signals,
and hands the messages the clones send to analysis handlers that write a report
per dispatch. This directory holds TLA+ modules for the parts of that system
that decide something, TLC configurations that check them on small instances,
and TLAPS proofs that extend the safety results to every value of the constants.

Paths below are relative to the repository's root. `PROJECT.json` maps every
definition to the lines it models and lists the runs, the mutants that show a
property can fail, the findings and the hazards.

```
tlc -workers 2 -config MCInterceptor.cfg MCInterceptor    # a run
tlapm InterceptorProofs.tla                               # the proofs
```

## 1. Inventory

| component | state it keeps | operations | module |
|---|---|---|---|
| interceptor (`src/interceptor.cc`) | `sig_pool_`, `pending_signals_`, `pending_kernargs_`, `dispatch_count_`, `shutting_down_`, `mutex_` | queue creation, `OnSubmitPackets`/`doPackets`/`fixupPacket`, `signal_runner`/`signalCompleted`, `ensure_shutdown`, destructor | `Interceptor`, `HsaQueue`, `InterceptorProofs` |
| kernel cache `coCache` and dispatch selection (`src/utils.cc`, hooks of `interceptor.cc`) | `lookup_map_`, `arg_map_`, `runtime_kernel_objects_`, `kernel_objects_`, `alternatives_`, `dispatched_kernels_`, `excluded_executable_cache_` | `addFile`, the symbol hook (`addKernel`, `isKernelFromExcludedFile`, `registerRuntimeKernel`), `findInstrumentedAlternative`, `getArgDescriptor`, `canDispatch` | `KernelCache`, `KernelCacheProofs` |
| kernel arguments (`computeKernargData`, `fixupKernArgs`) | none between calls | compute the descriptor, fill the clone's segment | `KernArgs`, `InterceptorProofs`, `Induction` |
| cache watcher (`cache_watcher`, `setLocation`) | inotify watches, `kernel_cache_` | scan at start, watch, add on move | `CacheWatcher`, `KernelSources`, `KernelSourcesProofs` |
| library filter (`src/library_filter.cc`) | three pattern lists, `active_` | load, expand, exclude | `LibraryFilter`, `KernelSources`, `KernelSourcesProofs` |
| memory analysis handler | accesses per source position, conflict sets, file names | `handle`, `clear`, the reports | `MemoryAnalysis`, `Handlers`, `MemoryAnalysisProofs`, `Induction` |
| basic-block handler | `wave_states_`, `block_info_`, `compute_resources_` | `handle`, `updateComputeResources`, `report` | `BasicBlocks`, `BasicBlocksProofs`, `Induction` |
| LLVM passes (`src/instrumentation/`) | the module being rewritten, the scope, `LocationCounter` | parse the scope, clone, insert calls | `InstrumentationPass`, `InstrumentationPassProofs`, `Induction` |
| comms_mgr, handler manager, plugins (`src/comms_mgr.cc`, `src/utils.cc`, `plugins/`) | `mem_mgrs_`, `plugins_`, the objects checked out | `setConfig`/`setHandlers`, `addAgent`, check-out, check-in, destructor | `CommsManager`, `JsonLogProofs`; check-out and check-in also as steps of `Interceptor` |
| heatmap, time intervals, message logger | `page_counts_`; first start, last stop, total and number; none | construction, `handle`, `report` | `Handlers`, `JsonLogProofs` |
| log duration (`logDuration`) | the log file | header, a line per dispatch | `CommsManager`, `JsonLogProofs` |
| script and log (`omniprobe/omniprobe`, `report_json`) | the environment, the log file | `setup_env`, run, Ctrl+C, `finalize_json_output` | `JsonLog`, `JsonLogProofs` |
| Python handler, reconfiguration | — | — | not modelled, see section 7 |
| HSA runtime, GPU, dh_comms, kernelDB, LLVM, glob(3), inotify | — | — | external: modelled from how the code uses them |

**How they interact.** The HSA runtime calls `OnSubmitPackets` on the
application's threads, one callback at a time per queue. `fixupPacket` asks the
kernel cache for an alternative, checks out a comms object, allocates new
kernargs, takes a signal from the pool and writes the packet on. The GPU
decrements the signal; `signal_runner` polls, retires the dispatch, decrements
the application's own signal and checks the comms object in, which runs the
handlers' reports. `cache_watcher` feeds the kernel cache from a third thread.
The exit path (`atexit`, the unload hook, the destructor) sets `shutting_down_`,
waits a while, joins both threads and destroys the signals.

**What is hard here.**
- Submitters and `signal_runner` recycle one signal pool. `getPendingSignals`
  reads the pending table *without* the lock (`std::lock_guard lock(...)`
  declares something else than was meant), so the runner works on a stale
  snapshot.
- An exception in the middle of a batch, after a signal was popped and buffers
  were allocated.
- Shutdown at any point of all this.
- Lookup tables filled under separate locks, while a compiler rewrites the
  directory they mirror.
- Byte-exact argument layouts; half-open line ranges; cache-line ends.
- Messages of many waves interleaved in one handler; keys compared with their
  padding.
- Messages still buffered when their kernel completes; several handlers in a
  chain whose order is that of library handles in memory; a report that throws.
- A dispatch that holds the interceptor's mutex while it asks the HSA runtime,
  whose functions are hooked and take that mutex.
- Reports appended in completion order to a log whose syntax depends on
  dispatch ids.

Each of these is listed with its line under `hazards` in `PROJECT.json`, with
the properties that cover it, or why none does.

## 2. Modules and their correspondence to the code

### Interceptor, HsaQueue
Variables keep the names of the members. `pc[q]` is where the thread inside the
callback of queue `q` is: `next` (the loop of `doPackets`), `fixup` (about to
take a dispatch through `fixupPacket`), `insert` (holding `mutex_`, a signal
popped), `write`. `rpc` is where `signal_runner` is, `mpc` the exiting thread.
`mutex_` is explicit, because one reader does not take it: while a submitter is
inside its insertion, `getPendingSignals` returns any subset of the table and
the entry being inserted. A step is the code between two points where another thread
can act; everything a handler does in between belongs to the step.
`FixupThrows` is the catch clause of `doPackets`: the rest of the batch is
dropped, the popped signal leaked. `MayThrow` says whether a check-out or a
report can fail. The GPU finishes running kernels in any order.

`HsaQueue` is what an application may assume of a queue without the tool:
packets reach the hardware once and in order, a completion signal is
decremented once and after its kernel. `Interceptor` implements it (refinement
mapping at its end). When fixing a packet up may throw, the abstract queue may
drop the rest of a submission too (`Drop`); with `MayThrow = FALSE` it is the
plain queue.

### KernelCache
Application threads ask for symbols (hook, `addKernel`, then
`registerRuntimeKernel` outside the interceptor's mutex), and dispatch
(`findInstrumentedAlternative`, `canDispatch`, `getArgDescriptor`, resolution
on demand); the watcher adds symbols of a file one by one, descriptor and
lookup entry in separate steps. A symbol has a name and a file; two symbols of
one name are two builds of a kernel. Between `addKernel`, which records the
kernel under `mutex_`, and its registration, `isKernelFromExcludedFile` looks
the executable's verdict up under one lock and `QueryExecutable` stores it under
another; `Located` are the kernels whose executable the loader can name. A
dispatch keeps `mutex_` from the choice of its alternative until it has a
descriptor, and `NoLockup` says that no thread is then left without a step. The
environment variables - cache directory or not, kernel filter, dispatch mode -
are chosen in `Init`.

Two properties hold under a condition on the code objects, spelt out in the
module. `ClonesDescribed`: clones can be located by the loader and their code
objects have metadata, without which a dispatch really aborts.
`DistinctNames`: of the files that are not excluded, no two have a kernel of one
name; a descriptor is looked up by name, so that otherwise it may be the other
kernel's.

### KernArgs
Explicit arguments are sequences of sizes laid out by the ABI's rule; each byte
of the original's segment is tagged with what it is, so that a misplaced copy
is visible. The steps are those of `computeKernargData` (with
`roundArgsLength`) and `fixupKernArgs`.

### CacheWatcher
Triton creates directories and renames code objects into them, over an older
build if there is one (the script sets `TRITON_ALWAYS_COMPILE`); the constructor
scans the cache directory, the thread watches what it lists and then what
events announce. Events sit in the inotify queue until a `read` takes them all.
`build[f]` is the build of `f` on disk, `coCache[f]` the one last given to
`addFile`, `due[f]` a history: the last build that arrived where the tool could
see it, in the cache directory before its scan or under a watch. The thread's
work begins after the constructor, whose lock on the singleton it needs. Failing
`inotify_add_watch` calls are enabled by `WatchFails`; an `addFile` that throws
(`AddFileThrows`) ends the scan, whose handler is outside its loop, and in the
thread, where nothing catches it, the process (`HandleThrows`).

### LibraryFilter
Patterns are of the kinds that glob(3) and the translation to a regular
expression tell apart; paths are sequences of names, and the path that glob(3)
finds is taken to be the real path. One run enumerates every filter over the
small library set, valid or malformed at any section. `Names` gives patterns one
meaning, the documented one, in every list; `FilterRespected` says what is added
in these terms, though the code matches included patterns with glob(3) and
excluded ones with a regular expression. The two agree on absolute patterns
without `**` (`Simple`); for the others it says only what may be added.

### KernelSources
The constructor takes one of two branches: with `LOGDUR_KERNEL_CACHE` set it
scans the cache (`CacheWatcher`), without it adds files under the filter
(`LibraryFilter`), and the watcher thread then has nothing to do but to end. The
filter is read in either case; with a cache nothing consults it, and its reading
is left out there.

### MemoryAnalysis
`handle` for LDS and global messages, `clear`, and what the two text reports
list. `BankConflictsExact` compares the accumulating conflict sets with the
fewest rounds the lanes can be served in. `ExcessReported` compares the report
with the bytes each message touches: it assumes that the lanes of a message
access disjoint bytes, because a broadcast uses fewer lines than counted as
needed and would hide another message's excess in the sums.
`LdsFiledByLastName` says under which file name an LDS access is filed: names
come from global accesses, the last one that was not dropped counts. Positions
are lines and columns: two that are told apart differ in one of these, so that
they have two entries even if neither file has a name.

### BasicBlocks
Waves walk a control-flow graph and send a message on entry to each block;
the host handles the messages of a wave in order and of different waves in any
interleaving. `path` is a history from which the expected charges are computed:
`HeardAt(w)` are the messages of `w` that were handled and not passed over,
`Closed` the visits that a later one of them has ended, `Closing` the message
that ended it. A block's expected figures are sums over the set of its closed
visits, so that they do not depend on an order the handler cannot know.
`report` runs when all is handled: totals, a record per block in the order of
their addresses, the instruction counts (which go on from block to block, so
that only the last record counts the whole kernel), and the compute units. The
two loops of the instruction counts are recursive functions, over the
instructions of a block (`Counted`) and over the blocks (`BlockRecords`).
`pads` are the values the unwritten padding bytes of the wave key take in a run
of the program, chosen in `Init`; each message meets one of them. The handler's
assertions, that a block index is in range and that no message is a time
interval, hold of all messages the model sends.

### InstrumentationPass
The three passes on a module of kernels and helper functions whose
instructions carry a source position. `M` is rewritten instruction by
instruction, as the code iterates. Scope definitions come from the variable and
the file, well-formed or not. A call that a pass inserts has the opcode
"submit", which no instruction of the input has; the application's own calls are
instructions like any other. `SameCode` compares a block of a clone with the
original's: the instructions that are not inserted, counted from the start, are
the original's in their order. Lines are numbers without a width: a line beyond
32 bits in a definition, which the code truncates, is not considered.
`BlocksNumbered` and `IntervalsBracket` are about the blocks that the scope
selects some of; of the others, which the code instruments too, they say
nothing.

### Handlers, CommsManager, JsonLog
`Handlers` has the message handlers as values with operators: `Takes` and `Kept`
(handle), `WrittenFirst`, `WrittenOn`, `WrittenLast` (what is written at
construction, per message, by report). Text is a sequence of tokens: the
brackets and commas of an array ("open", "close", "comma"), objects, records and
lines that are not JSON, each with the id of its dispatch. The loop over the
items of a message and the chain's loop over a buffer are recursive functions;
`Exact` compares the result with sums, minima and counts over the *set* of items
taken (`ItemsOf`), which know no order.

`CommsManager` gives every instrumented dispatch an object with a chain of such
values. dh_comms is external: the kernel fills a buffer (`Submit`), a thread of
the object passes messages to the first handler that takes them (`Process`),
`stop` passes on the rest. `setHandlers` may put the plugins in any order, as
their map is ordered by handle. `checkinCommsObject` lets the first `n` handlers
report; `n` is smaller than the chain if `stop` or a report throws, and the
object is then leaked. `addAgents` chooses each agent's pool; for an agent
without one check-out answers NULL, which `fixupPacket` dereferences (`faulted`).
A pool of which a property cannot be queried is one that may not be allocated
from.
Without instrumentation each dispatch gets a line of its duration.

`JsonLog` composes `CommsManager` with the script: the command line becomes the
environment, the application runs and ends or is interrupted, and
`finalize_json_output` closes the array. A report may be too short to leave the
buffer of `report_json`'s stream, which is never closed.

## 3. Runs

Each takes about a minute or less on two cores, `basic_blocks` two to three.

| run | states | what it shows |
|---|---|---|
| `interceptor` | 191,818 | two queues, failing check-outs and reports, exit at any time: signals have one owner, a running kernel's resources are not freed, the runner meets no unknown completed signal, nothing is left behind; the inductive invariant of the proofs, `SystemInv`, holds; the interposed queues implement `HsaQueue`; every dispatch is retired or the exit path starts, and the exit path ends |
| `kernel_cache` | 498,676 | with and without cache directory, every dispatch mode, a newer build appearing: descriptors are found, excluded libraries not run whichever thread found the verdict, `-d 1` instruments a kernel once, no thread is locked out; without cache directory the descriptor used is that of the kernel launched; the inductive invariant `CacheInv` holds |
| `kern_args` | 1,440 | every layout of up to three arguments of 1, 4 or 8 bytes |
| `kernel_sources` | 32,694 | with a cache: of each code object the newest build that came in sight is learnt, rebuilt and renamed over ones included, and the inductive invariant `WatcherInv` holds; without: what is loaded, named by patterns without `**` or needed by what they name is added exactly if no exclude pattern names it, nothing is added that no list names, and a broken filter filters nothing; the thread ends |
| `memory_analysis` | 435,786 | bank conflicts, reported excess of cache lines and file names against their reference definitions |
| `basic_blocks` | 3,607,864 | each block is charged its own visits and their time, whatever the interleaving, if the padding of wave keys is stable; the report's totals, last record and compute units; `BlocksSupport`, what the proofs add to these properties |
| `instrumentation_pass` | 15,000 | originals untouched, clones differ by the inserted calls only, exactly the accesses that the scope selects are reported, blocks in scope are numbered in order, intervals bracket them |
| `json_log` | 1,265,138 | each report gives the figures of its own dispatch, messages buffered at its end included; NULL objects only for agents without a usable pool; no memory analysis lost or doubled in the log; a JSON array whenever dispatch 1 is the first to be written |

Four runs are expected to end in a violation: they state what a comment or a
document of the repository says, where the code does otherwise (`findings`
quotes both).

| run | what TLC exhibits |
|---|---|
| `exit_drain` | a dispatch that ended before shutdown stays unretired: the runner leaves as soon as it sees `shutting_down_` |
| `rebuilt_kernel` | `addFile` replaces the descriptor under one lock and the kernel under another; a first dispatch in between (mode `1`) runs the old clone with the new build's descriptor |
| `json_malformed` | an uninstrumented first dispatch: no opening bracket |
| `lost_kernel` | `mkdir`, then the rename, then the watch: the file is there before the watch and has no event |

**Other divergences met while modelling.** The models follow the code in each of
these; none has a run of its own.

- `DescriptorOfAlternative` fails in a second way, in mode `all`: once both
  tables have the newer build, a kernel that was dispatched before still gets its
  old clone, pinned in `alternatives_` (`utils.cc:740`), with the new descriptor.
- A dispatch that throws takes the barriers after it in its batch along (`Drop`),
  though `interceptor.cc:845` says that every non-dispatch packet is written.
- The symbol hook registers kernels `LOGDUR_FILTER` does not match
  (`registerRuntimeKernel`; `docs/usage.md:160` "Only matching kernels").
- `-d random` draws each dispatch on its own (`canDispatch`;
  `docs/usage.md:185` "one dispatch per kernel").
- The exclude list is not consulted for the cache directory
  (`ExcludedNeverRun` is about runs without one; `docs/usage.md:261`).
- A later global access without debug information overwrites a file name
  already known (`memory_analysis_handler.cc:454`), and an LDS access before the
  first global one of its file is filed under no name (`LdsFiledByLastName`).
- The memory analysis in another format than JSON is printed on the console
  whatever `--log-location` says (`AnalysisReport`).
- With several analyzers the first handler that takes a message keeps it from
  the others; the logger and the basic-block handler take every message, so
  what the others count depends on the order of library handles.
- `basic_block_analysis::report` never resets `inst_counts` between blocks.
- With `LOGDUR_DISPATCHES` empty `dispatchController` leaves two flags
  uninitialised (`utils.cc:1221`).
- `kernel_objects_` and `queues_` are never erased: a reused handle keeps its
  old entry (`interceptor.cc:953`).
- `memory_analysis_handler.cc:891` describes a HIP call that hangs when reports
  follow each other; the code avoids it only if a kernel filter is set.
- `include_with_deps` follows direct dependencies only
  (`library_filter.cc:398`; `tests/library_filter_chain/run_test.sh:304`), and
  `**` in an include pattern is given to glob(3), which reads `**/rocblas/**` of
  the example (`docs/usage.md:251`) as `*/rocblas/*` below the working directory.
- Wave keys are compared with their uninitialised padding
  (`inc/basic_block_analysis.h:55`): when it differs between two messages of a
  wave, visits are charged to the wrong block or to none, hence `KeysStable`.
- A scope `N:M` stops before line `M` (`InstrumentationCommon.cpp:463`;
  `docs/hip-instrumentation.md:137`), and the basic-block passes read no scope
  (`AMDGCNSubmitBBStart.cpp:120`; `docs/hip-instrumentation.md:125`).
- Code objects already in subdirectories of the cache at start are not scanned
  (`utils.cc:674`; `docs/triton-instrumentation.md:277`): such a kernel is unknown
  unless Triton compiles it again. They are not in sight, and
  `NewestInSightKnown` claims nothing of them.
- The lanes charged to a block are those of the *following* message
  (`basic_block_analysis.cc:305`).
- The address pass answers "unchanged" when it added clones and found nothing
  in scope. The block index of a message counts IR blocks and is used on the
  disassembly's blocks. A scope's file is matched as a plain string suffix.

## 4. Bounds

- *Interceptor*: two queues and two dispatches give two submitters racing the
  runner, either with a signal of its own or one after the other on a recycled
  signal; `SIGPOOL_INCREMENT` 1 (8 in the code) makes the pool run out;
  `DrainLimit` 1 (1000 in the code) covers both a drain that succeeds
  and one that gives up. One batch has a packet after its dispatch, for the
  partial failure. The proofs remove these bounds for the safety invariants.
- *KernelCache*: two threads, a kernel with its clone, a newer build of both,
  a clone in an excluded file, and a kernel the loader cannot locate; up to
  three dispatches, so that a kernel is dispatched again after its alternative
  was cached. Threads are interchangeable (symmetry).
- *KernArgs*: sizes 1, 4, 8 reach every residue that the rounding to 8 and the
  pointer's alignment tell apart; hidden parts absent, of one word, of three.
- *JsonLog, CommsManager*: four events (`MaxEvents`: dispatches and messages
  together) give two dispatches with two messages in flight, or four dispatches
  in every order of completion. Eight command lines: no instrumentation, each
  analyzer, two of them, the same library twice, an unknown name, a missing
  library. One agent has a usable pool between others, one has none. Pages of 2
  addresses, times up to 7 so that totals wrap.
- *MemoryAnalysis*: lane sets and addresses that meet in a bank, or differ in
  one; two messages, for what one leaves behind for the next (`clear` starts
  again, with the names learnt). Two positions of one file, one of another. A
  cache line of 8 bytes with accesses of 4 reaches every alignment including straddling.
- *LibraryFilter*: a chain of three libraries, for direct and indirect needs.
- *BasicBlocks*: two waves, one loop, three entries each (`MaxVisits`), a block
  without instructions; 1 and 64 lanes; two values of the padding.
- *InstrumentationPass*: up to one definition per source of the scope, ranges
  that start, end and stop short of the instructions' lines.
- *CacheWatcher*: two directories, one file from before, one at top level, two
  builds of each (`MaxBuilds`): one renamed over the other while the first is
  scanned, announced or read. `lost_kernel` needs one file, in one build.

`CHECK_DEADLOCK FALSE` appears where the modelled activity ends: a finite
number of messages, dispatches or files. `Interceptor` keeps the deadlock check
on; after the exit path only `CleanupAgain`, the second, idempotent clean-up,
is left.

## 5. Fairness

- `Interceptor`: weak fairness of each submitting thread, of `signal_runner`
  and of the exiting thread — operating-system threads that are never starved
  and whose every wait has a timeout — and of `GpuFinish(p)`: a kernel on the
  GPU ends. Nothing forces the application to submit, or to exit.
- `CacheWatcher`, `KernelSources`: weak fairness of the watcher thread and of
  the scan in the constructor that starts it. Nothing forces Triton to write.

## 6. Proofs

Eight modules hold theorems, seven about models and `Induction`, which six of
these share. `InterceptorProofs` also has the proofs about `KernArgs`,
`KernelSourcesProofs` those about `CacheWatcher`, `LibraryFilter` and
`KernelSources`, `JsonLogProofs` those about `Handlers`, `CommsManager` and
`JsonLog`. Every theorem is about every value of the constants that satisfies the named
assumptions; TLC evaluates these assumptions in the runs.

| module | theorem | what it states |
|---|---|---|
| `InterceptorProofs` | `TypeCorrect` | `Spec => []TypeOK` |
| | `SignalsHaveOneOwner` | `[]OneOwner` |
| | `NoUseAfterRetire` | `[]DeviceOwnsItsResources` |
| | `StaleSnapshotHarmless` | `[]NoPendingSignalMissing`: the branch for a missing pending signal is dead although the snapshot is taken without a lock |
| | `EverythingGivenBack` | `[]NothingLeftBehind` |
| | `SystemInvariance` | `[]SystemInv`, from which the others follow |
| | `Transparency` | `Spec => TransparentQueue`: the interposed queues implement `HsaQueue` |
| `KernelCacheProofs` | `DescriptorAlwaysFound`, `ExclusionHolds`, `LaunchedOnce`, `DescriptorIsOfAlternative`, `CacheTypesKept` | `ArgDescriptorFound`, `ExcludedNeverRun`, `OncePerKernel`, `DescriptorWithoutCache`, types |
| | `CacheInvariance` | `[]CacheInv` |
| `InterceptorProofs` (`KernArgs`) | `CopiesAlwaysFit`, `ArgumentsArrive`, `ExtraHiddenAlwaysZero`, `SegmentInvariance` | `CopiesFit`, `CloneSeesItsArguments`, `ExtraHiddenIsZero`, `SegmentInv` |
| `KernelSourcesProofs` | `WatcherKnowsNewest`, `WatcherInvariance` | `NewestInSightKnown`, `WatcherInv` |
| | `FilterAlwaysRespected`, `BadFilterHasNoEffect` | `FilterRespected`, `BadFilterIgnored` |
| | `SourcesInvariance` | `WatcherInv` and `FilterInv` |
| `MemoryAnalysisProofs` | `ConflictsAreRounds` | what `bank_conflict_count` counts is the least number of extra rounds, for every mask and addresses |
| | `ConflictsExact`, `ExcessAlwaysReported`, `LdsFiled`, `AnalysisInvariance` | `BankConflictsExact`, `ExcessReported`, `LdsFiledByLastName`, `AnalysisInv` |
| `JsonLogProofs` | `ReportsOnce`, `ArrayWhenFirst`, `SessionInvariance` | `EveryReportOnce`, `ArrayIfFirst`, `SessionInv` |
| | `FaultsNeedPool` | `FaultNeedsPool` |
| | `ReportsExact` | `FiguresExact`: a report has the figures of its own dispatch |
| `BasicBlocksProofs` | `TimesAlwaysExact`, `OnlyLiveWavesKept`, `UnitsAlwaysRight`, `BranchinessAlwaysInRange`, `LastRecordAlwaysExact`, `TablesSupported` | `BlockTimesExact`, `StatesOfLiveWaves`, `WavesOnUnits`, `BranchinessInRange`, `LastRecordCountsKernel`, `BlocksSupport` |
| `InstrumentationPassProofs` | `ClonesAlwaysFaithful`, `ReportsAlwaysFollowScope`, `BlocksAlwaysNumbered`, `IntervalsAlwaysBracket`, `PassInvariance` | `ClonesFaithful`, `ReportsFollowScope`, `BlocksNumbered`, `IntervalsBracket`, `PassInv` |

Each module also states that its invariant is inductive (`IInvInductive`,
`RetireInductive`, `CacheInductive`, ...), with one lemma per action and, under
it, a step per conjunct the action can disturb.

### The arguments

**Interceptor.** None of the safety properties is inductive alone. That
the GPU's signal stays registered needs a dispatch to be pending on one signal
only (`PendingOnce`) and freed kernargs to belong to the dispatch retired
(`KernargsMatch`). That a dispatch about to be written is in no other table
needs packets to wait in one place (`TodoDistinct`), to have left no trace
before (`TodoFresh`, `UnsubmittedClean`), and what is in hand to match the
program counter (`HandOK`, `MutexHeld`). That a stale snapshot is harmless
rests on `Armed`: a signal retired since the snapshot is re-armed *before* it
goes back to the pool, so the runner sees 1, not 0, when it reaches it.

That nothing is left behind is the converse, and needs its own half of the
invariant, `RetireInv`: what is live is in the table `signalCompleted` will find
it in, or in the hands of the thread that will free it (`Tracked`), a dispatch
is checked in once (`ReportingOnce`), and a signal of the application is
decremented only after its kernel ended (`RunningWritten`,
`PendingUnsignalled`).

*Refinement.* `StepSimulated` shows that under the invariant each step is a step
of `HsaQueue` or leaves its variables alone: `todo` is the abstract queue of a
submission, and a dispatch is signalled when the application's own signal has
been decremented. Visible are a submission, a packet written, a batch dropped, a
kernel that ends and a dispatch that is signalled; taking a signal, recording it,
reporting and the whole exit path are stutters. The step that needs the invariant
most is the last: `signalCompleted` acts on what a *stale* snapshot says, and the
invariant makes the dispatch it finds an ended one that has not been signalled.

**KernelCache.** `ThreadsOK` ties a thread's position to what it holds, and
`mutex_` to the second half of `fixupPacket`. `ExcludedNeverRun` follows from `VerdictsRight` (a stored
verdict is the filter's, whichever of two racing threads stored it) and
`OnlyUsable` (every table that a clone can be taken from has usable kernels
only). `OncePerKernel` needs `UsedUp`: a kernel that was launched, or is about
to be, has its alternative in `dispatched_kernels_`, under the alternative the
first dispatch pinned. That the second attempt of `getArgDescriptor` succeeds
needs `Resolvable`: a known clone's name has a descriptor or a kernel object to
resolve it from, *and* a dispatch that is resolving has not passed that object
over. `NamesMatch` connects these tables, all of which are indexed by name.

The condition `DistinctNames` of `DescriptorWithoutCache` comes from the proof:
without it the property fails as soon as two files that are not excluded hold
kernels of one name, which the small instance of the run does not contain.

**CacheWatcher.** Of each code object the build that last came in sight, or a
later one, has been read, or the queue still announces the file, unless the
thread has stopped reading (`NothingForgotten`): an event that is handled reads
the build that is there by then, so a file renamed over while its event waits is
read in the newer build. No build is known that is not there (`NothingInvented`),
and before the scan only the cache directory is in sight (`BeforeScan`).

**LibraryFilter.** What has been added is what was selected, looked at and not
excluded; the phases of loading come in order. What was selected is described by
glob(3), what is to be added by the documented meaning of the patterns:
`GlobIsNarrower` shows that whatever glob finds the pattern names, and
`GlobIsEnough` that on absolute patterns without `**` it finds all of it.

**KernArgs.** `SegmentInv` gives the contents of the clone's segment, byte by
byte, after each copy. It is proved for any number of arguments, which needs to
know what the recursion that lays them out computes: that the function exists,
is monotone and aligned, that the argument of a byte is unique, and that a clone,
whose layout has one pointer more, agrees with the original up to that pointer.

**BasicBlocks.** A wave's state is that of its last message (`StatesCurrent`);
handling a message thus closes one visit, `Closed` gains one element, and the
sums over it gain one term. `BranchinessInRange` needs the totals over all
blocks (`TotalsExact`); `StatesOfLiveWaves` needs that nothing follows an exit
(`PathsFollowKernel`). All of it holds under `KeysStable` only: wave keys are
compared with their padding.

`LastRecordCountsKernel` is about two nested loops. The inner one adds an
instruction once per occurrence in the block (`CountedFacts`), the outer one a
block at a time, so that after `i` blocks the table has the sum over the blocks
before; that sum is over a set, in which the order of addresses no longer shows
(`SumReordered`), and it is the sum over the closed visits (`InstructionsExact`,
kept by every message).

**MemoryAnalysis.** Two facts about counting come first.

*Bank conflicts.* `bank_conflict_count` looks at the first dword of each lane
only, and takes the largest number of them on one bank. The reference,
`ServedIn(n, ...)`, asks for an assignment of rounds in which no bank serves two
dwords at a time, for every dword of every lane. One direction is that dwords of
one bank need different rounds (`RoundsAtLeast`). For the other a round is the
rank of the lane's first dword among those of its bank (`Ranks`, `RoundsEnough`);
that this serves the other dwords too rests on alignment: two aligned accesses
that meet in a bank begin on the same bank, and have the same dword there if they
begin with the same one (`FirstDwordTells`). `ConflictSets` shows that the tables of lanes written out in
the code are the phases.

*Cache lines.* Disjoint accesses touch as many bytes as they have, a line has
`cacheLine` of them, so the lines used are at least those counted as needed
(`NeededIsLeast`). Hence no message has a negative excess, and a sum of excesses
is positive exactly if one of them is, which is what the report tests.

*The tables.* `AnalysisInv` describes each table by the messages since the last
`clear`: the keys and which of them have an excess (`GlobalOf`), the name known
for each hash (`NamesOf`), the entries of LDS accesses (`LdsOf`), and, over all
names of a position, the sums of conflicts (`SumsOf`); names survive a `clear`
(`known_before`). The bank sets are empty between messages: one left behind
would count as a conflict of the next message.

**CommsManager, Handlers, JsonLog.** Three invariants.

`SessionInv` is about the log. `OnceInv`: it has one object for each analysis
written and no other, and a dispatch whose object is still to be checked in is
not among them; a leaked object never is checked in again. A report adds one
object if its chain has at most one memory analysis (`ChainInv`), which is so
because the plugins are distinct libraries whatever the command line repeats
(`PluginInv`). `ArrayInv`: without other handlers the log of a fresh file is the
objects in the order written, a bracket before dispatch 1 and a comma before each
other, so that `finalize_json_output` completes an array if dispatch 1 was the
first. The step
behind it is what `FlattenSeq` makes of the pieces that handlers write.

`PoolInv`: once agents are added, exactly those with a usable pool have a manager.

`FiguresInv` is about the figures. `ChainSound`: after any number of messages,
each handler holds the figures of those it has taken, where a message is taken
by the first that wants it; whether a handler wants a message does not depend on
what it has counted (`Later`). Each object has in its buffer the messages that
are not yet passed on, so that emptying the buffer at check-in, before the first
report, makes its chain complete. Figures are sums over items, of which a
message adds one after the other (`Part`); a page is an interval of addresses,
which needs `RestUnique`, and totals wrap at `UINT64_MAX + 1`.

**InstrumentationPass.** The pass rewrites what it iterates over, and its
properties are about the result, so that the invariant says what is done and what
is untouched around the instruction being visited. `Layout`: the module is the
input, the device library, the clones. `ClonedOnce`: a kernel is still to be
cloned or has its one clone. `Behind`: blocks that were visited are as the
properties ask; `Ahead`: those still to come are the original's, and of the
current block exactly the part before the iterator has been reported. An
iterator that stopped on an inserted call, or passed over the access behind it,
would break it. That an insertion keeps the code (`InsertKeepsCode`) rests on a
bijection between the positions before and after it. `ScopeRead` says what the
entries are, and `ScopeMeansWanted` that matching them against a position, with
the half-open ranges of the code, selects what the definitions say.

**Induction.** The library's induction theorems are about an arbitrary
predicate, an operator parameter no installed prover can instantiate.
`SetInduction` states induction for a *set* of natural numbers, an ordinary
value, and is proved from the well-foundedness of `<`; `UpTo` is its form for an
interval. From it follow the existence of the recursive functions used here
(`RecursionExists`: a first value and a step), and what
`SumFunction` of the community modules computes: it picks the elements of a
finite set in some order, and the lemmas show that the order does not matter
(`AnyElementFirst`), that a sum over one element more is larger by that
element's term (`SumExtend`), and how it changes with one term (`SumChange`,
`SumPut`). `Division` and `RestUnique` are what the proofs need of quotient and
rest.

### Assumptions on the constants

- `ConstantsAssumption`, `BatchesAssumption` (`Interceptor`): the increment is
  positive, packets are of one kind, a queue is not named like the runner or
  "none"; a batch is a non-empty sequence of different packets.
- `CacheAssumption` (`KernelCache`): a symbol is determined by its name and
  file; a file is loaded by the application as a whole.
- `CacheAssumption` (`CacheWatcher`), `FilterAssumption`: every file has a
  directory; what a library needs are paths, and "/" is only the first component of one.
- `KernArgsAssumption`: sizes are 1, 2, 4 or 8 and hidden parts are multiples of
  8, as the ABI has them. Arguments passed by value that are larger are not
  covered by the proof.
- `BlockAssumption`: finitely many waves and blocks, at most 64 lanes, a
  sequence of instructions for each block, and exactly the blocks that end in
  `s_endpgm` have no successor.
- `MemoryAssumption`: a message has an active lane, of 64, and accesses of at
  least one byte; a cache line has at least one byte; each position has an entry
  in the disassembly and a hash. LDS accesses are aligned to their size because
  the action `handle` asks for it, not by an assumption: LDS data is naturally
  aligned.
- `HandlersAssumption`, `CommsAssumption`, `JsonLogAssumption`: a page has at
  least one byte; times are at most `UINT64_MAX`; each agent has a sequence of
  pools, and messages carry addresses, intervals or a header alone.
- `PassAssumption`: what LLVM's verifier asks of a module (a block ends in a
  terminator, phis come first), and that a line is a natural number.

### Only model-checked

- All liveness (`EveryDispatchRetired`, `ShutdownCompletes`, `WatchedIsLearnt`,
  `WatcherJoins`) and `NoLockup`: fairness and `ENABLED` are outside the prover.
- The four runs that end in a violation: there is nothing to prove.

`SegmentInv`, `FilterInv` and `PassInv` are proved and not listed as properties of
a run: their conjuncts say of the intermediate states what the listed properties
say of the last one. `AnalysisInv`, `SessionInv`, `PoolInv` and `FiguresInv` are
defined beside their proofs, since no reader of the models needs them.

## 7. Not modelled

- The layout of reports and lines, source lines quoted in them, demangling:
  formatting.
- The script's argument parsing, its checks of the Triton and HIP installations
  and its search for paths; options other than analyzers, instrumentation, log
  format and location are passed on one by one, and are inputs of the modules
  that read them.
- The name of a clone (`getInstrumentedName`): whether it is the demangled name
  of what the pass emits is decided by kernelDB's `demangleName`, which is not
  in the repository. `KernelCache` takes the correspondence as a constant.
- `growBufferPool`, `comms_pool_`, `pending_comms_`, `signalPool`: unused.
- `clear` of the handlers, except the memory analysis': never called here.
- Python handler, `config_receiver`, `reconfigure`: in no build target.
- Torn reads of a C++ map that another thread changes: undefined behaviour of
  the container. In `Interceptor` such a reader can miss entries and can see the
  one being inserted; in `KernelCache` it reads the map in one step.
- A callback in flight while `cleanup` deletes the singleton: the code has no
  protection, and the model assumes none is in flight.
- Reuse of kernel-object and queue handles by the HSA runtime.

## 8. Plan

Modules were written in the order Interceptor and HsaQueue, InterceptorProofs,
KernelCache, KernArgs, JsonLog, MemoryAnalysis, LibraryFilter, BasicBlocks,
InstrumentationPass, CacheWatcher, KernelSources, Handlers, CommsManager, then the proofs for
KernelCache, CacheWatcher, LibraryFilter, KernArgs, BasicBlocks,
InstrumentationPass, JsonLog with CommsManager, and MemoryAnalysis. Every safety
invariant of the runs but `NoLockup` is a theorem; what is left is out of the
prover's reach (section 6, "Only model-checked").

A composition of `KernelCache` and `Interceptor` is not planned: they share
`mutex_` only, and each keeps it explicit.
