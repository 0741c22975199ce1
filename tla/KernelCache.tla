----------------------------- MODULE KernelCache -----------------------------
(***************************************************************************)
(* Which kernel a dispatch runs: the kernel registry of hsaInterceptor     *)
(* (kernel_objects_) and coCache (src/src/utils.cc), filled by the hooked  *)
(* hsa_executable_symbol_get_info and by addFile, read by fixupPacket.     *)
(* A kernel symbol stands for its kernel object too; one agent.            *)
(*                                                                         *)
(* Actors: application threads that look kernels up and dispatch them, and *)
(* the cache_watcher thread that adds code objects appearing in the Triton *)
(* cache. addFile takes coCache::mutex_ once per insertion, so each        *)
(* insertion is a step; a dispatch holds hsaInterceptor::mutex_ from the   *)
(* choice of the alternative to its arguments, which addFile does not      *)
(* take.                                                                   *)
(***************************************************************************)
EXTENDS Naturals, Sequences, Functions

CONSTANTS
    Threads,            \* application threads
    Symbols,            \* kernel symbols of all code objects
    name,               \* symbol |-> its demangled name
    file,               \* symbol |-> the code object it is in
    getInstrumentedName,\* name |-> the name of its instrumented clone
    AppSymbols,         \* symbols of code objects the application loads
    StartSymbols,       \* symbols of the files the constructor walks: those in
                        \* the cache directory or, without one, the libraries
    WatchedFiles,       \* symbol sequences of files that appear in the cache
    Filters,            \* what LOGDUR_FILTER may be: sets of names it matches
    Excluded,           \* files the library filter excludes
    Located,            \* symbols whose executable the loader can name
    Described,          \* symbols whose argument metadata can be read
    MaxDispatches       \* bound on the dispatches of a behaviour

Watcher == "watcher"
Names == Range(name)

ASSUME CacheAssumption ==
    /\ Watcher \notin Threads /\ "none" \notin Threads
    /\ DOMAIN name = Symbols /\ DOMAIN file = Symbols
    /\ AppSymbols \subseteq Symbols /\ Located \subseteq Symbols /\ Described \subseteq Symbols
    /\ \A s \in AppSymbols, t \in Symbols : file[s] = file[t] => t \in AppSymbols
    /\ StartSymbols \in [BOOLEAN -> SUBSET Symbols]
    /\ WatchedFiles \subseteq Seq(Symbols)
    /\ \A s, t \in Symbols : name[s] = name[t] /\ file[s] = file[t] => s = t
    /\ MaxDispatches \in Nat

VARIABLES
    cacheLocation,          \* is LOGDUR_KERNEL_CACHE set?
    Matching,               \* names LOGDUR_FILTER matches
    LOGDUR_DISPATCHES,      \* "all", "1" or "random"
    kernel_objects_,        \* kernels the hook has seen
    lookup_map_,            \* name |-> symbol
    arg_map_,               \* name |-> symbol the argument descriptor is of
    runtime_kernel_objects_,\* name |-> symbol, for kernels seen by the hook
    excluded_executable_cache_, \* executable |-> is it excluded?
    alternatives_,          \* symbol |-> instrumented alternative, cached
    dispatched_kernels_,    \* alternatives launched, in mode "1"
    mutex_,                 \* hsaInterceptor::mutex_
    pc,                     \* where each thread is
    cur,                    \* thread |-> the symbol it works on
    symbols,                \* the watcher's symbols still to be added
    added,                  \* files the watcher has taken up
    asked,                  \* symbols whose kernel object the application has
    alt,                    \* the alternative chosen for the current dispatch
    missing,                \* missing_kernel_objects
    ran,                    \* instrumented launches: original, alternative,
                            \* and whose descriptor laid out the arguments
    count,                  \* symbol |-> instrumented launches of it
    dispatches,             \* dispatches so far
    aborted

config == <<cacheLocation, Matching, LOGDUR_DISPATCHES>>
cacheVars == <<lookup_map_, arg_map_, runtime_kernel_objects_, excluded_executable_cache_>>
fixupVars == <<alternatives_, dispatched_kernels_, alt, missing, ran, count,
               dispatches, aborted>>
watchVars == <<symbols, added>>
vars == <<config, cacheVars, fixupVars, watchVars, kernel_objects_, mutex_, pc, cur, asked>>

None == "none"
EmptyMap == [x \in {} |-> None]
Put(f, k, v) == [x \in DOMAIN f \cup {k} |-> IF x = k THEN v ELSE f[x]]

\* What the constructor's addFile calls leave in the cache: it walks either
\* the cache directory or the files that are not excluded. The API is not
\* hooked yet.
AddedAtStart == {s \in StartSymbols[cacheLocation] : name[s] \in Matching
                                      /\ (cacheLocation \/ file[s] \notin Excluded)}

MapAtStart(S) == [n \in {name[s] : s \in S} |-> CHOOSE s \in S : name[s] = n]

\* The environment variables are read once, by the constructor.
Init ==
    /\ cacheLocation \in BOOLEAN
    /\ Matching \in Filters
    /\ LOGDUR_DISPATCHES \in {"all", "1", "random"}
    /\ kernel_objects_ = {}
    /\ lookup_map_ = MapAtStart(AddedAtStart)
    /\ arg_map_ = MapAtStart(AddedAtStart \cap Described)
    /\ runtime_kernel_objects_ = EmptyMap
    /\ excluded_executable_cache_ = EmptyMap
    /\ alternatives_ = EmptyMap
    /\ dispatched_kernels_ = {}
    /\ mutex_ = "none"
    /\ pc = [t \in Threads \cup {Watcher} |-> "idle"]
    /\ cur = [t \in Threads \cup {Watcher} |-> None]
    /\ symbols = << >>
    /\ added = {}
    /\ asked = {}
    /\ alt = None
    /\ missing = {}
    /\ ran = {}
    /\ count = [s \in Symbols |-> 0]
    /\ dispatches = 0
    /\ aborted = FALSE

-----------------------------------------------------------------------------
(* Registration.                                                           *)

\* The application asks for a kernel object: the hooked get_info.
hsa_executable_symbol_get_info(t, s) ==
    /\ ~aborted
    /\ pc[t] = "idle"
    /\ s \in AppSymbols \ asked
    /\ pc' = [pc EXCEPT ![t] = "addKernel"]
    /\ cur' = [cur EXCEPT ![t] = s]
    /\ UNCHANGED <<config, cacheVars, fixupVars, watchVars, kernel_objects_, mutex_, asked>>

\* get_info returns, to the application or into addFile.
Return(t) ==
    /\ pc' = [pc EXCEPT ![t] = IF t = Watcher THEN "filter" ELSE "idle"]
    /\ asked' = IF t = Watcher THEN asked ELSE asked \cup {cur[t]}

\* Variant: a kernel that is registered is not recorded in kernel_objects_.
AddKernelUnrecorded(t) ==
    /\ ~aborted
    /\ pc[t] = "addKernel"
    /\ mutex_ = "none"
    /\ pc' = [pc EXCEPT ![t] = "excluded?"]
    /\ UNCHANGED <<config, cacheVars, fixupVars, watchVars, kernel_objects_, mutex_, cur, asked>>

\* addKernel up to the release of mutex_: a known kernel returns at once.
addKernel(t) ==
    /\ ~aborted
    /\ pc[t] = "addKernel"
    /\ mutex_ = "none"
    /\ \/ /\ cur[t] \in kernel_objects_
          /\ Return(t)
          /\ UNCHANGED kernel_objects_
       \/ /\ cur[t] \notin kernel_objects_
          /\ kernel_objects_' = kernel_objects_ \cup {cur[t]}
          /\ pc' = [pc EXCEPT ![t] = "excluded?"]
          /\ UNCHANGED asked
    /\ UNCHANGED <<config, cacheVars, fixupVars, watchVars, mutex_, cur>>

\* Variant: the walk over the code objects finds nothing excluded.
QueryOnce(t) ==
    /\ ~aborted
    /\ pc[t] = "query"
    /\ excluded_executable_cache_' = Put(excluded_executable_cache_, file[cur[t]], FALSE)
    /\ pc' = [pc EXCEPT ![t] = "register"]
    /\ UNCHANGED <<config, fixupVars, watchVars, lookup_map_, arg_map_, runtime_kernel_objects_,
                   kernel_objects_, mutex_, cur, asked>>

\* addKernel without mutex_: isKernelFromExcludedFile asks the loader for the
\* executable, and its cache for the verdict.
isKernelFromExcludedFile(t) ==
    LET executable == file[cur[t]]
        cached == executable \in DOMAIN excluded_executable_cache_
    IN  /\ ~aborted
        /\ pc[t] = "excluded?"
        /\ \/ /\ cur[t] \in Located /\ cached /\ excluded_executable_cache_[executable]
              /\ Return(t)
           \/ /\ cur[t] \in Located /\ ~cached
              /\ pc' = [pc EXCEPT ![t] = "query"]
              /\ UNCHANGED asked
           \/ /\ cur[t] \in Located => cached /\ ~excluded_executable_cache_[executable]
              /\ pc' = [pc EXCEPT ![t] = "register"]
              /\ UNCHANGED asked
        /\ UNCHANGED <<config, cacheVars, fixupVars, watchVars, kernel_objects_, mutex_, cur>>

\* A verdict that was not cached: the code objects of the executable are
\* walked, and it is cached under a second lock.
QueryExecutable(t) ==
    LET excluded == file[cur[t]] \in Excluded
    IN  /\ ~aborted
        /\ pc[t] = "query"
        /\ excluded_executable_cache_' = Put(excluded_executable_cache_, file[cur[t]], excluded)
        /\ \/ /\ excluded
              /\ Return(t)
           \/ /\ ~excluded
              /\ pc' = [pc EXCEPT ![t] = "register"]
              /\ UNCHANGED asked
        /\ UNCHANGED <<config, fixupVars, watchVars, lookup_map_, arg_map_,
                       runtime_kernel_objects_, kernel_objects_, mutex_, cur>>

\* Variant: the kernel object is not remembered for later resolution.
RegisterNameOnly(t) ==
    LET s == cur[t]
    IN  /\ ~aborted
        /\ pc[t] = "register"
        /\ lookup_map_' = IF name[s] \in DOMAIN lookup_map_ THEN lookup_map_
                          ELSE Put(lookup_map_, name[s], s)
        /\ Return(t)
        /\ UNCHANGED <<config, fixupVars, watchVars, arg_map_, runtime_kernel_objects_,
                       excluded_executable_cache_, kernel_objects_, mutex_, cur>>

\* The rest of addKernel. The first symbol of a name stays.
registerRuntimeKernel(t) ==
    LET s == cur[t]
        skip == name[s] \in DOMAIN lookup_map_
    IN  /\ ~aborted
        /\ pc[t] = "register"
        /\ lookup_map_' = IF skip THEN lookup_map_ ELSE Put(lookup_map_, name[s], s)
        /\ runtime_kernel_objects_' = IF skip THEN runtime_kernel_objects_
                                      ELSE Put(runtime_kernel_objects_, name[s], s)
        /\ Return(t)
        /\ UNCHANGED <<config, fixupVars, watchVars, arg_map_, excluded_executable_cache_,
                       kernel_objects_, mutex_, cur>>

\* cache_watcher gets IN_MOVED_TO for a .hsaco and calls addCodeObject, which
\* calls addFile.
addCodeObject(f) ==
    /\ ~aborted
    /\ cacheLocation
    /\ pc[Watcher] = "idle"
    /\ f \notin added
    /\ added' = added \cup {f}
    /\ symbols' = f
    /\ pc' = [pc EXCEPT ![Watcher] = "symbol"]
    /\ UNCHANGED <<config, cacheVars, fixupVars, kernel_objects_, mutex_, cur, asked>>

\* addFile, next symbol: get_info goes through the hooked table.
NextSymbol ==
    /\ ~aborted
    /\ pc[Watcher] = "symbol"
    /\ \/ /\ symbols = << >>
          /\ pc' = [pc EXCEPT ![Watcher] = "idle"]
          /\ UNCHANGED <<symbols, cur>>
       \/ /\ symbols # << >>
          /\ cur' = [cur EXCEPT ![Watcher] = Head(symbols)]
          /\ symbols' = Tail(symbols)
          /\ pc' = [pc EXCEPT ![Watcher] = "addKernel"]
    /\ UNCHANGED <<config, cacheVars, fixupVars, added, kernel_objects_, mutex_, asked>>

\* addFile: a symbol the filter does not match is skipped, the descriptor of
\* any other goes into arg_map_ if there is one.
InsertDescriptor ==
    LET s == cur[Watcher]
    IN  /\ ~aborted
        /\ pc[Watcher] = "filter"
        /\ \/ /\ name[s] \notin Matching
              /\ pc' = [pc EXCEPT ![Watcher] = "symbol"]
              /\ UNCHANGED arg_map_
           \/ /\ name[s] \in Matching
              /\ arg_map_' = IF s \in Described THEN Put(arg_map_, name[s], s)
                                                ELSE arg_map_
              /\ pc' = [pc EXCEPT ![Watcher] = "lookup"]
        /\ UNCHANGED <<config, fixupVars, watchVars, lookup_map_, runtime_kernel_objects_,
                       excluded_executable_cache_, kernel_objects_, mutex_, cur, asked>>

\* addFile: the symbol goes into lookup_map_, over one of the same name.
InsertLookup ==
    LET s == cur[Watcher]
    IN  /\ ~aborted
        /\ pc[Watcher] = "lookup"
        /\ lookup_map_' = Put(lookup_map_, name[s], s)
        /\ pc' = [pc EXCEPT ![Watcher] = "symbol"]
        /\ UNCHANGED <<config, fixupVars, watchVars, arg_map_, runtime_kernel_objects_,
                       excluded_executable_cache_, kernel_objects_, mutex_, cur, asked>>

-----------------------------------------------------------------------------
(* Dispatch: fixupPacket with run_instrumented_.                           *)

\* Variant: no alternatives_ cache.
LookupOnly(s) ==
    LET n == getInstrumentedName[name[s]]
    IN  IF n \in DOMAIN lookup_map_ THEN lookup_map_[n] ELSE None

\* findInstrumentedAlternative: the cached alternative, or the clone's name
\* in lookup_map_.
findInstrumentedAlternative(s) ==
    LET n == getInstrumentedName[name[s]]
    IN  IF s \in DOMAIN alternatives_ THEN alternatives_[s]
        ELSE IF n \in DOMAIN lookup_map_ THEN lookup_map_[n]
        ELSE None

\* canDispatch
canDispatch(a) ==
    CASE LOGDUR_DISPATCHES = "all" -> {TRUE}
      [] LOGDUR_DISPATCHES = "1" -> {a \notin dispatched_kernels_}
      [] LOGDUR_DISPATCHES = "random" -> {TRUE, FALSE}

\* hasKernels reads the map without its lock.
hasKernels == lookup_map_ # EmptyMap

\* fixupPacket chooses the kernel. Without an alternative, or if canDispatch
\* says no, the packet keeps its kernel; otherwise mutex_ stays held until
\* the descriptor is found.
fixupPacket(t, s) ==
    LET a == IF hasKernels THEN findInstrumentedAlternative(s) ELSE None
    IN  /\ ~aborted
        /\ pc[t] = "idle"
        /\ mutex_ = "none"
        /\ s \in asked
        /\ dispatches < MaxDispatches
        /\ dispatches' = dispatches + 1
        /\ alternatives_' = IF a = None THEN alternatives_ ELSE Put(alternatives_, s, a)
        /\ \E go \in IF a = None THEN {FALSE} ELSE canDispatch(a) :
              /\ pc' = [pc EXCEPT ![t] = IF go THEN "describe" ELSE "idle"]
              /\ mutex_' = IF go THEN t ELSE "none"
              /\ cur' = IF go THEN [cur EXCEPT ![t] = s] ELSE cur
              /\ alt' = IF go THEN a ELSE None
              /\ dispatched_kernels_' = IF go /\ LOGDUR_DISPATCHES = "1"
                                        THEN dispatched_kernels_ \cup {a}
                                        ELSE dispatched_kernels_
        /\ UNCHANGED <<config, cacheVars, watchVars, kernel_objects_, asked, missing, ran,
                       count, aborted>>

\* getArgDescriptor, first and second attempt: the packet gets the
\* alternative, its arguments laid out by the descriptor found under the
\* clone's name. No descriptor after the second attempt: abort().
getArgDescriptor(t) ==
    LET n == getInstrumentedName[name[cur[t]]]
    IN  /\ ~aborted
        /\ pc[t] \in {"describe", "retry"}
        /\ \/ /\ n \in DOMAIN arg_map_
              /\ ran' = ran \cup {[orig |-> cur[t], alt |-> alt, desc |-> arg_map_[n]]}
              /\ count' = [count EXCEPT ![cur[t]] = @ + 1]
              /\ pc' = [pc EXCEPT ![t] = "idle"]
              /\ mutex_' = "none"
              /\ UNCHANGED aborted
           \/ /\ n \notin DOMAIN arg_map_
              /\ pc' = [pc EXCEPT ![t] = IF @ = "describe" THEN "collect" ELSE @]
              /\ aborted' = (pc[t] = "retry")
              /\ UNCHANGED <<ran, count, mutex_>>
        /\ UNCHANGED <<config, cacheVars, watchVars, alternatives_, dispatched_kernels_, alt,
                       missing, dispatches, kernel_objects_, cur, asked>>

\* resolveRuntimeArgDescriptors: the registered kernels without descriptor;
\* with no kernel registered getArgDescriptor fails.
CollectMissing(t) ==
    /\ ~aborted
    /\ pc[t] = "collect"
    /\ missing' = {runtime_kernel_objects_[n] :
                      n \in DOMAIN runtime_kernel_objects_ \ DOMAIN arg_map_}
    /\ aborted' = (runtime_kernel_objects_ = EmptyMap)
    /\ pc' = [pc EXCEPT ![t] = "resolve"]
    /\ UNCHANGED <<config, cacheVars, watchVars, alternatives_, dispatched_kernels_, alt, ran,
                   count, dispatches, kernel_objects_, mutex_, cur, asked>>

\* Variant: the descriptors of a kernel's name are taken from any code object.
ResolveAnyFile(t) ==
    /\ ~aborted
    /\ pc[t] = "resolve"
    /\ \E pick \in [DOMAIN lookup_map_ \ DOMAIN arg_map_ -> Described] :
          /\ \A n \in DOMAIN pick : name[pick[n]] = n
          /\ arg_map_' = [n \in DOMAIN arg_map_ \cup DOMAIN pick |->
                             IF n \in DOMAIN arg_map_ THEN arg_map_[n] ELSE pick[n]]
    /\ missing' = {}
    /\ pc' = [pc EXCEPT ![t] = "retry"]
    /\ UNCHANGED <<config, watchVars, lookup_map_, runtime_kernel_objects_, excluded_executable_cache_,
                   alternatives_, dispatched_kernels_, alt, ran, count, dispatches, aborted,
                   kernel_objects_, mutex_, cur, asked>>

\* Variant: a missing kernel object is asked for through the hook.
ResolveThroughHook(t) ==
    /\ ~aborted
    /\ pc[t] = "resolve"
    /\ pc' = [pc EXCEPT ![t] = "addKernel"]
    /\ UNCHANGED <<config, cacheVars, fixupVars, watchVars, kernel_objects_, mutex_, cur, asked>>

\* resolveRuntimeArgDescriptors: the executable of one of them, if the loader
\* can name it, describes every kernel of the cache that it contains and that
\* has no descriptor yet.
resolveRuntimeArgDescriptors(t) ==
    /\ ~aborted
    /\ pc[t] = "resolve"
    /\ \/ /\ missing = {}
          /\ pc' = [pc EXCEPT ![t] = "retry"]
          /\ UNCHANGED <<arg_map_, missing>>
       \/ \E s \in missing :
          LET here == {d \in Described : s \in Located /\ file[d] = file[s]
                         /\ name[d] \in DOMAIN lookup_map_ \ DOMAIN arg_map_}
          IN  /\ arg_map_' = [n \in DOMAIN arg_map_ \cup {name[d] : d \in here} |->
                                 IF n \in DOMAIN arg_map_ THEN arg_map_[n]
                                 ELSE CHOOSE d \in here : name[d] = n]
              /\ missing' = missing \ (IF s \in Located THEN {m \in Located : file[m] = file[s]} ELSE {s})
              /\ UNCHANGED pc
    /\ UNCHANGED <<config, watchVars, lookup_map_, runtime_kernel_objects_, excluded_executable_cache_,
                   alternatives_, dispatched_kernels_, alt, ran, count, dispatches, aborted,
                   kernel_objects_, mutex_, cur, asked>>

-----------------------------------------------------------------------------

\* A thread goes on with a call it is in.
AddKernelStep(t) ==
    addKernel(t) \/ isKernelFromExcludedFile(t) \/ QueryExecutable(t) \/ registerRuntimeKernel(t)
FixupStep(t) == getArgDescriptor(t) \/ CollectMissing(t) \/ resolveRuntimeArgDescriptors(t)
Continue ==
    \/ \E t \in Threads \cup {Watcher} : AddKernelStep(t)
    \/ \E t \in Threads : FixupStep(t)
    \/ NextSymbol
    \/ InsertDescriptor
    \/ InsertLookup

Next ==
    \/ \E t \in Threads, s \in Symbols :
          hsa_executable_symbol_get_info(t, s) \/ fixupPacket(t, s)
    \/ \E f \in WatchedFiles : addCodeObject(f)
    \/ Continue

Spec == Init /\ [][Next]_vars

-----------------------------------------------------------------------------
(* Properties.                                                             *)

MapTo(f, D) == DOMAIN f \subseteq D /\ Range(f) \subseteq Symbols

\* The types of the registry, the threads and the record of launches.
CacheTypeOK ==
    /\ kernel_objects_ \subseteq Symbols
    /\ MapTo(lookup_map_, Names) /\ MapTo(arg_map_, Names)
    /\ MapTo(runtime_kernel_objects_, Names) /\ MapTo(alternatives_, Symbols)
    /\ excluded_executable_cache_ \in [DOMAIN excluded_executable_cache_ -> BOOLEAN]
    /\ dispatched_kernels_ \subseteq Symbols
    /\ mutex_ \in Threads \cup {"none"}
    /\ asked \subseteq kernel_objects_
    /\ alt \in Symbols \cup {None}
    /\ missing \subseteq Symbols
    /\ \A r \in ran : {r.orig, r.alt, r.desc} \subseteq Symbols
    /\ dispatches \in 0..MaxDispatches

\* The name of the clone of a kernel.
CloneName(s) == getInstrumentedName[name[s]]

\* The loader can locate every clone, and its metadata can be read.
ClonesDescribed == \A s, c \in Symbols : name[c] = CloneName(s) => c \in Located \cap Described

\* fixupPacket never comes to "Missing arg descriptor ... aborting":
\* although the hook puts a kernel into lookup_map_ before its descriptor is
\* in arg_map_, and the two are filled under separate locks, the second
\* attempt of getArgDescriptor finds it, for clones that the loader can
\* locate, in code objects with metadata.
ArgDescriptorFound == ClonesDescribed => ~aborted

\* No instrumented kernel of a file the library filter excludes is launched
\* (the constructor skips the file, addKernel does not register it), whichever
\* thread found the verdict, unless it comes from the cache directory, which
\* the filter does not apply to, or the loader cannot say where it is from.
ExcludedNeverRun ==
    ~cacheLocation => \A r \in ran : r.alt \in Located => file[r.alt] \notin Excluded

\* A thread that is in the hook, in addFile or in a dispatch is never stuck
\* with the others: the hook takes mutex_, which a dispatch holds while it
\* resolves descriptors, so no step of a dispatch may go through the hook
\* (resolveRuntimeArgDescriptors: "which would re-enter the interceptor and
\* deadlock on its mutex").
NoLockup == (\E t \in DOMAIN pc : pc[t] # "idle") /\ ~aborted => ENABLED Continue

\* With -d 1 a kernel is launched instrumented at most once, even when a
\* newer clone of the same name appears in the cache (canDispatch counts
\* alternatives, alternatives_ pins the one a kernel has).
OncePerKernel == LOGDUR_DISPATCHES = "1" => \A s \in Symbols : count[s] <= 1

\* "The descriptor here is a descriptor of the instrumented kernel": the
\* arguments are laid out by the descriptor of the kernel that is launched.
DescriptorOfAlternative == \A r \in ran : r.desc = r.alt

\* What the cache may hold without a cache directory: the filter lets it in,
\* or the loader cannot say where it is from.
Usable == {s \in AppSymbols \cup StartSymbols[FALSE] : s \in Located => file[s] \notin Excluded}

\* No two kernels of those have the same name.
DistinctNames == \A s, t \in Usable : name[s] = name[t] => s = t

\* That is so as long as there is no cache directory and the files that are
\* not excluded have no two kernels of one name: a descriptor resolved on
\* demand (resolveRuntimeArgDescriptors) is the one of the clone that
\* findInstrumentedAlternative chose, though both are looked up by name and
\* an excluded code object may have a clone of that name.
DescriptorWithoutCache == ~cacheLocation /\ DistinctNames => DescriptorOfAlternative

-----------------------------------------------------------------------------
(* The inductive strengthening of these properties.                        *)

Registering == {"addKernel", "excluded?", "query", "register"}
Fixing == {"describe", "collect", "resolve", "retry"}

\* Where a thread is says what it works on, and mutex_ is held exactly in the
\* later part of fixupPacket.
ThreadsOK ==
    /\ pc \in [Threads \cup {Watcher} ->
                  Registering \cup Fixing \cup {"idle", "symbol", "filter", "lookup"}]
    /\ \A t \in Threads \cup {Watcher} :
          /\ pc[t] \in Registering \cup Fixing \cup {"filter", "lookup"} => cur[t] \in Symbols
          /\ pc[t] \in Registering \ {"addKernel"} => cur[t] \in kernel_objects_
    /\ \A t \in Threads : pc[t] \in Fixing <=> mutex_ = t
    /\ pc[Watcher] \notin Fixing
    /\ mutex_ # "none" => alt \in Symbols
    /\ DOMAIN cur = Threads \cup {Watcher}
    /\ symbols \in Seq(Symbols)
    /\ count \in [Symbols -> Nat]

\* What is found under a name has that name, and what is launched for a
\* kernel is a clone of it.
NamesMatch ==
    /\ \A m \in {lookup_map_, arg_map_, runtime_kernel_objects_} :
          \A n \in DOMAIN m : name[m[n]] = n
    /\ \A s \in DOMAIN alternatives_ : name[alternatives_[s]] = CloneName(s)
    /\ \A t \in Threads : pc[t] \in Fixing => name[alt] = CloneName(cur[t])
    /\ \A r \in ran : name[r.alt] = CloneName(r.orig) /\ name[r.desc] = CloneName(r.orig)

\* Whoever stored it, a verdict is that of the filter, and a kernel on its way
\* to registration passed it.
VerdictsRight ==
    /\ \A f \in DOMAIN excluded_executable_cache_ :
          excluded_executable_cache_[f] <=> f \in Excluded
    /\ \A t \in Threads \cup {Watcher} :
          pc[t] = "register" /\ cur[t] \in Located => file[cur[t]] \notin Excluded

\* Without a cache directory all that is known comes from files that are not
\* excluded.
OnlyUsable == ~cacheLocation =>
    /\ pc[Watcher] = "idle"
    /\ \A t \in Threads : pc[t] \in Registering => cur[t] \in AppSymbols
    /\ \A m \in {lookup_map_, arg_map_, runtime_kernel_objects_, alternatives_} :
          Range(m) \subseteq Usable
    /\ Range(runtime_kernel_objects_) \cup missing \subseteq AppSymbols
    /\ missing \subseteq Usable
    /\ mutex_ # "none" => alt \in Usable
    /\ \A r \in ran : r.alt \in Usable /\ r.desc \in Usable

\* In mode "1" a kernel that was launched, or is about to be, has used up its
\* alternative.
UsedUp == LOGDUR_DISPATCHES = "1" =>
    /\ \A s \in Symbols : count[s] > 0 =>
          s \in DOMAIN alternatives_ /\ alternatives_[s] \in dispatched_kernels_
    /\ \A t \in Threads : pc[t] \in Fixing =>
          /\ cur[t] \in DOMAIN alternatives_ /\ alternatives_[cur[t]] \in dispatched_kernels_
          /\ count[cur[t]] = 0

\* The name of a clone that is known has a descriptor or a kernel object to
\* resolve it from, and a dispatch that resolves descriptors has not passed
\* over that kernel object.
Resolvable == ClonesDescribed =>
    /\ DOMAIN runtime_kernel_objects_ \subseteq DOMAIN lookup_map_
    /\ \A s \in Symbols : CloneName(s) \in DOMAIN lookup_map_ =>
          CloneName(s) \in DOMAIN arg_map_ \cup DOMAIN runtime_kernel_objects_
    /\ \A s \in DOMAIN alternatives_ : CloneName(s) \in DOMAIN lookup_map_
    /\ \A t \in Threads :
          LET n == CloneName(cur[t])
          IN  /\ pc[t] \in Fixing => n \in DOMAIN lookup_map_
              /\ pc[t] = "collect" => n \in DOMAIN runtime_kernel_objects_
              /\ pc[t] = "resolve" => \/ n \in DOMAIN arg_map_
                                      \/ /\ n \in DOMAIN runtime_kernel_objects_
                                         /\ runtime_kernel_objects_[n] \in missing
              /\ pc[t] = "retry" => n \in DOMAIN arg_map_
    /\ pc[Watcher] = "lookup" /\ cur[Watcher] \in Described => name[cur[Watcher]] \in DOMAIN arg_map_

\* All of it: what the hook, addFile, the watcher and fixupPacket preserve.
CacheInv ==
    /\ CacheTypeOK
    /\ ThreadsOK
    /\ NamesMatch
    /\ VerdictsRight
    /\ OnlyUsable
    /\ UsedUp
    /\ OncePerKernel
    /\ Resolvable
    /\ ArgDescriptorFound
=============================================================================
