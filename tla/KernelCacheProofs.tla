-------------------------- MODULE KernelCacheProofs --------------------------
(***************************************************************************)
(* Proofs about KernelCache: CacheInv is inductive, so for any number of   *)
(* threads, code objects and kernels no dispatch aborts for want of a      *)
(* descriptor, no excluded kernel is launched, mode "1" launches each      *)
(* kernel once, and without a cache directory the arguments are laid out   *)
(* by the descriptor of the kernel that is launched.                       *)
(***************************************************************************)
EXTENDS KernelCache, TLAPS

USE DEF config, cacheVars, fixupVars, watchVars

-----------------------------------------------------------------------------
(* Maps.                                                                   *)

\* Put changes a map in one place.
LEMMA PutFacts ==
    ASSUME NEW f, NEW k, NEW v
    PROVE  /\ DOMAIN Put(f, k, v) = DOMAIN f \cup {k}
           /\ Put(f, k, v)[k] = v
           /\ \A x \in DOMAIN f \ {k} : Put(f, k, v)[x] = f[x]
           /\ Range(Put(f, k, v)) \subseteq Range(f) \cup {v}
  BY DEF Put, Range

\* The empty map has no keys and no values.
LEMMA EmptyFacts == DOMAIN EmptyMap = {} /\ Range(EmptyMap) = {}
  BY DEF EmptyMap, Range

\* What is found under a key is a value of the map.
LEMMA FoundInRange == \A f : \A x \in DOMAIN f : f[x] \in Range(f)
  BY DEF Range

\* The constructor's maps file each symbol under its own name.
LEMMA StartFacts ==
    ASSUME NEW S \in SUBSET Symbols
    PROVE  /\ DOMAIN MapAtStart(S) = {name[s] : s \in S}
           /\ \A n \in DOMAIN MapAtStart(S) :
                 MapAtStart(S)[n] \in S /\ name[MapAtStart(S)[n]] = n
           /\ Range(MapAtStart(S)) \subseteq S
<1>1. DOMAIN MapAtStart(S) = {name[s] : s \in S}
  BY DEF MapAtStart
<1>2. ASSUME NEW n \in DOMAIN MapAtStart(S)
      PROVE  MapAtStart(S)[n] \in S /\ name[MapAtStart(S)[n]] = n
  <2>1. MapAtStart(S)[n] = CHOOSE s \in S : name[s] = n
    BY <1>1 DEF MapAtStart
  <2>2. \E s \in S : name[s] = n
    BY <1>1
  <2> QED BY <2>1, <2>2
<1> QED BY <1>1, <1>2 DEF Range

\* Verdicts stay Boolean.
LEMMA VerdictFacts ==
    ASSUME NEW m, NEW k, NEW v \in BOOLEAN, m \in [DOMAIN m -> BOOLEAN]
    PROVE  Put(m, k, v) \in [DOMAIN Put(m, k, v) -> BOOLEAN]
<1>1. \A x \in DOMAIN m : m[x] \in BOOLEAN
  OBVIOUS
<1>2. \A x \in DOMAIN m \cup {k} : (IF x = k THEN v ELSE m[x]) \in BOOLEAN
  BY <1>1, Zenon
<1>3. DOMAIN Put(m, k, v) = DOMAIN m \cup {k}
  BY PutFacts
<1> QED BY <1>2, <1>3, Zenon DEF Put

-----------------------------------------------------------------------------
(* Registration: the hook.                                                 *)

\* The hook is entered with a kernel of the application.
LEMMA GetInfoInv ==
    ASSUME NEW t \in Threads, NEW s \in Symbols, CacheInv, hsa_executable_symbol_get_info(t, s)
    PROVE  CacheInv'
<1> USE CacheAssumption DEF hsa_executable_symbol_get_info, CacheAssumption, CacheInv,
                            Registering, Fixing, Watcher
<1>1. CacheTypeOK'
  BY DEF CacheTypeOK, MapTo
<1>2. ThreadsOK'
  BY DEF ThreadsOK, CacheTypeOK
<1>3. NamesMatch'
  BY DEF ThreadsOK, NamesMatch, CloneName
<1>4. VerdictsRight'
  BY DEF ThreadsOK, VerdictsRight
<1>5. OnlyUsable'
  BY DEF ThreadsOK, OnlyUsable
<1>6. UsedUp' /\ OncePerKernel'
  BY DEF ThreadsOK, UsedUp, OncePerKernel
<1>7. Resolvable' /\ ArgDescriptorFound'
  BY DEF ThreadsOK, Resolvable, ArgDescriptorFound, CloneName
<1> QED
  BY <1>1, <1>2, <1>3, <1>4, <1>5, <1>6, <1>7

\* Where a thread goes when get_info returns.
Back(t) == IF t = Watcher THEN "filter" ELSE "idle"

\* The cached verdicts, as a whole.
VerdictsExact ==
    /\ excluded_executable_cache_ \in [DOMAIN excluded_executable_cache_ -> BOOLEAN]
    /\ \A f \in DOMAIN excluded_executable_cache_ :
          excluded_executable_cache_[f] <=> f \in Excluded

\* The steps of addKernel that leave the maps alone: the thread goes on with
\* the same kernel, to registration only if the verdict allows it.
LEMMA GoOnInv ==
    ASSUME NEW t \in Threads \cup {Watcher}, NEW x, CacheInv, pc[t] \in Registering,
           x \in {"excluded?", "query", "register", Back(t)},
           pc' = [pc EXCEPT ![t] = x],
           x = "register" /\ cur[t] \in Located => file[cur[t]] \notin Excluded,
           kernel_objects_ \subseteq kernel_objects_', kernel_objects_' \subseteq Symbols,
           x \in Registering => cur[t] \in kernel_objects_',
           asked' \subseteq kernel_objects_',
           UNCHANGED <<config, fixupVars, watchVars, lookup_map_, arg_map_,
                       runtime_kernel_objects_, mutex_, cur>>,
           VerdictsExact'
    PROVE  CacheInv'
<1> USE CacheAssumption DEF CacheAssumption, CacheInv, Registering, Fixing, Watcher, Back, VerdictsExact
<1>0. ThreadsOK
  OBVIOUS
<1>1. /\ pc'[t] = x
      /\ \A u \in Threads \cup {Watcher} : u # t => pc'[u] = pc[u]
  BY <1>0 DEF ThreadsOK
<1>2. CacheTypeOK'
  BY DEF CacheTypeOK, MapTo
<1>3. ThreadsOK'
  BY <1>0 DEF ThreadsOK, CacheTypeOK
<1>4. NamesMatch'
  BY <1>1 DEF NamesMatch, CloneName
<1>5. VerdictsRight'
  BY <1>1 DEF VerdictsRight
<1>6. OnlyUsable'
  BY <1>1 DEF OnlyUsable
<1>7. UsedUp' /\ OncePerKernel'
  BY <1>1 DEF UsedUp, OncePerKernel
<1>8. Resolvable' /\ ArgDescriptorFound'
  BY <1>1 DEF Resolvable, ArgDescriptorFound, CloneName
<1> QED
  BY <1>2, <1>3, <1>4, <1>5, <1>6, <1>7, <1>8

\* addKernel records the kernel, or returns if it is known.
LEMMA AddKernelInv ==
    ASSUME NEW t \in Threads \cup {Watcher}, CacheInv, addKernel(t) PROVE CacheInv'
<1>0. ThreadsOK /\ CacheTypeOK /\ VerdictsRight
  BY DEF CacheInv
<1>1. pc[t] = "addKernel" /\ cur[t] \in Symbols
  BY <1>0 DEF ThreadsOK, addKernel, Registering
<1>2. /\ kernel_objects_ \subseteq kernel_objects_' /\ kernel_objects_' \subseteq Symbols
      /\ asked' \subseteq kernel_objects_'
  BY <1>0, <1>1 DEF CacheTypeOK, addKernel, Return, Back
<1>3. PICK x \in {"excluded?", Back(t)} :
         pc' = [pc EXCEPT ![t] = x] /\ (x = "excluded?" => cur[t] \in kernel_objects_')
  BY DEF addKernel, Return, Back
<1>4. UNCHANGED <<config, cacheVars, fixupVars, watchVars, mutex_, cur>>
  BY DEF addKernel
<1>5. VerdictsExact'
  BY <1>0, <1>4 DEF VerdictsExact, VerdictsRight, CacheTypeOK
<1> QED
  BY <1>1, <1>2, <1>3, <1>4, <1>5, GoOnInv DEF Registering, Back

\* A cached verdict is the filter's, so only what it lets in goes on.
LEMMA ExcludedFileInv ==
    ASSUME NEW t \in Threads \cup {Watcher}, CacheInv, isKernelFromExcludedFile(t)
    PROVE  CacheInv'
<1>0. ThreadsOK /\ CacheTypeOK /\ VerdictsRight
  BY DEF CacheInv
<1>1. pc[t] = "excluded?" /\ cur[t] \in kernel_objects_
  BY <1>0 DEF ThreadsOK, isKernelFromExcludedFile, Registering
<1>2. asked' \subseteq kernel_objects_
  BY <1>0, <1>1 DEF CacheTypeOK, isKernelFromExcludedFile, Return, Back
<1>3. PICK x \in {"query", "register", Back(t)} :
         /\ pc' = [pc EXCEPT ![t] = x]
         /\ x = "register" /\ cur[t] \in Located => file[cur[t]] \notin Excluded
  BY <1>0 DEF isKernelFromExcludedFile, Return, Back, VerdictsRight
<1>4. /\ UNCHANGED <<config, cacheVars, fixupVars, watchVars, kernel_objects_, mutex_, cur>>
      /\ kernel_objects_ \subseteq Symbols
  BY <1>0 DEF isKernelFromExcludedFile, CacheTypeOK
<1>5. VerdictsExact'
  BY <1>0, <1>4 DEF VerdictsExact, VerdictsRight, CacheTypeOK
<1> QED
  BY <1>1, <1>2, <1>3, <1>4, <1>5, GoOnInv DEF Registering

\* A verdict that is stored is the filter's, even if another thread stored one
\* for the same executable meanwhile.
LEMMA QueryExecutableInv ==
    ASSUME NEW t \in Threads \cup {Watcher}, CacheInv, QueryExecutable(t) PROVE CacheInv'
<1> DEFINE m == excluded_executable_cache_
           f == file[cur[t]]
<1>0. ThreadsOK /\ CacheTypeOK /\ VerdictsRight
  BY DEF CacheInv
<1>1. pc[t] = "query" /\ cur[t] \in kernel_objects_
  BY <1>0 DEF ThreadsOK, QueryExecutable, Registering
<1>2. asked' \subseteq kernel_objects_
  BY <1>0, <1>1 DEF CacheTypeOK, QueryExecutable, Return, Back
<1>3. PICK x \in {"register", Back(t)} :
         /\ pc' = [pc EXCEPT ![t] = x]
         /\ x = "register" => f \notin Excluded
  BY DEF QueryExecutable, Return, Back
<1>4. PICK v \in BOOLEAN : (v <=> f \in Excluded) /\ m' = Put(m, f, v)
  <2>1. (f \in Excluded) \in BOOLEAN
    OBVIOUS
  <2> QED BY <2>1, Zenon DEF QueryExecutable
<1>5. m' \in [DOMAIN m' -> BOOLEAN]
  BY <1>0, <1>4, VerdictFacts, Zenon DEF CacheTypeOK
<1>6. VerdictsExact'
  <2>1. \A g \in DOMAIN m \ {f} : m'[g] = m[g]
    BY <1>4 DEF Put
  <2>2. m'[f] = v /\ DOMAIN m' = DOMAIN m \cup {f}
    BY <1>4 DEF Put
  <2> QED BY <1>0, <1>4, <1>5, <2>1, <2>2, Zenon DEF VerdictsRight, VerdictsExact
<1>7. UNCHANGED <<config, fixupVars, watchVars, lookup_map_, arg_map_,
                  runtime_kernel_objects_, kernel_objects_, mutex_, cur>>
  BY DEF QueryExecutable
<1>8. kernel_objects_ \subseteq Symbols
  BY <1>0 DEF CacheTypeOK
<1> QED
  BY <1>1, <1>2, <1>3, <1>6, <1>7, <1>8, GoOnInv DEF Registering

\* A kernel that is registered has its own name, passed the filter, and does
\* not replace one of the same name.
LEMMA RegisterInv ==
    ASSUME NEW t \in Threads \cup {Watcher}, CacheInv, registerRuntimeKernel(t) PROVE CacheInv'
<1> DEFINE s == cur[t]
           n == name[s]
<1> USE CacheAssumption DEF CacheAssumption, CacheInv, Registering, Fixing, Watcher
<1>0. ThreadsOK /\ CacheTypeOK
  OBVIOUS
<1>1. pc[t] = "register" /\ s \in kernel_objects_ /\ s \in Symbols
  BY <1>0 DEF ThreadsOK, registerRuntimeKernel
<1>2. /\ UNCHANGED <<config, fixupVars, watchVars, arg_map_, excluded_executable_cache_,
                     kernel_objects_, mutex_, cur>>
      /\ Return(t)
  BY DEF registerRuntimeKernel
<1>3. \/ UNCHANGED <<lookup_map_, runtime_kernel_objects_>> /\ n \in DOMAIN lookup_map_
      \/ /\ lookup_map_' = Put(lookup_map_, n, s)
         /\ runtime_kernel_objects_' = Put(runtime_kernel_objects_, n, s)
         /\ n \notin DOMAIN lookup_map_
  BY DEF registerRuntimeKernel
<1> HIDE DEF n, s
<1>4. /\ DOMAIN lookup_map_' = DOMAIN lookup_map_ \cup {n}
      /\ Range(lookup_map_') \subseteq Range(lookup_map_) \cup {s}
      /\ \A x \in DOMAIN lookup_map_ : lookup_map_'[x] = lookup_map_[x]
      /\ n \notin DOMAIN lookup_map_ => lookup_map_'[n] = s /\ n \in DOMAIN runtime_kernel_objects_'
  <2>1. CASE UNCHANGED <<lookup_map_, runtime_kernel_objects_>> /\ n \in DOMAIN lookup_map_
    BY <2>1 DEF Range
  <2>2. CASE /\ lookup_map_' = Put(lookup_map_, n, s)
             /\ runtime_kernel_objects_' = Put(runtime_kernel_objects_, n, s)
             /\ n \notin DOMAIN lookup_map_
    BY <2>2 DEF Put, Range
  <2> QED BY <1>3, <2>1, <2>2
<1>5. /\ DOMAIN runtime_kernel_objects_ \subseteq DOMAIN runtime_kernel_objects_'
      /\ DOMAIN runtime_kernel_objects_' \subseteq DOMAIN runtime_kernel_objects_ \cup {n}
      /\ Range(runtime_kernel_objects_') \subseteq Range(runtime_kernel_objects_) \cup {s}
      /\ \A x \in DOMAIN runtime_kernel_objects_ : 
            x \in DOMAIN lookup_map_ => runtime_kernel_objects_'[x] = runtime_kernel_objects_[x]
      /\ \A x \in DOMAIN runtime_kernel_objects_' :
            \/ x \in DOMAIN runtime_kernel_objects_
               /\ runtime_kernel_objects_'[x] = runtime_kernel_objects_[x]
            \/ x = n /\ runtime_kernel_objects_'[x] = s
  BY <1>3 DEF Put, Range
<1>6. /\ pc'[t] = IF t = Watcher THEN "filter" ELSE "idle"
      /\ \A u \in Threads \cup {Watcher} : u # t => pc'[u] = pc[u]
  BY <1>0, <1>2 DEF ThreadsOK, Return
<1>7. CacheTypeOK'
  <2>1. n \in Names
    BY <1>1 DEF Names, Range, n, s
  <2>2. asked' \subseteq kernel_objects_
    BY <1>0, <1>1, <1>2 DEF CacheTypeOK, Return, s
  <2>3. MapTo(lookup_map_', Names) /\ MapTo(runtime_kernel_objects_', Names)
    BY <1>0, <1>1, <1>4, <1>5, <2>1 DEF CacheTypeOK, MapTo
  <2> QED BY <1>0, <1>2, <2>2, <2>3 DEF CacheTypeOK, MapTo
<1>8. ThreadsOK'
  BY <1>0, <1>1, <1>2 DEF ThreadsOK, CacheTypeOK, Return
<1>9. NamesMatch'
  BY <1>2, <1>4, <1>5, <1>6 DEF NamesMatch, CloneName, n
<1>10. VerdictsRight'
  BY <1>2, <1>6 DEF VerdictsRight
<1>11. OnlyUsable'
  <2> SUFFICES ASSUME ~cacheLocation
               PROVE  OnlyUsable'
    BY <1>2 DEF OnlyUsable
  <2>1. t # Watcher /\ s \in AppSymbols
    BY <1>1 DEF OnlyUsable, s
  <2>2. s \in Usable
    BY <1>1, <2>1 DEF VerdictsRight, Usable, s
  <2> QED BY <1>2, <1>4, <1>5, <1>6, <2>1, <2>2 DEF OnlyUsable
<1>12. UsedUp' /\ OncePerKernel'
  BY <1>2, <1>6 DEF UsedUp, OncePerKernel
<1>13. Resolvable' /\ ArgDescriptorFound'
  BY <1>2, <1>4, <1>5, <1>6 DEF Resolvable, ArgDescriptorFound, CloneName
<1> QED
  BY <1>7, <1>8, <1>9, <1>10, <1>11, <1>12, <1>13

-----------------------------------------------------------------------------
(* Registration: addFile in the cache_watcher thread.                      *)

\* A file that is taken up consists of symbols.
LEMMA AddCodeObjectInv ==
    ASSUME NEW f \in WatchedFiles, CacheInv, addCodeObject(f) PROVE CacheInv'
<1> USE CacheAssumption DEF addCodeObject, CacheAssumption, CacheInv, Registering, Fixing, Watcher
<1>1. CacheTypeOK'
  BY DEF CacheTypeOK, MapTo
<1>2. ThreadsOK'
  BY DEF ThreadsOK, CacheTypeOK
<1>3. NamesMatch'
  BY DEF ThreadsOK, NamesMatch, CloneName
<1>4. VerdictsRight'
  BY DEF ThreadsOK, VerdictsRight
<1>5. OnlyUsable'
  BY DEF OnlyUsable
<1>6. UsedUp' /\ OncePerKernel'
  BY DEF ThreadsOK, UsedUp, OncePerKernel
<1>7. Resolvable' /\ ArgDescriptorFound'
  BY DEF ThreadsOK, Resolvable, ArgDescriptorFound, CloneName
<1> QED
  BY <1>1, <1>2, <1>3, <1>4, <1>5, <1>6, <1>7

\* The next symbol of the file enters the hook.
LEMMA NextSymbolInv == ASSUME CacheInv, NextSymbol PROVE CacheInv'
<1> USE CacheAssumption DEF CacheAssumption, CacheInv, Registering, Fixing, Watcher
<1>0. ThreadsOK /\ pc[Watcher] = "symbol"
  BY DEF NextSymbol
<1>1. /\ pc'[Watcher] \in {"idle", "addKernel"}
      /\ \A u \in Threads : pc'[u] = pc[u] /\ cur'[u] = cur[u]
      /\ UNCHANGED <<config, cacheVars, fixupVars, added, kernel_objects_, mutex_, asked>>
  BY <1>0 DEF NextSymbol, ThreadsOK
<1>2. CacheTypeOK'
  BY <1>1 DEF CacheTypeOK, MapTo
<1>3. ThreadsOK'
  <2>1. CASE symbols = << >>
    BY <1>0, <2>1 DEF ThreadsOK, NextSymbol, CacheTypeOK
  <2>2. CASE symbols # << >>
    <3>1. Head(symbols) \in Symbols /\ Tail(symbols) \in Seq(Symbols)
      BY <1>0, <2>2 DEF ThreadsOK
    <3>2. /\ cur' = [cur EXCEPT !["watcher"] = Head(symbols)]
          /\ pc' = [pc EXCEPT !["watcher"] = "addKernel"]
          /\ symbols' = Tail(symbols)
      BY <2>2 DEF NextSymbol
    <3> HIDE DEF CacheInv
    <3> QED BY <1>0, <1>1, <3>1, <3>2 DEF ThreadsOK
  <2> QED BY <2>1, <2>2
<1>4. NamesMatch'
  BY <1>1 DEF NamesMatch, CloneName
<1>5. VerdictsRight'
  BY <1>1 DEF VerdictsRight
<1>6. OnlyUsable'
  BY <1>0, <1>1 DEF OnlyUsable
<1>7. UsedUp' /\ OncePerKernel'
  BY <1>1 DEF UsedUp, OncePerKernel
<1>8. Resolvable' /\ ArgDescriptorFound'
  BY <1>1 DEF Resolvable, ArgDescriptorFound, CloneName
<1> QED
  BY <1>2, <1>3, <1>4, <1>5, <1>6, <1>7, <1>8

\* A descriptor is filed under the name of its kernel; none goes away.
LEMMA InsertDescriptorInv == ASSUME CacheInv, InsertDescriptor PROVE CacheInv'
<1> USE CacheAssumption DEF CacheAssumption, CacheInv, Registering, Fixing, Watcher
<1>0. ThreadsOK /\ pc[Watcher] = "filter"
  BY DEF InsertDescriptor
<1>1. PICK s \in Symbols : s = cur[Watcher]
  BY <1>0 DEF ThreadsOK
<1>2. /\ pc'[Watcher] \in {"symbol", "lookup"}
      /\ \A u \in Threads : pc'[u] = pc[u]
      /\ pc' \in [Threads \cup {Watcher} ->
                    Registering \cup Fixing \cup {"idle", "symbol", "filter", "lookup"}]
      /\ UNCHANGED <<config, fixupVars, watchVars, lookup_map_, runtime_kernel_objects_,
                     excluded_executable_cache_, kernel_objects_, mutex_, cur, asked>>
  BY <1>0 DEF InsertDescriptor, ThreadsOK
<1>3. \/ UNCHANGED arg_map_ /\ ~(pc'[Watcher] = "lookup" /\ s \in Described)
      \/ arg_map_' = Put(arg_map_, name[s], s)
  BY <1>0, <1>1 DEF InsertDescriptor, ThreadsOK
<1>4. /\ DOMAIN arg_map_ \subseteq DOMAIN arg_map_'
      /\ \A x \in DOMAIN arg_map_' : \/ x \in DOMAIN arg_map_ /\ arg_map_'[x] = arg_map_[x]
                                     \/ x = name[s] /\ arg_map_'[x] = s
      /\ pc'[Watcher] = "lookup" /\ s \in Described => name[s] \in DOMAIN arg_map_'
  BY <1>3 DEF Put
<1>5. CacheTypeOK'
  <2>1. name[s] \in Names
    BY DEF Names, Range
  <2>2. MapTo(arg_map_', Names)
    BY <1>4, <2>1 DEF CacheTypeOK, MapTo, Range
  <2> QED BY <1>2, <2>2 DEF CacheTypeOK, MapTo
<1>6. ThreadsOK'
  BY <1>0, <1>1, <1>2 DEF ThreadsOK
<1>7. NamesMatch'
  BY <1>2, <1>4 DEF NamesMatch, CloneName
<1>8. VerdictsRight'
  BY <1>2 DEF VerdictsRight
<1>9. OnlyUsable'
  BY <1>0, <1>2 DEF OnlyUsable
<1>10. UsedUp' /\ OncePerKernel'
  BY <1>2 DEF UsedUp, OncePerKernel
<1>11. Resolvable' /\ ArgDescriptorFound'
  BY <1>1, <1>2, <1>4 DEF Resolvable, ArgDescriptorFound, CloneName
<1> QED
  BY <1>5, <1>6, <1>7, <1>8, <1>9, <1>10, <1>11

\* A clone that addFile makes known has its descriptor already.
LEMMA InsertLookupInv == ASSUME CacheInv, InsertLookup PROVE CacheInv'
<1> USE CacheAssumption DEF CacheAssumption, CacheInv, Registering, Fixing, Watcher
<1>0. ThreadsOK /\ pc[Watcher] = "lookup"
  BY DEF InsertLookup
<1>1. PICK s \in Symbols : s = cur[Watcher]
  BY <1>0 DEF ThreadsOK
<1>2. /\ pc'[Watcher] = "symbol"
      /\ \A u \in Threads : pc'[u] = pc[u]
      /\ pc' \in [Threads \cup {Watcher} ->
                    Registering \cup Fixing \cup {"idle", "symbol", "filter", "lookup"}]
      /\ UNCHANGED <<config, fixupVars, watchVars, arg_map_, runtime_kernel_objects_,
                     excluded_executable_cache_, kernel_objects_, mutex_, cur, asked>>
  BY <1>0 DEF InsertLookup, ThreadsOK
<1>3. /\ DOMAIN lookup_map_' = DOMAIN lookup_map_ \cup {name[s]}
      /\ \A x \in DOMAIN lookup_map_' : \/ x \in DOMAIN lookup_map_ /\ lookup_map_'[x] = lookup_map_[x]
                                        \/ x = name[s] /\ lookup_map_'[x] = s
  BY <1>1 DEF InsertLookup, Put
<1>4. CacheTypeOK'
  <2>1. name[s] \in Names
    BY DEF Names, Range
  <2>2. MapTo(lookup_map_', Names)
    BY <1>3, <2>1 DEF CacheTypeOK, MapTo, Range
  <2> QED BY <1>2, <2>2 DEF CacheTypeOK, MapTo
<1>5. ThreadsOK'
  BY <1>0, <1>1, <1>2 DEF ThreadsOK
<1>6. NamesMatch'
  BY <1>2, <1>3 DEF NamesMatch, CloneName
<1>7. VerdictsRight'
  BY <1>2 DEF VerdictsRight
<1>8. OnlyUsable'
  BY <1>0, <1>2 DEF OnlyUsable
<1>9. UsedUp' /\ OncePerKernel'
  BY <1>2 DEF UsedUp, OncePerKernel
<1>10. Resolvable' /\ ArgDescriptorFound'
  <2> SUFFICES ASSUME ClonesDescribed PROVE Resolvable'
    BY <1>2 DEF Resolvable, ArgDescriptorFound
  <2>1. \A u \in Symbols : name[s] = CloneName(u) => name[s] \in DOMAIN arg_map_
    BY <1>0, <1>1 DEF ClonesDescribed, Resolvable
  <2> QED BY <1>2, <1>3, <2>1 DEF Resolvable, CloneName
<1> QED
  BY <1>4, <1>5, <1>6, <1>7, <1>8, <1>9, <1>10

-----------------------------------------------------------------------------
(* Dispatch.                                                               *)

\* The alternative of a kernel is a clone of it that is known, and the one it
\* had before.
LEMMA AlternativeFacts ==
    ASSUME NEW s \in Symbols, CacheInv, findInstrumentedAlternative(s) # None
    PROVE  LET a == findInstrumentedAlternative(s) IN
           /\ a \in Symbols /\ name[a] = CloneName(s)
           /\ ~cacheLocation => a \in Usable
           /\ ClonesDescribed => CloneName(s) \in DOMAIN lookup_map_
           /\ s \in DOMAIN alternatives_ => a = alternatives_[s]
<1> DEFINE a == findInstrumentedAlternative(s)
<1>1. \/ s \in DOMAIN alternatives_ /\ a = alternatives_[s]
      \/ /\ s \notin DOMAIN alternatives_
         /\ CloneName(s) \in DOMAIN lookup_map_ /\ a = lookup_map_[CloneName(s)]
  BY DEF findInstrumentedAlternative, CloneName
<1> HIDE DEF a
<1>2. a \in Symbols
  BY <1>1, FoundInRange DEF CacheInv, CacheTypeOK, MapTo
<1>3. name[a] = CloneName(s)
  BY <1>1 DEF CacheInv, NamesMatch
<1>4. ~cacheLocation => a \in Usable
  BY <1>1, FoundInRange DEF CacheInv, OnlyUsable
<1>5. ClonesDescribed => CloneName(s) \in DOMAIN lookup_map_
  BY <1>1 DEF CacheInv, Resolvable
<1> QED BY <1>1, <1>2, <1>3, <1>4, <1>5 DEF a

\* fixupPacket pins the alternative and, in mode "1", uses it up.
LEMMA FixupPacketInv ==
    ASSUME NEW t \in Threads, NEW s \in Symbols, CacheInv, fixupPacket(t, s) PROVE CacheInv'
<1> DEFINE a == IF hasKernels THEN findInstrumentedAlternative(s) ELSE None
<1> USE CacheAssumption DEF CacheAssumption, CacheInv, Registering, Fixing, Watcher
<1>0. ThreadsOK /\ CacheTypeOK /\ pc[t] = "idle" /\ mutex_ = "none"
  BY DEF fixupPacket
<1>1. a # None =>
      /\ a \in Symbols /\ name[a] = CloneName(s)
      /\ ~cacheLocation => a \in Usable
      /\ ClonesDescribed => CloneName(s) \in DOMAIN lookup_map_
      /\ s \in DOMAIN alternatives_ => a = alternatives_[s]
  BY AlternativeFacts
<1>2. PICK go \in IF a = None THEN {FALSE} ELSE canDispatch(a) :
         /\ pc' = [pc EXCEPT ![t] = IF go THEN "describe" ELSE "idle"]
         /\ mutex_' = IF go THEN t ELSE "none"
         /\ cur' = IF go THEN [cur EXCEPT ![t] = s] ELSE cur
         /\ alt' = IF go THEN a ELSE None
         /\ dispatched_kernels_' = IF go /\ LOGDUR_DISPATCHES = "1"
                                   THEN dispatched_kernels_ \cup {a} ELSE dispatched_kernels_
  BY DEF fixupPacket
<1>3. /\ UNCHANGED <<config, cacheVars, watchVars, kernel_objects_, asked, missing, ran,
                     count, aborted>>
      /\ alternatives_' = IF a = None THEN alternatives_ ELSE Put(alternatives_, s, a)
      /\ dispatches' = dispatches + 1 /\ dispatches < MaxDispatches
  BY DEF fixupPacket
<1>4. go => a # None /\ (LOGDUR_DISPATCHES = "1" => a \notin dispatched_kernels_)
  BY <1>2 DEF canDispatch
<1> HIDE DEF a
<1>5. /\ DOMAIN alternatives_ \subseteq DOMAIN alternatives_'
      /\ \A x \in DOMAIN alternatives_ : alternatives_'[x] = alternatives_[x]
      /\ \A x \in DOMAIN alternatives_' \ DOMAIN alternatives_ :
            x = s /\ a # None /\ alternatives_'[x] = a
      /\ a # None => s \in DOMAIN alternatives_' /\ alternatives_'[s] = a
  BY <1>1, <1>3 DEF Put
<1>6. \A u \in Threads : mutex_ # u /\ pc[u] \notin Fixing
  BY <1>0 DEF ThreadsOK
<1>7. /\ pc' \in [Threads \cup {Watcher} ->
                    Registering \cup Fixing \cup {"idle", "symbol", "filter", "lookup"}]
      /\ DOMAIN cur' = Threads \cup {Watcher}
      /\ \A u \in Threads \cup {Watcher} : u # t => pc'[u] = pc[u] /\ cur'[u] = cur[u]
      /\ ~go => pc'[t] = "idle" /\ mutex_' = "none"
      /\ go => pc'[t] = "describe" /\ cur'[t] = s /\ mutex_' = t /\ alt' = a
  BY <1>0, <1>2 DEF ThreadsOK
<1>8. CacheTypeOK'
  <2>1. MapTo(alternatives_', Symbols)
    BY <1>0, <1>1, <1>5 DEF CacheTypeOK, MapTo, Range
  <2>2. alt' \in Symbols \cup {None} /\ dispatched_kernels_' \subseteq Symbols
    BY <1>0, <1>1, <1>2, <1>4 DEF CacheTypeOK
  <2>3. dispatches' \in 0..MaxDispatches /\ mutex_' \in Threads \cup {"none"}
    BY <1>0, <1>2, <1>3 DEF CacheTypeOK
  <2> QED BY <1>0, <1>3, <2>1, <2>2, <2>3 DEF CacheTypeOK, MapTo
<1>9. ThreadsOK'
  <2>1. CASE go
    BY <1>0, <1>1, <1>3, <1>4, <1>6, <1>7, <2>1 DEF ThreadsOK
  <2>2. CASE ~go
    BY <1>0, <1>3, <1>6, <1>7, <2>2 DEF ThreadsOK
  <2> QED BY <2>1, <2>2
<1>10. NamesMatch'
  BY <1>1, <1>3, <1>4, <1>5, <1>6, <1>7 DEF NamesMatch, CloneName
<1>11. VerdictsRight'
  BY <1>3, <1>7 DEF VerdictsRight
<1>12. OnlyUsable'
  <2> SUFFICES ASSUME ~cacheLocation PROVE OnlyUsable'
    BY <1>3 DEF OnlyUsable
  <2>1. Range(alternatives_') \subseteq Usable
    BY <1>1, <1>5 DEF OnlyUsable, Range
  <2> QED BY <1>1, <1>3, <1>4, <1>7, <2>1 DEF OnlyUsable
<1>13. UsedUp'
  <2> SUFFICES ASSUME LOGDUR_DISPATCHES = "1" PROVE UsedUp'
    BY <1>3 DEF UsedUp
  <2>1. dispatched_kernels_ \subseteq dispatched_kernels_' /\ (go => a \in dispatched_kernels_')
    BY <1>2
  <2>2. go => count[s] = 0
    <3>1. go /\ count[s] > 0 => s \in DOMAIN alternatives_ /\ alternatives_[s] \in dispatched_kernels_
      BY DEF UsedUp
    <3>2. count[s] \in Nat
      BY <1>0 DEF ThreadsOK
    <3> QED BY <1>1, <1>4, <3>1, <3>2
  <2> QED BY <1>3, <1>4, <1>5, <1>6, <1>7, <2>1, <2>2 DEF UsedUp
<1>14. OncePerKernel' /\ ArgDescriptorFound'
  BY <1>3 DEF OncePerKernel, ArgDescriptorFound
<1>15. Resolvable'
  BY <1>1, <1>3, <1>4, <1>5, <1>6, <1>7 DEF Resolvable
<1> QED
  BY <1>8, <1>9, <1>10, <1>11, <1>12, <1>13, <1>14, <1>15

\* A dispatch gives mutex_ back with the descriptor it found, or goes on to
\* resolve one.
LEMMA GetArgDescriptorInv ==
    ASSUME NEW t \in Threads, CacheInv, getArgDescriptor(t) PROVE CacheInv'
<1> USE CacheAssumption DEF CacheAssumption, CacheInv, Registering, Fixing, Watcher
<1>0. ThreadsOK /\ CacheTypeOK /\ pc[t] \in {"describe", "retry"} /\ mutex_ = t
  BY DEF getArgDescriptor, ThreadsOK
<1>1. PICK s \in Symbols : s = cur[t]
  BY <1>0 DEF ThreadsOK
<1>2. alt \in Symbols /\ name[alt] = CloneName(s) /\ (~cacheLocation => alt \in Usable)
  BY <1>0, <1>1 DEF ThreadsOK, NamesMatch, OnlyUsable
<1>3. \A u \in Threads \ {t} : pc[u] \notin Fixing
  BY <1>0 DEF ThreadsOK
<1>4. UNCHANGED <<config, cacheVars, watchVars, alternatives_, dispatched_kernels_, alt,
                  missing, dispatches, kernel_objects_, cur, asked>>
  BY DEF getArgDescriptor
<1>5. CASE CloneName(s) \in DOMAIN arg_map_
  <2>1. PICK d \in Symbols : d = arg_map_[CloneName(s)]
    BY <1>5, FoundInRange DEF CacheTypeOK, MapTo
  <2>2. name[d] = CloneName(s) /\ (~cacheLocation => d \in Usable)
    BY <1>5, <2>1, FoundInRange DEF NamesMatch, OnlyUsable
  <2>3. /\ ran' = ran \cup {[orig |-> s, alt |-> alt, desc |-> d]}
        /\ count' = [count EXCEPT ![s] = @ + 1]
        /\ pc' = [pc EXCEPT ![t] = "idle"]
        /\ mutex_' = "none" /\ UNCHANGED aborted
    BY <1>1, <1>5, <2>1 DEF getArgDescriptor, CloneName
  <2>4. /\ pc' \in [Threads \cup {Watcher} ->
                      Registering \cup Fixing \cup {"idle", "symbol", "filter", "lookup"}]
        /\ pc'[t] = "idle" /\ \A u \in Threads \cup {Watcher} : u # t => pc'[u] = pc[u]
    BY <1>0, <2>3 DEF ThreadsOK
  <2>5. CacheTypeOK'
    BY <1>1, <1>2, <1>4, <2>1, <2>3 DEF CacheTypeOK, MapTo
  <2>6. ThreadsOK'
    BY <1>0, <1>3, <1>4, <2>3, <2>4 DEF ThreadsOK
  <2>7. NamesMatch'
    BY <1>2, <1>4, <2>2, <2>3, <2>4 DEF NamesMatch, CloneName
  <2>8. VerdictsRight'
    BY <1>4, <2>4 DEF VerdictsRight
  <2>9. OnlyUsable'
    BY <1>2, <1>4, <2>2, <2>3, <2>4 DEF OnlyUsable
  <2>10. UsedUp' /\ OncePerKernel'
    <3> SUFFICES ASSUME LOGDUR_DISPATCHES = "1" PROVE UsedUp' /\ OncePerKernel'
      BY <1>4 DEF UsedUp, OncePerKernel
    <3>1. /\ count[s] = 0 /\ s \in DOMAIN alternatives_ /\ alternatives_[s] \in dispatched_kernels_
      BY <1>0, <1>1 DEF UsedUp
    <3>2. count'[s] = 1 /\ \A x \in Symbols \ {s} : count'[x] = count[x]
      BY <1>0, <2>3, <3>1 DEF ThreadsOK
    <3> QED BY <1>3, <1>4, <2>4, <3>1, <3>2 DEF UsedUp, OncePerKernel
  <2>11. Resolvable' /\ ArgDescriptorFound'
    BY <1>3, <1>4, <2>3, <2>4 DEF Resolvable, ArgDescriptorFound, CloneName
  <2> QED
    BY <2>5, <2>6, <2>7, <2>8, <2>9, <2>10, <2>11
<1>6. CASE CloneName(s) \notin DOMAIN arg_map_
  <2>1. /\ UNCHANGED <<ran, count, mutex_>>
        /\ pc' = [pc EXCEPT ![t] = IF @ = "describe" THEN "collect" ELSE @]
        /\ aborted' = (pc[t] = "retry")
    BY <1>1, <1>6 DEF getArgDescriptor, CloneName
  <2>2. /\ pc' \in [Threads \cup {Watcher} ->
                      Registering \cup Fixing \cup {"idle", "symbol", "filter", "lookup"}]
        /\ pc'[t] = IF pc[t] = "describe" THEN "collect" ELSE "retry"
        /\ \A u \in Threads \cup {Watcher} : u # t => pc'[u] = pc[u]
    BY <1>0, <2>1 DEF ThreadsOK
  <2>3. CacheTypeOK' /\ OncePerKernel'
    BY <1>4, <2>1 DEF CacheTypeOK, MapTo, OncePerKernel
  <2>4. ThreadsOK'
    BY <1>0, <1>1, <1>4, <2>1, <2>2 DEF ThreadsOK
  <2>5. NamesMatch' /\ VerdictsRight'
    BY <1>0, <1>4, <2>1, <2>2 DEF NamesMatch, CloneName, VerdictsRight
  <2>6. OnlyUsable' /\ UsedUp'
    BY <1>0, <1>4, <2>1, <2>2 DEF OnlyUsable, UsedUp
  <2>7. Resolvable' /\ ArgDescriptorFound'
    <3> SUFFICES ASSUME ClonesDescribed PROVE Resolvable' /\ ~aborted'
      BY <1>4 DEF Resolvable, ArgDescriptorFound
    <3>1. pc[t] = "describe" /\ CloneName(s) \in DOMAIN runtime_kernel_objects_
      BY <1>0, <1>1, <1>6 DEF Resolvable
    <3> QED BY <1>1, <1>4, <2>1, <2>2, <3>1 DEF Resolvable, CloneName
  <2> QED
    BY <2>3, <2>4, <2>5, <2>6, <2>7
<1> QED
  BY <1>5, <1>6

\* The kernel objects to resolve include the one of the clone.
LEMMA CollectMissingInv ==
    ASSUME NEW t \in Threads, CacheInv, CollectMissing(t) PROVE CacheInv'
<1> DEFINE rko == runtime_kernel_objects_
<1> USE CacheAssumption DEF CacheAssumption, CacheInv, Registering, Fixing, Watcher
<1>0. ThreadsOK /\ CacheTypeOK /\ pc[t] = "collect" /\ mutex_ = t
  BY DEF CollectMissing, ThreadsOK
<1>1. PICK s \in Symbols : s = cur[t]
  BY <1>0 DEF ThreadsOK
<1>2. /\ pc' \in [Threads \cup {Watcher} ->
                    Registering \cup Fixing \cup {"idle", "symbol", "filter", "lookup"}]
      /\ pc'[t] = "resolve" /\ \A u \in Threads \cup {Watcher} : u # t => pc'[u] = pc[u]
  BY <1>0 DEF CollectMissing, ThreadsOK
<1>3. /\ UNCHANGED <<config, cacheVars, watchVars, alternatives_, dispatched_kernels_, alt, ran,
                     count, dispatches, kernel_objects_, mutex_, cur, asked>>
      /\ missing' = {rko[n] : n \in DOMAIN rko \ DOMAIN arg_map_}
      /\ aborted' = (rko = EmptyMap)
  BY DEF CollectMissing
<1>4. missing' \subseteq Range(rko)
  BY <1>3 DEF Range
<1>5. CacheTypeOK'
  BY <1>3, <1>4 DEF CacheTypeOK, MapTo
<1>6. ThreadsOK'
  BY <1>0, <1>1, <1>2, <1>3 DEF ThreadsOK
<1>7. NamesMatch' /\ VerdictsRight'
  BY <1>0, <1>2, <1>3 DEF NamesMatch, CloneName, VerdictsRight
<1>8. OnlyUsable'
  BY <1>2, <1>3, <1>4 DEF OnlyUsable
<1>9. UsedUp' /\ OncePerKernel'
  BY <1>0, <1>2, <1>3 DEF UsedUp, OncePerKernel
<1>10. Resolvable' /\ ArgDescriptorFound'
  <2> SUFFICES ASSUME ClonesDescribed PROVE Resolvable' /\ ~aborted'
    BY <1>3 DEF Resolvable, ArgDescriptorFound
  <2>1. CloneName(s) \in DOMAIN rko
    BY <1>0, <1>1 DEF Resolvable
  <2>2. CloneName(s) \in DOMAIN arg_map_ \/ rko[CloneName(s)] \in missing'
    BY <1>3, <2>1
  <2>3. ~aborted'
    BY <1>3, <2>1, EmptyFacts
  <2>4. \A u \in Threads \ {t} : pc'[u] \notin Fixing
    BY <1>0, <1>2 DEF ThreadsOK
  <2> QED BY <1>0, <1>1, <1>2, <1>3, <2>1, <2>2, <2>3, <2>4 DEF Resolvable, CloneName
<1> QED
  BY <1>5, <1>6, <1>7, <1>8, <1>9, <1>10

\* An executable describes what it contains, and only what is still missing.
LEMMA ResolveInv ==
    ASSUME NEW t \in Threads, CacheInv, resolveRuntimeArgDescriptors(t) PROVE CacheInv'
<1> USE CacheAssumption DEF CacheAssumption, CacheInv, Registering, Fixing, Watcher
<1>0. ThreadsOK /\ CacheTypeOK /\ pc[t] = "resolve" /\ mutex_ = t
  BY DEF resolveRuntimeArgDescriptors, ThreadsOK
<1>1. PICK c \in Symbols : c = cur[t]
  BY <1>0 DEF ThreadsOK
<1>2. UNCHANGED <<config, watchVars, lookup_map_, runtime_kernel_objects_,
                  excluded_executable_cache_, alternatives_, dispatched_kernels_, alt, ran, count,
                  dispatches, aborted, kernel_objects_, mutex_, cur, asked>>
  BY DEF resolveRuntimeArgDescriptors
<1>3. \A u \in Threads \ {t} : pc[u] \notin Fixing
  BY <1>0 DEF ThreadsOK
<1>4. CASE missing = {} /\ pc' = [pc EXCEPT ![t] = "retry"] /\ UNCHANGED <<arg_map_, missing>>
  <2>1. /\ pc' \in [Threads \cup {Watcher} ->
                      Registering \cup Fixing \cup {"idle", "symbol", "filter", "lookup"}]
        /\ pc'[t] = "retry" /\ \A u \in Threads \cup {Watcher} : u # t => pc'[u] = pc[u]
    BY <1>0, <1>4 DEF ThreadsOK
  <2>2. CacheTypeOK'
    BY <1>2, <1>4 DEF CacheTypeOK, MapTo
  <2>3. ThreadsOK'
    BY <1>0, <1>1, <1>2, <2>1 DEF ThreadsOK
  <2>4. NamesMatch' /\ VerdictsRight'
    BY <1>0, <1>2, <1>4, <2>1 DEF NamesMatch, CloneName, VerdictsRight
  <2>5. OnlyUsable' /\ UsedUp' /\ OncePerKernel'
    BY <1>0, <1>2, <1>4, <2>1 DEF OnlyUsable, UsedUp, OncePerKernel
  <2>6. Resolvable' /\ ArgDescriptorFound'
    BY <1>0, <1>2, <1>3, <1>4, <2>1 DEF Resolvable, ArgDescriptorFound, CloneName
  <2> QED
    BY <2>2, <2>3, <2>4, <2>5, <2>6
<1>5. ASSUME NEW s \in missing, NEW here,
             here = {d \in Described : s \in Located /\ file[d] = file[s]
                       /\ name[d] \in DOMAIN lookup_map_ \ DOMAIN arg_map_},
             arg_map_' = [n \in DOMAIN arg_map_ \cup {name[d] : d \in here} |->
                            IF n \in DOMAIN arg_map_ THEN arg_map_[n]
                            ELSE CHOOSE d \in here : name[d] = n],
             missing' = missing \ (IF s \in Located THEN {m \in Located : file[m] = file[s]}
                                                   ELSE {s}),
             UNCHANGED pc
      PROVE  CacheInv'
  <2>1. DOMAIN arg_map_' = DOMAIN arg_map_ \cup {name[d] : d \in here}
    BY <1>5
  <2>2. \A n \in DOMAIN arg_map_ : arg_map_'[n] = arg_map_[n]
    BY <1>5
  <2>3. ASSUME NEW n \in DOMAIN arg_map_' \ DOMAIN arg_map_
        PROVE  arg_map_'[n] \in here /\ name[arg_map_'[n]] = n
    <3>1. arg_map_'[n] = CHOOSE d \in here : name[d] = n
      BY <1>5, <2>1, <2>3
    <3>2. \E d \in here : name[d] = n
      BY <2>1, <2>3
    <3> QED BY <3>1, <3>2
  <2>4. missing' \subseteq missing
    BY <1>5
  <2>5. CacheTypeOK'
    <3>1. here \subseteq Symbols /\ \A d \in here : name[d] \in Names
      BY <1>5 DEF Names, Range
    <3>2. MapTo(arg_map_', Names)
      BY <2>1, <2>2, <2>3, <3>1 DEF CacheTypeOK, MapTo, Range
    <3> QED BY <1>2, <2>4, <3>2 DEF CacheTypeOK, MapTo
  <2>6. ThreadsOK'
    BY <1>0, <1>2, <1>5 DEF ThreadsOK
  <2>7. NamesMatch' /\ VerdictsRight'
    BY <1>2, <1>5, <2>2, <2>3 DEF NamesMatch, CloneName, VerdictsRight
  <2>8. OnlyUsable'
    <3> SUFFICES ASSUME ~cacheLocation PROVE OnlyUsable'
      BY <1>2 DEF OnlyUsable
    <3>1. here \subseteq Usable
      BY <1>5 DEF OnlyUsable, Usable
    <3>2. Range(arg_map_') \subseteq Usable
      BY <2>2, <2>3, <3>1 DEF OnlyUsable, Range
    <3> QED BY <1>2, <1>5, <2>4, <3>2 DEF OnlyUsable
  <2>9. UsedUp' /\ OncePerKernel'
    BY <1>2, <1>5 DEF UsedUp, OncePerKernel
  <2>10. Resolvable' /\ ArgDescriptorFound'
    <3> DEFINE n == CloneName(c)
               o == runtime_kernel_objects_[n]
    <3> SUFFICES ASSUME ClonesDescribed PROVE Resolvable'
      BY <1>2 DEF Resolvable, ArgDescriptorFound
    <3>1. \/ n \in DOMAIN arg_map_
          \/ n \in DOMAIN runtime_kernel_objects_ /\ o \in missing
      BY <1>0, <1>1 DEF Resolvable
    <3>2. ASSUME n \notin DOMAIN arg_map_', n \notin DOMAIN arg_map_
          PROVE  o \in missing'
      <4>1. /\ n \in DOMAIN runtime_kernel_objects_ /\ o \in missing
            /\ n \in DOMAIN lookup_map_
        BY <3>1, <3>2 DEF Resolvable
      <4>2. o \in Symbols /\ name[o] = n
        BY <4>1 DEF NamesMatch, CacheTypeOK
      <4>3. o \in Located \cap Described
        BY <4>2 DEF ClonesDescribed
      <4>4. ~(s \in Located /\ file[o] = file[s])
        BY <1>5, <2>1, <3>2, <4>1, <4>2, <4>3
      <4> QED BY <1>5, <4>1, <4>3, <4>4
    <3>3. n \in DOMAIN arg_map_' \/ (n \in DOMAIN runtime_kernel_objects_ /\ o \in missing')
      BY <2>1, <3>1, <3>2
    <3> QED BY <1>0, <1>1, <1>2, <1>3, <1>5, <2>1, <3>3 DEF Resolvable
  <2> QED
    BY <2>5, <2>6, <2>7, <2>8, <2>9, <2>10
<1> QED
  BY <1>4, <1>5 DEF resolveRuntimeArgDescriptors

-----------------------------------------------------------------------------
(* The theorems.                                                           *)

\* The constructor leaves only usable symbols with their own descriptors.
LEMMA InitCache == Init => CacheInv
<1> SUFFICES ASSUME Init PROVE CacheInv
  OBVIOUS
<1> DEFINE S == AddedAtStart
<1> USE CacheAssumption DEF CacheAssumption, Init, Registering, Fixing, Watcher
<1>1. S \in SUBSET Symbols /\ (~cacheLocation => S \subseteq Usable)
  BY DEF AddedAtStart, Usable
<1> HIDE DEF S
<1>2. /\ DOMAIN lookup_map_ = {name[s] : s \in S} /\ Range(lookup_map_) \subseteq S
      /\ \A n \in DOMAIN lookup_map_ : name[lookup_map_[n]] = n
  BY <1>1, StartFacts DEF S
<1>3. /\ DOMAIN arg_map_ = {name[s] : s \in S \cap Described} /\ Range(arg_map_) \subseteq S
      /\ \A n \in DOMAIN arg_map_ : name[arg_map_[n]] = n
  <2>1. S \cap Described \in SUBSET Symbols
    BY <1>1
  <2> QED BY <2>1, StartFacts DEF S
<1>4. DOMAIN EmptyMap = {} /\ Range(EmptyMap) = {}
  BY EmptyFacts
<1>5. CacheTypeOK
  <2>1. \A s \in S : name[s] \in Names
    BY <1>1 DEF Names, Range
  <2>2. excluded_executable_cache_ \in [DOMAIN excluded_executable_cache_ -> BOOLEAN]
    BY <1>4, Zenon DEF EmptyMap
  <2>3. /\ MapTo(lookup_map_, Names) /\ MapTo(arg_map_, Names)
        /\ MapTo(runtime_kernel_objects_, Names) /\ MapTo(alternatives_, Symbols)
    <3>1. runtime_kernel_objects_ = EmptyMap /\ alternatives_ = EmptyMap
      OBVIOUS
    <3> HIDE DEF Init
    <3> QED BY <1>1, <1>2, <1>3, <1>4, <2>1, <3>1 DEF MapTo
  <2> QED BY <2>2, <2>3 DEF CacheTypeOK
<1>6. ThreadsOK
  BY DEF ThreadsOK
<1>7. NamesMatch /\ VerdictsRight
  BY <1>2, <1>3, <1>4 DEF NamesMatch, VerdictsRight
<1>8. OnlyUsable
  BY <1>1, <1>2, <1>3, <1>4 DEF OnlyUsable
<1>9. UsedUp /\ OncePerKernel
  BY DEF UsedUp, OncePerKernel
<1>10. Resolvable /\ ArgDescriptorFound
  <2>1. ClonesDescribed => \A u \in Symbols : CloneName(u) \in DOMAIN lookup_map_ =>
                              CloneName(u) \in DOMAIN arg_map_
    BY <1>1, <1>2, <1>3 DEF ClonesDescribed
  <2> QED BY <1>4, <2>1 DEF Resolvable, ArgDescriptorFound
<1> QED
  BY <1>5, <1>6, <1>7, <1>8, <1>9, <1>10 DEF CacheInv

\* Nothing changes when no one moves.
LEMMA StutterCache == CacheInv /\ UNCHANGED vars => CacheInv'
  BY DEF vars, CacheInv, CacheTypeOK, MapTo, ThreadsOK, NamesMatch, VerdictsRight, OnlyUsable,
         UsedUp, OncePerKernel, Resolvable, ArgDescriptorFound, CloneName

\* CacheInv is inductive: every step of the hook, of addFile and of fixupPacket
\* preserves it.
THEOREM CacheInductive == CacheInv /\ [Next]_vars => CacheInv'
<1> SUFFICES ASSUME CacheInv, [Next]_vars PROVE CacheInv'
  OBVIOUS
<1>1. ASSUME NEW t \in Threads, NEW s \in Symbols, hsa_executable_symbol_get_info(t, s)
      PROVE  CacheInv'
  BY <1>1, GetInfoInv
<1>2. ASSUME NEW t \in Threads, NEW s \in Symbols, fixupPacket(t, s) PROVE CacheInv'
  BY <1>2, FixupPacketInv
<1>3. ASSUME NEW f \in WatchedFiles, addCodeObject(f) PROVE CacheInv'
  BY <1>3, AddCodeObjectInv
<1>4. ASSUME NEW t \in Threads \cup {Watcher}, AddKernelStep(t) PROVE CacheInv'
  BY <1>4, AddKernelInv, ExcludedFileInv, QueryExecutableInv, RegisterInv DEF AddKernelStep
<1>5. ASSUME NEW t \in Threads, FixupStep(t) PROVE CacheInv'
  BY <1>5, GetArgDescriptorInv, CollectMissingInv, ResolveInv DEF FixupStep
<1>6. CASE NextSymbol \/ InsertDescriptor \/ InsertLookup
  BY <1>6, NextSymbolInv, InsertDescriptorInv, InsertLookupInv
<1>7. CASE UNCHANGED vars
  BY <1>7, StutterCache
<1> QED
  BY <1>1, <1>2, <1>3, <1>4, <1>5, <1>6, <1>7 DEF Next, Continue

\* CacheInv holds in every reachable state, whatever the code objects, the
\* filter and the dispatch mode are.
THEOREM CacheInvariance == Spec => []CacheInv
<1>1. Init => CacheInv
  BY InitCache
<1>2. CacheInv /\ [Next]_vars => CacheInv'
  BY CacheInductive
<1> QED
  BY <1>1, <1>2, PTL DEF Spec

\* The registry, the caches and the record of launches keep their types: a
\* kernel object the application holds is in kernel_objects_.
THEOREM CacheTypesKept == Spec => []CacheTypeOK
<1>1. CacheInv => CacheTypeOK
  BY DEF CacheInv
<1> QED BY <1>1, CacheInvariance, PTL

\* fixupPacket does not abort for want of an argument descriptor, although the
\* maps are filled under separate locks by several threads.
THEOREM DescriptorAlwaysFound == Spec => []ArgDescriptorFound
<1>1. CacheInv => ArgDescriptorFound
  BY DEF CacheInv
<1> QED BY <1>1, CacheInvariance, PTL

\* No located kernel of an excluded file is launched instrumented without a
\* cache directory, whichever thread stored the verdict.
THEOREM ExclusionHolds == Spec => []ExcludedNeverRun
<1>1. CacheInv => ExcludedNeverRun
  BY DEF CacheInv, OnlyUsable, ExcludedNeverRun, Usable
<1> QED BY <1>1, CacheInvariance, PTL

\* Mode "1" launches each kernel instrumented at most once (canDispatch and
\* findInstrumentedAlternative together).
THEOREM LaunchedOnce == Spec => []OncePerKernel
<1>1. CacheInv => OncePerKernel
  BY DEF CacheInv
<1> QED BY <1>1, CacheInvariance, PTL

\* Without a cache directory, and with distinct kernel names, the descriptor
\* getArgDescriptor returns is that of the kernel that is launched.
THEOREM DescriptorIsOfAlternative == Spec => []DescriptorWithoutCache
<1>1. CacheInv => DescriptorWithoutCache
  BY DEF CacheInv, OnlyUsable, NamesMatch, DescriptorWithoutCache, DescriptorOfAlternative,
         DistinctNames
<1> QED BY <1>1, CacheInvariance, PTL
=============================================================================
