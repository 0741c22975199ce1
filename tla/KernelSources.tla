---------------------------- MODULE KernelSources ----------------------------
(***************************************************************************)
(* Where kernels come from: the constructor of hsaInterceptor scans the    *)
(* kernel cache if it is given one, and otherwise adds the executable and  *)
(* its libraries under the library filter. Then the cache_watcher thread,  *)
(* which waits for the constructor's lock, follows the cache or, without   *)
(* one, only waits for the end. CacheWatcher and LibraryFilter are the two *)
(* branches; the filter is read in both, but with a cache nothing of it is *)
(* consulted, and its reading is left out.                                 *)
(***************************************************************************)
EXTENDS CacheWatcher, LibraryFilter

VARIABLE cacheLocation   \* is LOGDUR_KERNEL_CACHE set?

sourcesVars == <<vars, filterVars, cacheLocation>>

SourcesInit == Init /\ FilterInit /\ cacheLocation \in BOOLEAN

WithCache == cacheLocation /\ Next /\ UNCHANGED <<filterVars, cacheLocation>>

Construct == ~cacheLocation /\ FilterNext /\ UNCHANGED <<vars, cacheLocation>>

\* The constructor returns, getInstance gives the thread the singleton, and
\* the thread finds no cache to watch.
NothingToWatch ==
    /\ ~cacheLocation /\ pc = "setLocation" /\ Done
    /\ pc' = "idle"
    /\ UNCHANGED <<dirs, build, coCache, listed, watch_map, events, batch, shutting_down_, due,
                   filterVars, cacheLocation>>

End == ~cacheLocation /\ (shutdown \/ Stop) /\ UNCHANGED <<filterVars, cacheLocation>>

SourcesNext == WithCache \/ Construct \/ NothingToWatch \/ End

\* The watcher thread is scheduled, and the scan of the cache returns.
SourcesFairness == WF_vars(Watcher) /\ WF_vars(cacheLocation /\ setLocation)

SourcesSpec == SourcesInit /\ [][SourcesNext]_sourcesVars /\ SourcesFairness
=============================================================================
