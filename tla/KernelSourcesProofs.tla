------------------------- MODULE KernelSourcesProofs -------------------------
(***************************************************************************)
(* Proofs about the two ways in which the constructor of hsaInterceptor    *)
(* finds the files with kernels. They share no variable, so the invariant  *)
(* of KernelSources is the conjunction of theirs.                          *)
(*                                                                         *)
(* CacheWatcher: WatcherInv is inductive, so a watcher that has worked off *)
(* its queue has read the newest build of each code object that came in    *)
(* sight, for any number of directories, files and builds.                 *)
(*                                                                         *)
(* LibraryFilter, for every file system and every filter file: at each     *)
(* turn of the constructor's loop exactly the selected files that are not  *)
(* excluded have been added; what glob(3) selects is within what the       *)
(* patterns name, and for simple patterns all of it.                       *)
(***************************************************************************)
EXTENDS KernelSources, Induction

-----------------------------------------------------------------------------
(* The cache watcher.                                                      *)

\* An event at the end of the queue announces its file, and the others are
\* announced as before.
LEMMA QueueFacts ==
    ASSUME NEW e \in Event, events \in Seq(Event), Queue(e)
    PROVE  /\ events' \in Seq(Event) /\ Len(events) <= Len(events')
           /\ \A f : Announced(f)' <=>
                 Announced(f) \/ (e.dir \in watch_map /\ e.mask = "IN_MOVED_TO" /\ e.name = f)
<1>1. CASE e.dir \in watch_map
  <2>1. events' = Append(events, e)
    BY <1>1 DEF Queue
  <2>2. /\ events' \in Seq(Event) /\ Len(events') = Len(events) + 1 /\ Len(events) \in Nat
        /\ events'[Len(events) + 1] = e
        /\ \A n \in 1..Len(events) : events'[n] = events[n]
    BY <2>1
  <2> QED BY <1>1, <2>2 DEF Announced
<1>2. CASE e.dir \notin watch_map
  <2>1. events' = events
    BY <1>2 DEF Queue
  <2> QED BY <1>2, <2>1 DEF Announced
<1> QED BY <1>1, <1>2

\* The handled event was at the head; the others are announced as before.
LEMMA DequeueFacts ==
    ASSUME events \in Seq(Event), events # <<>>, events' = Tail(events)
    PROVE  /\ Head(events) \in Event /\ events' \in Seq(Event)
           /\ Len(events') = Len(events) - 1
           /\ \A f : Announced(f) <=>
                 Announced(f)' \/ (Head(events).mask = "IN_MOVED_TO" /\ Head(events).name = f)
<1>1. /\ Head(events) = events[1] /\ Head(events) \in Event /\ events' \in Seq(Event)
      /\ Len(events) \in Nat \ {0} /\ Len(events') = Len(events) - 1
      /\ \A n \in 1..Len(events') : events'[n] = events[n + 1]
  OBVIOUS
<1>2. ASSUME NEW f, Announced(f)
      PROVE  Announced(f)' \/ (Head(events).mask = "IN_MOVED_TO" /\ Head(events).name = f)
  <2>1. PICK n \in 1..Len(events) : events[n].mask = "IN_MOVED_TO" /\ events[n].name = f
    BY <1>2 DEF Announced
  <2>2. CASE n = 1
    BY <1>1, <2>1, <2>2
  <2>3. CASE n # 1
    <3>1. n - 1 \in 1..Len(events') /\ events'[n - 1] = events[n]
      BY <1>1, <2>3
    <3> QED BY <2>1, <3>1 DEF Announced
  <2> QED BY <2>2, <2>3
<1>3. ASSUME NEW f, Announced(f)' PROVE Announced(f)
  <2>1. PICK n \in 1..Len(events') : events'[n].mask = "IN_MOVED_TO" /\ events'[n].name = f
    BY <1>3 DEF Announced
  <2>2. n + 1 \in 1..Len(events) /\ events[n + 1] = events'[n]
    BY <1>1
  <2> QED BY <2>1, <2>2 DEF Announced
<1> QED
  BY <1>1, <1>2, <1>3 DEF Announced

-----------------------------------------------------------------------------

\* Before the scan there is nothing but what an earlier run left.
LEMMA InitWatcher == Init => WatcherInv
<1> SUFFICES ASSUME Init PROVE WatcherInv
  OBVIOUS
<1> USE CacheAssumption DEF Init, CacheAssumption
<1>1. WatcherTypes
  BY DEF WatcherTypes, Dir
<1>2. BeforeScan /\ NothingInvented /\ NothingForgotten
  BY DEF BeforeScan, NothingInvented, NothingForgotten
<1> QED BY <1>1, <1>2 DEF WatcherInv

\* A new directory is announced to the watcher, but no file.
LEMMA MkdirInv == ASSUME NEW d \in SubDir, WatcherInv, Mkdir(d) PROVE WatcherInv'
<1> DEFINE e == [mask |-> "IN_CREATE", dir |-> Root, name |-> d]
<1>1. e \in Event /\ e.mask # "IN_MOVED_TO"
  BY DEF Event
<1>2. UNCHANGED <<build, coCache, pc, listed, watch_map, batch, shutting_down_, due>>
      /\ dirs' = dirs \cup {d}
  BY DEF Mkdir
<1>3. /\ events' \in Seq(Event) /\ Len(events) <= Len(events')
      /\ \A f : Announced(f)' <=> Announced(f)
  BY <1>1, QueueFacts DEF Mkdir, WatcherInv, WatcherTypes
<1>4. WatcherTypes'
  BY <1>2, <1>3 DEF WatcherInv, WatcherTypes, Dir
<1>5. BeforeScan'
  BY <1>2 DEF WatcherInv, BeforeScan, Mkdir, Queue
<1>6. NothingInvented' /\ NothingForgotten'
  BY <1>2, <1>3 DEF WatcherInv, NothingInvented, NothingForgotten
<1> QED BY <1>4, <1>5, <1>6 DEF WatcherInv

\* A build that arrives is announced exactly if its directory is watched; an
\* older build that is known is then not the one that is due.
LEMMA MoveIntoInv == ASSUME NEW f \in CodeObject, WatcherInv, MoveInto(f) PROVE WatcherInv'
<1> DEFINE e == [mask |-> "IN_MOVED_TO", dir |-> HomeOf[f], name |-> f]
<1>0. WatcherTypes /\ BeforeScan /\ NothingInvented /\ NothingForgotten
  BY DEF WatcherInv
<1>1. e \in Event
  BY CacheAssumption DEF Event, CacheAssumption
<1>2. /\ UNCHANGED <<dirs, coCache, pc, listed, watch_map, batch, shutting_down_>>
      /\ build' = [build EXCEPT ![f] = @ + 1]
      /\ due' = IF InSight(HomeOf[f]) THEN [due EXCEPT ![f] = build[f] + 1] ELSE due
  BY DEF MoveInto
<1>3. /\ events' \in Seq(Event) /\ Len(events) <= Len(events')
      /\ \A g : Announced(g)' <=> Announced(g) \/ (HomeOf[f] \in watch_map /\ g = f)
  BY <1>0, <1>1, QueueFacts DEF MoveInto, WatcherTypes
<1>4. /\ \A g \in CodeObject : build[g] \in Nat /\ coCache[g] \in Nat /\ due[g] \in Nat
      /\ build' \in [CodeObject -> Nat] /\ due' \in [CodeObject -> Nat]
      /\ \A g \in CodeObject \ {f} : build'[g] = build[g] /\ due'[g] = due[g]
      /\ build'[f] = build[f] + 1
      /\ due'[f] = IF InSight(HomeOf[f]) THEN build[f] + 1 ELSE due[f]
  BY <1>0, <1>2 DEF WatcherTypes
<1>5. WatcherTypes'
  BY <1>0, <1>2, <1>3, <1>4 DEF WatcherTypes
<1>6. BeforeScan'
  <2>1. pc = "setLocation" => events' = events
    BY <1>0 DEF BeforeScan, MoveInto, Queue
  <2> QED BY <1>0, <1>2, <1>4, <2>1 DEF BeforeScan, InSight
<1>7. NothingInvented'
  BY <1>0, <1>2, <1>4 DEF NothingInvented
<1>8. NothingForgotten'
  BY <1>0, <1>2, <1>3, <1>4 DEF NothingForgotten, InSight
<1> QED BY <1>5, <1>6, <1>7, <1>8 DEF WatcherInv

\* The scan finds what arrived before it in the cache directory itself, up to
\* the file it gives up at.
LEMMA ScanInv == ASSUME WatcherInv, setLocation PROVE WatcherInv'
<1>0. WatcherTypes /\ BeforeScan /\ NothingInvented
  BY DEF WatcherInv
<1>1. PICK given \in SUBSET util_get_directory_files :
          /\ coCache' = [f \in CodeObject |-> IF f \in given THEN build[f] ELSE 0]
          /\ due' = [f \in CodeObject |-> IF f \in util_get_directory_files \ given THEN 0 ELSE due[f]]
  BY DEF setLocation
<1>2. /\ pc = "setLocation" /\ pc' = "list"
      /\ UNCHANGED <<dirs, build, listed, watch_map, events, batch, shutting_down_>>
  BY DEF setLocation
<1>3. WatcherTypes'
  BY <1>0, <1>1, <1>2 DEF WatcherTypes
<1>4. NothingInvented'
  BY <1>0, <1>1, <1>2 DEF NothingInvented, WatcherTypes
<1>5. ASSUME NEW f \in CodeObject PROVE coCache'[f] >= due'[f]
  <2>1. build[f] \in Nat /\ due[f] \in Nat /\ due[f] <= build[f]
    BY <1>0 DEF WatcherTypes, NothingInvented
  <2>2. f \notin util_get_directory_files => due[f] = 0
    BY <1>0, <1>2, <2>1 DEF BeforeScan, util_get_directory_files
  <2> QED BY <1>1, <2>1, <2>2
<1> QED
  BY <1>2, <1>3, <1>4, <1>5 DEF WatcherInv, BeforeScan, NothingForgotten

\* The steps that neither add a file nor touch the queue, and giving up on
\* the queue altogether.
LEMMA ThreadInv ==
    ASSUME WatcherInv,
           \/ shutdown \/ ListDirectories \/ WatchListed \/ WatchRoot \/ ReadEvents
           \/ HandleThrows \/ Stop
    PROVE  WatcherInv'
<1> USE DEF WatcherInv
<1>1. WatcherTypes'
  <2>1. CASE shutdown \/ ListDirectories \/ ReadEvents \/ Stop
    BY <2>1 DEF WatcherTypes, shutdown, ListDirectories, ReadEvents, Stop, Dir
  <2>2. CASE WatchListed
    BY <2>2 DEF WatcherTypes, WatchListed, inotify_add_watch, Dir
  <2>3. CASE WatchRoot
    <3>1. WatcherTypes /\ batch = 0 /\ batch' = batch
      BY <2>3 DEF WatcherTypes, WatchRoot
    <3>2. \/ pc' = "loop" /\ watch_map' = watch_map \cup {Root} /\ events' = events
          \/ pc' = "idle" /\ watch_map' = {} /\ events' = <<>>
      BY <2>3 DEF WatchRoot
    <3>3. events' \in Seq(Event)
      <4>1. events \in Seq(Event) /\ << >> \in Seq(Event)
        BY <3>1 DEF WatcherTypes
      <4> QED BY <3>2, <4>1
    <3>4. watch_map' \subseteq Dir
      BY <3>1, <3>2 DEF WatcherTypes, Dir
    <3>5. batch' <= Len(events')
      BY <3>1, <3>3
    <3> QED BY <2>3, <3>1, <3>2, <3>3, <3>4, <3>5 DEF WatcherTypes, WatchRoot
  <2>4. CASE HandleThrows
    BY <2>4 DEF WatcherTypes, HandleThrows
  <2> QED BY <2>1, <2>2, <2>3, <2>4
<1> USE DEF shutdown, ListDirectories, WatchListed, WatchRoot, ReadEvents, HandleThrows, Stop
<1>2. BeforeScan'
  BY DEF BeforeScan
<1>3. NothingInvented'
  BY DEF NothingInvented
<1>4. NothingForgotten'
  BY DEF NothingForgotten, Announced
<1> QED BY <1>1, <1>2, <1>3, <1>4

\* The event that is handled announced a file, which is then known as it is,
\* or a directory.
LEMMA HandleEventInv == ASSUME WatcherInv, HandleEvent PROVE WatcherInv'
<1> DEFINE e == Head(events)
<1>0. WatcherTypes /\ BeforeScan /\ NothingInvented /\ NothingForgotten
  BY DEF WatcherInv
<1>1. /\ pc = "loop" /\ batch > 0 /\ batch' = batch - 1
      /\ events' = Tail(events) /\ events # <<>>
      /\ UNCHANGED <<dirs, build, pc, listed, shutting_down_, due>>
  BY <1>0 DEF HandleEvent, WatcherTypes
<1>2. /\ e \in Event /\ events' \in Seq(Event) /\ Len(events') = Len(events) - 1
      /\ \A f : Announced(f) <=> Announced(f)' \/ (e.mask = "IN_MOVED_TO" /\ e.name = f)
  BY <1>0, <1>1, DequeueFacts DEF WatcherTypes
<1>3. /\ coCache' \in [CodeObject -> Nat]
      /\ \A f \in CodeObject :
            coCache'[f] = IF e.mask = "IN_MOVED_TO" /\ e.name = f THEN build[f] ELSE coCache[f]
  <2>1. coCache' = IF e.mask = "IN_MOVED_TO"
                   THEN [coCache EXCEPT ![e.name] = build[e.name]] ELSE coCache
    BY DEF HandleEvent, AddMoved
  <2>2. e.mask = "IN_MOVED_TO" => e.name \in CodeObject
    BY <1>2 DEF Event
  <2> HIDE DEF e
  <2> QED BY <1>0, <2>1, <2>2 DEF WatcherTypes
<1>4. WatcherTypes'
  <2>1. watch_map' \subseteq Dir
    BY <1>0, <1>2 DEF HandleEvent, WatchCreated, inotify_add_watch, Event, Dir, WatcherTypes
  <2>2. batch' \in Nat /\ batch' <= Len(events')
    BY <1>0, <1>1, <1>2 DEF WatcherTypes
  <2> QED BY <1>0, <1>1, <1>2, <1>3, <2>1, <2>2 DEF WatcherTypes
<1>5. BeforeScan'
  BY <1>1 DEF BeforeScan
<1>6. NothingInvented'
  <2> HIDE DEF e
  <2>1. ASSUME NEW f \in CodeObject PROVE coCache'[f] <= build[f] /\ due[f] <= build[f]
    <3>1. build[f] \in Nat /\ coCache[f] <= build[f] /\ due[f] <= build[f]
      BY <1>0 DEF NothingInvented, WatcherTypes
    <3> QED BY <1>3, <3>1
  <2> QED BY <1>1, <2>1 DEF NothingInvented
<1>7. NothingForgotten'
  BY <1>0, <1>1, <1>2, <1>3 DEF NothingForgotten, NothingInvented, WatcherTypes
<1> QED BY <1>4, <1>5, <1>6, <1>7 DEF WatcherInv

-----------------------------------------------------------------------------
(* The theorems about the cache watcher.                                   *)

\* WatcherInv is inductive: Triton, the constructor and the thread keep it.
THEOREM WatcherInductive == WatcherInv /\ [Next]_vars => WatcherInv'
<1> SUFFICES ASSUME WatcherInv, [Next]_vars PROVE WatcherInv'
  OBVIOUS
<1>1. CASE Triton
  BY <1>1, MkdirInv, MoveIntoInv DEF Triton
<1>2. CASE setLocation
  BY <1>2, ScanInv
<1>3. CASE shutdown \/ Watcher
  BY <1>3, ThreadInv, HandleEventInv DEF Watcher
<1>4. CASE UNCHANGED vars
  BY <1>4 DEF vars, WatcherInv, WatcherTypes, BeforeScan, NothingInvented, NothingForgotten, Announced
<1> QED BY <1>1, <1>2, <1>3, <1>4 DEF Next

-----------------------------------------------------------------------------
(* The library filter.                                                     *)

\* Paths and patterns are sequences, and only the first component of a path
\* may be the root.
LEMMA PathTypes ==
    /\ \A p \in Patterns : p \in Seq(Component)
    /\ \A f \in Paths : f \in Seq(Component)
    /\ \A f \in Paths : \A i \in 2..Len(f) : f[i] # "/"
BY FilterAssumption, Zenon DEF FilterAssumption

\* What glob(3) finds for a pattern the regular expression matches too.
LEMMA GlobIsNarrower ==
    ASSUME NEW p \in Patterns, NEW f \in Paths, GlobMatch(p, f)
    PROVE  RegexMatch(p, f)
<1>1. p \in Seq(Component) /\ f \in Seq(Component) /\ Len(p) \in Nat /\ Len(f) = Len(p)
  BY PathTypes DEF GlobMatch
<1> DEFINE cut == [i \in 0..Len(p) |-> i]
<1>2. cut \in [0..Len(p) -> 0..Len(f)] /\ cut[0] = 0 /\ cut[Len(p)] = Len(f)
  BY <1>1
<1>3. \A i \in 1..Len(p) : cut[i] = i /\ cut[i - 1] = i - 1
  BY <1>1
<1>4. \A i \in 1..Len(p) : p[i] = "**" \/ p[i] \in {"*", f[i]}
  BY <1>1 DEF GlobMatch
<1> HIDE DEF cut
<1>5. \A i \in 1..Len(p) : IF p[i] = "**" THEN cut[i] > cut[i - 1]
                          ELSE cut[i] = cut[i - 1] + 1 /\ p[i] \in {"*", f[cut[i]]}
  BY <1>1, <1>3, <1>4
<1> QED BY <1>2, <1>5 DEF RegexMatch

\* For an absolute pattern without "**" that is all: every component of the
\* pattern stands for one of the path.
LEMMA GlobIsEnough ==
    ASSUME NEW p \in Patterns, NEW f \in Paths, RegexMatch(p, f),
           p # <<>>, p[1] = "/", \A i \in 1..Len(p) : p[i] # "**"
    PROVE  GlobMatch(p, f)
<1>1. /\ p \in Seq(Component) /\ f \in Seq(Component) /\ Len(p) \in Nat /\ Len(p) >= 1
      /\ \A i \in 2..Len(f) : f[i] # "/"
  BY PathTypes
<1>2. PICK cut \in [0..Len(p) -> 0..Len(f)] :
          /\ cut[0] = 0 /\ cut[Len(p)] = Len(f)
          /\ \A i \in 1..Len(p) : cut[i] = cut[i - 1] + 1 /\ p[i] \in {"*", f[cut[i]]}
  BY DEF RegexMatch
<1> DEFINE S == {i \in 0..Len(p) : cut[i] = i}
<1>3. \A i \in 0..Len(p) : i \in S
  <2>1. 0 \in S
    BY <1>1, <1>2
  <2>2. \A i \in (0 + 1)..Len(p) : i - 1 \in S => i \in S
    BY <1>1, <1>2
  <2> HIDE DEF S
  <2> QED BY <1>1, <2>1, <2>2, UpTo
<1>4. \A i \in 1..Len(p) : cut[i] = i /\ p[i] \in {"*", f[i]}
  BY <1>1, <1>2, <1>3
<1>5. Len(f) = Len(p)
  BY <1>1, <1>2, <1>4
<1>6. f[1] = "/"
  BY <1>1, <1>4
<1>7. \A i \in 1..Len(f) : p[i] = f[i] \/ (p[i] \in {"*", "**"} /\ f[i] # "/")
  BY <1>1, <1>4, <1>5, <1>6
<1> QED BY <1>5, <1>7 DEF GlobMatch

\* Without a change to the filter the same files are selected and excluded.
LEMMA FilterKept ==
    ASSUME UNCHANGED <<active_, includePatterns_, includeWithDepsPatterns_, excludeRegexes_>>
    PROVE  Selected' = Selected /\ \A f : isExcluded(f)' = isExcluded(f)
BY DEF Selected, isExcluded, getIncludedFiles, getIncludedFilesWithDeps, expandGlob,
       getElfDependencies

\* loadConfig leaves the filter active exactly if all of it was parsed.
LEMMA LoadInv ==
    ASSUME FilterInv, NEW inc \in SUBSET Patterns, NEW deps \in SUBSET Patterns,
           NEW exc \in SUBSET Patterns, NEW bad, loadConfig(inc, deps, exc, bad)
    PROVE  FilterInv'
BY DEF FilterInv, InOrder, loadConfig

\* The list the constructor makes is the selected files.
LEMMA CollectInv == ASSUME FilterInv, CollectFiles PROVE FilterInv'
<1>1. Selected' = Selected /\ files' = Selected /\ added' = {} /\ stage' = "add"
  BY FilterKept DEF CollectFiles, Selected, FilterInv, InOrder
<1> QED
  BY <1>1 DEF CollectFiles, FilterInv, InOrder

\* A turn of the loop moves one file from the list to those added, or drops it.
LEMMA AddFileInv == ASSUME FilterInv, NEW f \in Paths, AddFile(f) PROVE FilterInv'
<1>1. Selected' = Selected /\ \A g : isExcluded(g)' = isExcluded(g)
  BY FilterKept DEF AddFile
<1>2. InOrder'
  BY DEF AddFile, FilterInv, InOrder
<1>3. /\ files \subseteq Selected /\ f \in files /\ files' = files \ {f}
      /\ added = {g \in Selected \ files : ~isExcluded(g)}
      /\ added' = IF isExcluded(f) THEN added ELSE added \cup {f}
  BY DEF AddFile, FilterInv
<1>4. added' = {g \in Selected \ files' : ~isExcluded(g)}
  BY <1>3
<1>5. added' = {g \in Selected' \ files' : ~isExcluded(g)'}
  BY <1>1, <1>4
<1> QED
  BY <1>1, <1>2, <1>3, <1>5 DEF FilterInv

-----------------------------------------------------------------------------
(* The theorems about the library filter.                                  *)

\* loadConfig, the collection of the files and each turn of the loop keep
\* FilterInv.
THEOREM FilterInductive == FilterInv /\ [FilterNext]_filterVars => FilterInv'
<1> SUFFICES ASSUME FilterInv, [FilterNext]_filterVars PROVE FilterInv'
  OBVIOUS
<1>1. ASSUME NEW inc \in SUBSET Patterns, NEW deps \in SUBSET Patterns,
             NEW exc \in SUBSET Patterns, NEW bad \in Bad, loadConfig(inc, deps, exc, bad)
      PROVE  FilterInv'
  BY <1>1, LoadInv
<1>2. CASE CollectFiles
  BY <1>2, CollectInv
<1>3. CASE \E f \in Paths : AddFile(f)
  BY <1>3, AddFileInv
<1>4. CASE UNCHANGED filterVars
  <2>1. Selected' = Selected /\ \A g : isExcluded(g)' = isExcluded(g)
    BY <1>4, FilterKept DEF filterVars
  <2> QED BY <1>4, <2>1 DEF filterVars, FilterInv, InOrder
<1> QED BY <1>1, <1>2, <1>3, <1>4 DEF FilterNext

-----------------------------------------------------------------------------
(* The constructor and the thread, with a cache and without.               *)

\* Each branch of the constructor keeps the invariants of both; the thread
\* that has nothing to watch forgets nothing.
THEOREM SourcesInductive ==
    WatcherInv /\ FilterInv /\ [SourcesNext]_sourcesVars => WatcherInv' /\ FilterInv'
<1> SUFFICES ASSUME WatcherInv, FilterInv, [SourcesNext]_sourcesVars PROVE WatcherInv' /\ FilterInv'
  OBVIOUS
<1>1. CASE WithCache
  BY <1>1, WatcherInductive, FilterInductive DEF WithCache
<1>2. CASE Construct
  BY <1>2, WatcherInductive, FilterInductive DEF Construct
<1>3. CASE NothingToWatch
  <2>1. WatcherTypes /\ BeforeScan /\ NothingInvented /\ batch = 0
    BY <1>3 DEF NothingToWatch, WatcherInv, WatcherTypes
  <2>2. WatcherTypes'
    BY <1>3, <2>1 DEF NothingToWatch, WatcherTypes
  <2>3. BeforeScan' /\ NothingInvented' /\ NothingForgotten'
    BY <1>3, <2>1 DEF NothingToWatch, BeforeScan, NothingInvented, NothingForgotten
  <2> QED BY <1>3, <2>2, <2>3, FilterInductive DEF NothingToWatch, WatcherInv
<1>4. CASE End
  BY <1>4, WatcherInductive, FilterInductive DEF End, Next, Watcher
<1>5. CASE UNCHANGED sourcesVars
  BY <1>5, WatcherInductive, FilterInductive DEF sourcesVars
<1> QED BY <1>1, <1>2, <1>3, <1>4, <1>5 DEF SourcesNext

\* Both invariants hold in every reachable state.
THEOREM SourcesInvariance == SourcesSpec => [](WatcherInv /\ FilterInv)
<1>1. SourcesInit => WatcherInv /\ FilterInv
  BY InitWatcher DEF SourcesInit, FilterInit, FilterInv, InOrder
<1> QED BY <1>1, SourcesInductive, PTL DEF SourcesSpec

\* The watcher invariant of the run, for every cache.
THEOREM WatcherInvariance == SourcesSpec => []WatcherInv
BY SourcesInvariance, PTL

\* No order of mkdir, renames, scan and watching loses a build that arrives in
\* sight, leaves the tool with an older one, or makes it believe in another.
THEOREM WatcherKnowsNewest == SourcesSpec => []NewestInSightKnown
<1>1. WatcherInv => NewestInSightKnown
  <2> SUFFICES ASSUME WatcherInv, Settled, NEW f \in CodeObject
               PROVE  coCache[f] \in due[f]..build[f]
    BY DEF NewestInSightKnown
  <2>1. build[f] \in Nat /\ coCache[f] \in Nat /\ due[f] \in Nat
    BY DEF WatcherInv, WatcherTypes
  <2>2. ~Announced(f)
    BY DEF Settled, Announced
  <2>3. coCache[f] >= due[f] /\ coCache[f] <= build[f]
    BY <2>2 DEF WatcherInv, NothingForgotten, NothingInvented, Settled
  <2> QED BY <2>1, <2>3
<1> QED BY <1>1, WatcherInvariance, PTL

\* The lists of the filter file decide, for every file system and every filter:
\* what it adds is loaded, named or needed and not excepted, and simple
\* patterns and their direct dependencies lose nothing.
THEOREM FilterAlwaysRespected == SourcesSpec => []FilterRespected
<1>1. FilterInv => FilterRespected
  <2> SUFFICES ASSUME FilterInv, Done, active_ PROVE FilterRespected
    BY DEF FilterRespected
  <2> DEFINE named == NamedBy(Simple(includePatterns_ \cup includeWithDepsPatterns_))
             direct == UNION {getElfDependencies(g) : g \in NamedBy(Simple(includeWithDepsPatterns_))}
  <2>1. added = {f \in Selected : ~Excepted(f)}
    BY DEF FilterInv, Done, isExcluded, Excepted, Names
  <2>2. /\ includePatterns_ \subseteq Patterns /\ includeWithDepsPatterns_ \subseteq Patterns
        /\ Selected = Loaded \cup getIncludedFiles \cup getIncludedFilesWithDeps
        /\ Loaded \subseteq Paths /\ Elf \subseteq Paths
    BY FilterAssumption DEF FilterInv, InOrder, Selected, FilterAssumption
  <2>3. ASSUME NEW P \in SUBSET Patterns
        PROVE  expandGlob(P) \subseteq NamedBy(P) /\ NamedBy(Simple(P)) \subseteq expandGlob(P)
    BY <2>2, GlobIsNarrower, GlobIsEnough DEF expandGlob, NamedBy, Simple, Names
  <2>4. NamedBy(includeWithDepsPatterns_) \subseteq WithDependencies(NamedBy(includeWithDepsPatterns_))
    BY <2>2 DEF WithDependencies, NamedBy
  <2>5. \A g \in NamedBy(includeWithDepsPatterns_) :
            getElfDependencies(g) \subseteq WithDependencies(NamedBy(includeWithDepsPatterns_))
    BY <2>2 DEF WithDependencies, getElfDependencies
  <2>6. Selected \subseteq Loaded \cup NamedBy(includePatterns_)
                               \cup WithDependencies(NamedBy(includeWithDepsPatterns_))
    BY <2>2, <2>3, <2>4, <2>5 DEF getIncludedFiles, getIncludedFilesWithDeps
  <2>7. Loaded \cup named \cup direct \subseteq Selected
    <3>1. named \subseteq expandGlob(includePatterns_) \cup expandGlob(includeWithDepsPatterns_)
      <4>1. named \subseteq expandGlob(includePatterns_ \cup includeWithDepsPatterns_)
        BY <2>2, <2>3
      <4> QED BY <4>1 DEF expandGlob
    <3>2. NamedBy(Simple(includeWithDepsPatterns_)) \subseteq expandGlob(includeWithDepsPatterns_)
      BY <2>2, <2>3
    <3> QED BY <2>2, <3>1, <3>2 DEF getIncludedFiles, getIncludedFilesWithDeps
  <2> QED BY <2>1, <2>6, <2>7 DEF FilterRespected
<1> QED BY <1>1, SourcesInvariance, PTL

\* A filter file that does not parse changes nothing.
THEOREM BadFilterHasNoEffect == SourcesSpec => []BadFilterIgnored
<1>1. FilterInv => BadFilterIgnored
  BY DEF FilterInv, InOrder, BadFilterIgnored, Done, Selected, isExcluded
<1> QED BY <1>1, SourcesInvariance, PTL
=============================================================================
