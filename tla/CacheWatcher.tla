---------------------------- MODULE CacheWatcher ----------------------------
(***************************************************************************)
(* How the interceptor learns of Triton's code objects: the scan of the    *)
(* cache directory in the constructor (coCache::setLocation) and the       *)
(* cache_watcher thread, which follows the directory with inotify, while   *)
(* Triton's compiler makes a directory per kernel and renames the finished *)
(* code object into it, over an older build of it if there is one: the     *)
(* omniprobe script sets TRITON_ALWAYS_COMPILE.                            *)
(*                                                                         *)
(* A watch descriptor is the directory it watches.  The kernel's inotify   *)
(* queue is modelled as the code uses it: an event is queued, in order, if *)
(* its directory is watched at that moment.  Only .hsaco files count; for  *)
(* others every branch of the event loop does nothing.                     *)
(***************************************************************************)
EXTENDS Naturals, Sequences

CONSTANTS
    Root,        \* the cache directory (LOGDUR_KERNEL_CACHE)
    SubDir,      \* directories Triton makes below it
    CodeObject,  \* the .hsaco files
    HomeOf,      \* HomeOf[f]: the directory f ends up in
    StartFiles,  \* the files an earlier run left in the cache
    WatchFails,  \* whether inotify_add_watch may fail
    AddFileThrows, \* whether addFile may throw, as it does for a file it cannot read
    MaxBuilds    \* bound on the builds of a code object

Dir == SubDir \cup {Root}

ASSUME CacheAssumption ==
    /\ Root \notin SubDir
    /\ HomeOf \in [CodeObject -> Dir]
    /\ StartFiles \subseteq CodeObject
    /\ WatchFails \in BOOLEAN /\ AddFileThrows \in BOOLEAN
    /\ MaxBuilds \in Nat \ {0}

VARIABLES
    dirs,            \* directories that exist
    build,           \* which build of each code object is on disk, 0 if none
    coCache,         \* the build last given to coCache::addFile, 0 if none
    pc,              \* the constructor, then the cache_watcher thread
    listed,          \* directories still to be watched at start
    watch_map,       \* watched directories, by watch descriptor
    events,          \* the inotify queue
    batch,           \* events read into the buffer and not yet handled
    shutting_down_,
    due              \* history: the last build that arrived in sight

vars == <<dirs, build, coCache, pc, listed, watch_map, events, batch, shutting_down_, due>>

Init ==
    /\ build = [f \in CodeObject |-> IF f \in StartFiles THEN 1 ELSE 0]
    /\ dirs = {Root} \cup {HomeOf[f] : f \in StartFiles}
    /\ coCache = [f \in CodeObject |-> 0]
    /\ watch_map = {} /\ listed = {} /\ events = <<>> /\ batch = 0
    /\ due = [f \in CodeObject |-> IF HomeOf[f] = Root THEN build[f] ELSE 0]
    /\ pc = "setLocation"
    /\ shutting_down_ = FALSE

Queue(event) == events' = IF event.dir \in watch_map THEN Append(events, event) ELSE events

-----------------------------------------------------------------------------
(* Triton *)

Mkdir(d) ==
    /\ d \notin dirs
    /\ dirs' = dirs \cup {d}
    /\ Queue([mask |-> "IN_CREATE", dir |-> Root, name |-> d])
    /\ UNCHANGED <<build, coCache, pc, listed, watch_map, batch, shutting_down_, due>>

\* A build arrives in sight of the tool in the cache directory itself before
\* that is scanned, or in a directory that is watched at that moment.
InSight(d) == d \in watch_map \/ (pc = "setLocation" /\ d = Root)

\* The compiler writes to a temporary name and renames it into place.
MoveInto(f) ==
    /\ HomeOf[f] \in dirs /\ build[f] < MaxBuilds
    /\ build' = [build EXCEPT ![f] = @ + 1]
    /\ due' = IF InSight(HomeOf[f]) THEN [due EXCEPT ![f] = build[f] + 1] ELSE due
    /\ Queue([mask |-> "IN_MOVED_TO", dir |-> HomeOf[f], name |-> f])
    /\ UNCHANGED <<dirs, coCache, pc, listed, watch_map, batch, shutting_down_>>

-----------------------------------------------------------------------------
(* The constructor *)

\* util_get_directory_files lists the regular files of one directory.
util_get_directory_files == {f \in CodeObject : build[f] > 0 /\ HomeOf[f] = Root}

\* An exception of addFile is caught outside the loop, which gives up on the
\* files that are left.
setLocation ==
    /\ pc = "setLocation"
    /\ \E given \in SUBSET util_get_directory_files :
          /\ given = util_get_directory_files \/ AddFileThrows
          /\ coCache' = [f \in CodeObject |-> IF f \in given THEN build[f] ELSE 0]
          /\ due' = [f \in CodeObject |-> IF f \in util_get_directory_files \ given THEN 0 ELSE due[f]]
    /\ pc' = "list"
    /\ UNCHANGED <<dirs, build, listed, watch_map, events, batch, shutting_down_>>

shutdown ==
    /\ pc # "setLocation" /\ ~shutting_down_
    /\ shutting_down_' = TRUE
    /\ UNCHANGED <<dirs, build, coCache, pc, listed, watch_map, events, batch, due>>

-----------------------------------------------------------------------------
(* The cache_watcher thread *)

inotify_add_watch(d) == watch_map' = watch_map \cup {d} \/ (WatchFails /\ watch_map' = watch_map)

ListDirectories ==
    /\ pc = "list"
    /\ listed' = dirs \ {Root}
    /\ pc' = "watch"
    /\ UNCHANGED <<dirs, build, coCache, watch_map, events, batch, shutting_down_, due>>

WatchListed ==
    /\ pc = "watch"
    /\ \E d \in listed : inotify_add_watch(d) /\ listed' = listed \ {d}
    /\ UNCHANGED <<dirs, build, coCache, pc, events, batch, shutting_down_, due>>

\* Without a watch on the cache itself the inotify descriptor is closed, its
\* watches and queue with it, and the thread only waits for the end.
WatchRoot ==
    /\ pc = "watch" /\ listed = {}
    /\ \/ pc' = "loop" /\ watch_map' = watch_map \cup {Root} /\ events' = events
       \/ WatchFails /\ pc' = "idle" /\ watch_map' = {} /\ events' = <<>>
    /\ UNCHANGED <<dirs, build, coCache, listed, batch, shutting_down_, due>>

\* Variant: the branch for a file that is moved in is missing.
AddNothing(event) == coCache' = coCache

\* Variant: a file that is known is not read again.
AddOnce(event) ==
    coCache' = IF event.mask = "IN_MOVED_TO" /\ coCache[event.name] = 0
               THEN [coCache EXCEPT ![event.name] = build[event.name]] ELSE coCache

\* addFile reads the build that is there by now.
AddMoved(event) ==
    coCache' = IF event.mask = "IN_MOVED_TO"
               THEN [coCache EXCEPT ![event.name] = build[event.name]] ELSE coCache

\* Only directories get an IN_CREATE here; the new one is watched.
WatchCreated(event) ==
    \/ event.mask = "IN_CREATE" /\ inotify_add_watch(event.name)
    \/ event.mask # "IN_CREATE" /\ watch_map' = watch_map

\* shuttingdown() is tested before select and read; the buffer holds more
\* events than a small instance can queue.
ReadEvents ==
    /\ pc = "loop" /\ batch = 0 /\ ~shutting_down_ /\ events # <<>>
    /\ batch' = Len(events)
    /\ UNCHANGED <<dirs, build, coCache, pc, listed, watch_map, events, shutting_down_, due>>

HandleEvent ==
    /\ pc = "loop" /\ batch > 0
    /\ batch' = batch - 1
    /\ WatchCreated(Head(events))
    /\ AddMoved(Head(events))
    /\ events' = Tail(events)
    /\ UNCHANGED <<dirs, build, pc, listed, shutting_down_, due>>

\* Nothing in the thread catches an exception of addFile: the process ends.
HandleThrows ==
    /\ AddFileThrows
    /\ pc = "loop" /\ batch > 0 /\ Head(events).mask = "IN_MOVED_TO"
    /\ pc' = "terminated" /\ batch' = 0
    /\ UNCHANGED <<dirs, build, coCache, listed, watch_map, events, shutting_down_, due>>

\* Variant: the loop is left only when there is nothing to read.
StopWhenQuiet ==
    /\ pc \in {"loop", "idle"} /\ shutting_down_ /\ batch = 0 /\ events = <<>>
    /\ pc' = "stopped"
    /\ UNCHANGED <<dirs, build, coCache, listed, watch_map, events, batch, shutting_down_, due>>

Stop ==
    /\ pc \in {"loop", "idle"} /\ shutting_down_ /\ batch = 0
    /\ pc' = "stopped"
    /\ UNCHANGED <<dirs, build, coCache, listed, watch_map, events, batch, shutting_down_, due>>

-----------------------------------------------------------------------------

Watcher == ListDirectories \/ WatchListed \/ WatchRoot \/ ReadEvents \/ HandleEvent \/ HandleThrows \/ Stop
Triton == (\E d \in SubDir : Mkdir(d)) \/ (\E f \in CodeObject : MoveInto(f))

Next == Triton \/ setLocation \/ shutdown \/ Watcher

\* The watcher thread is scheduled, the constructor returns; Triton need not
\* compile anything and the process need not end.
Fairness == WF_vars(Watcher) /\ WF_vars(setLocation)

Spec == Init /\ [][Next]_vars /\ Fairness

-----------------------------------------------------------------------------
(* Properties *)

Settled == pc = "loop" /\ events = <<>>

(* Once the watcher has worked off its queue it has read each code object  *)
(* in the newest build that came in sight, or a later one, and no build    *)
(* that is not there: no order of mkdir, rename, rename over an older      *)
(* build, scan and watching loses such a build or leaves the tool with an  *)
(* older one.                                                              *)
NewestInSightKnown == Settled => \A f \in CodeObject : coCache[f] \in due[f]..build[f]

(* "Omniprobe found and loaded the instrumented variant of `add_kernel`    *)
(* from the Triton cache" (docs/triton-instrumentation.md:285): a kernel   *)
(* compiled for the first time while the watcher is at work, in a          *)
(* directory made for it, is eventually known, unless the process ends.    *)
NewKernelsLearnt ==
    \A f \in CodeObject :
        [](pc = "loop" /\ HomeOf[f] \notin dirs =>
              [](build[f] > 0 => <>(coCache[f] > 0 \/ shutting_down_)))

\* The queue announces f.
Announced(f) == \E n \in 1..Len(events) : events[n].mask = "IN_MOVED_TO" /\ events[n].name = f

(* A build of a code object that has been renamed into a watched directory *)
(* is eventually given to the kernel cache, or a later one is, unless the  *)
(* process ends or the cache directory itself could not be watched.        *)
WatchedIsLearnt ==
    \A f \in CodeObject, b \in 1..MaxBuilds :
        (Announced(f) /\ build[f] >= b)
            ~> (coCache[f] >= b \/ shutting_down_ \/ pc \in {"idle", "terminated"})

(* The watcher thread ends after shutdown, so that the destructor's join   *)
(* returns.                                                                *)
WatcherJoins == shutting_down_ ~> pc \in {"stopped", "terminated"}

-----------------------------------------------------------------------------
(* The inductive strengthening of NewestInSightKnown *)

Event == [mask : {"IN_CREATE"}, dir : {Root}, name : SubDir]
            \cup [mask : {"IN_MOVED_TO"}, dir : Dir, name : CodeObject]

WatcherTypes ==
    /\ dirs \subseteq Dir
    /\ build \in [CodeObject -> Nat] /\ coCache \in [CodeObject -> Nat] /\ due \in [CodeObject -> Nat]
    /\ pc \in {"setLocation", "list", "watch", "loop", "idle", "stopped", "terminated"}
    /\ listed \subseteq SubDir /\ watch_map \subseteq Dir
    /\ events \in Seq(Event) /\ batch \in Nat /\ batch <= Len(events)
    /\ pc # "loop" => batch = 0

\* Before the scan nothing is watched and nothing is known; what is in the
\* cache directory is in sight.
BeforeScan ==
    pc = "setLocation" => /\ watch_map = {} /\ events = <<>>
                          /\ \A f \in CodeObject : HomeOf[f] # Root => due[f] = 0

\* No build is known, or in sight, that is not there.
NothingInvented == \A f \in CodeObject : coCache[f] <= build[f] /\ due[f] <= build[f]

\* What came in sight was given to the kernel cache, in that build or a later
\* one, or the queue still announces it, as long as it is read.
NothingForgotten ==
    pc \in {"list", "watch", "loop"} =>
        \A f \in CodeObject : coCache[f] >= due[f] \/ Announced(f)

(* What the scan, the watcher thread and Triton preserve between them:     *)
(* each build that comes in sight is in the queue or handled.              *)
WatcherInv == WatcherTypes /\ BeforeScan /\ NothingInvented /\ NothingForgotten
=============================================================================
