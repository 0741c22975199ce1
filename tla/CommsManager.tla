---------------------------- MODULE CommsManager ----------------------------
(***************************************************************************)
(* comms_mgr (src/src/comms_mgr.cc), handlerManager (src/src/utils.cc) and *)
(* the plugins: every instrumented dispatch gets a dh_comms object with a  *)
(* chain of handlers of its own, gives it back when it has completed, and  *)
(* the handlers report then.  A session that is not instrumented logs how  *)
(* long each dispatch took (logDuration).                                  *)
(*                                                                         *)
(* dh_comms is external: messages of a running kernel are buffered, a      *)
(* thread of the object passes each to the handlers in order until one     *)
(* takes it, stop() has it pass on what is left.  checkout and checkin     *)
(* each hold comms_mgr::mutex_ throughout.                                 *)
(***************************************************************************)
EXTENDS Handlers

CONSTANTS
    Agents,         \* GPU agents
    Pools,          \* agent |-> its memory pools: [segment, alloc_allowed, coarse]
    Messages,       \* messages a kernel may send
    MaxEvents       \* bound on dispatches and messages together

ASSUME CommsAssumption ==
    /\ DOMAIN Pools = Agents
    /\ MaxEvents \in Nat
    /\ Messages \subseteq Message
    /\ \A a \in Agents : Pools[a] \in Seq([segment : STRING, alloc_allowed : BOOLEAN, coarse : BOOLEAN])

VARIABLES
    state,          \* of the session: "setup", "loading", "running", "ended"...
    LOGDUR_INSTRUMENTED, \* "true", or "" if unset
    log_format,     \* LOGDUR_LOG_FORMAT, "" if unset
    location,       \* LOGDUR_LOG_LOCATION, "console" or "file"
    log,            \* content of the log file
    plugins_,       \* libraries, in the order of their handles
    mem_mgrs_,      \* agent |-> the pool its hsa_mem_mgr allocates from
    dispatch_count_,\* dispatches seen by the interceptor
    timed,          \* dispatches whose duration is still to be logged
    objects,        \* dispatch |-> its comms object
    sent,           \* dispatch |-> the messages its kernel has sent
    reports,        \* dispatch |-> its handlers that have reported
    leaked,         \* dispatches whose object was not deleted
    faulted         \* agents for which a null object was dereferenced

environment == <<LOGDUR_INSTRUMENTED, log_format, location>>
sessionVars == <<state, environment>>
commsVars == <<plugins_, mem_mgrs_>>
dispatchVars == <<dispatch_count_, timed, objects, sent, reports, leaked, faulted>>

CommsInit ==
    /\ plugins_ = << >>
    /\ mem_mgrs_ = EmptyMap
    /\ dispatch_count_ = 0
    /\ timed = {}
    /\ objects = EmptyMap
    /\ sent = EmptyMap
    /\ reports = EmptyMap
    /\ leaked = {}
    /\ faulted = {}

-----------------------------------------------------------------------------
(* Loading: the interceptor's constructor.                                 *)

\* The handlers a library of that name makes for a dispatch, if it is one
\* that exports getMessageHandlers.
Plugin(kdb) ==
    [lib \in {"libdefaultMessageHandlers64.so", "libMemAnalysis64.so",
              "libLogMessages64.so", "libBasicBlocks64.so"} |->
        CASE lib = "libdefaultMessageHandlers64.so" -> <<time_interval_handler_t, memory_heatmap_t>>
          [] lib = "libMemAnalysis64.so" -> <<memory_analysis_handler_t>>
          [] lib = "libLogMessages64.so" -> <<message_logger_t>>
          [] lib = "libBasicBlocks64.so" -> <<basic_block_analysis(kdb)>>]

Exporting == DOMAIN Plugin("kernel")

\* setHandlers: plugins_ is a map of handles, so a library is in it once, and
\* in the order of their addresses.
setHandlers(libs) == plugins_' \in SetToSeqs(Range(libs) \cap Exporting)

\* The pools addAgent collects. A pool of which a property cannot be queried is
\* passed over like one that may not be allocated from, and has alloc_allowed
\* FALSE here; that the host is out of memory (bad_alloc) is left out.
Usable(p) == p.segment = "global" /\ p.alloc_allowed /\ p.coarse

\* Variant: the iteration over the pools ends at one that is not usable.
addAgentsFirstPool ==
    mem_mgrs_' = [a \in {b \in Agents : Pools[b] # << >> /\ Usable(Pools[b][1])} |-> Pools[a][1]]

\* addAgent, for every GPU: each usable pool gets a manager, the last one's
\* is kept.
addAgents ==
    LET usable(a) == {i \in DOMAIN Pools[a] : Usable(Pools[a][i])}
    IN  mem_mgrs_' = [a \in {b \in Agents : usable(b) # {}} |-> Pools[a][Max(usable(a))]]

\* LOGDUR_INSTRUMENTED as getLogDurConfig and the constructor read it.
run_instrumented_ == LOGDUR_INSTRUMENTED = "true"

\* logDuration opens the log file, appends, and flushes with every line.
LoggedDuration(id) == IF location = "file" THEN log \o Token("text", id) ELSE log

\* The constructor: setConfig, logHeaders, then addAgent. A library that
\* cannot be opened ends the program.
Load(libs) ==
    /\ state = "loading"
    /\ \/ /\ "missing.so" \notin Range(libs)
          /\ setHandlers(libs)
          /\ log' = IF run_instrumented_ THEN log ELSE LoggedDuration(0)
          /\ addAgents
          /\ state' = "running"
       \/ /\ "missing.so" \in Range(libs)
          /\ state' = "ended"
          /\ UNCHANGED <<log, commsVars>>
    /\ UNCHANGED <<environment, dispatchVars>>

-----------------------------------------------------------------------------
(* Dispatches.                                                             *)

\* The chain of a dispatch; without a plugin a heatmap and intervals, both on
\* the console.
getMessageHandlers(kdb) == FlattenSeq([i \in DOMAIN plugins_ |-> Plugin(kdb)[plugins_[i]]])
Chain(kdb) == IF plugins_ = << >> THEN <<memory_heatmap_t, time_interval_handler_t>>
                ELSE getMessageHandlers(kdb)

\* The text reaches the file only if the handlers were given it as location.
Logged(text) == IF location = "file" /\ plugins_ # << >> THEN log \o text ELSE log
json == log_format = "json"

\* The session may go on for another dispatch or message.
Within == dispatch_count_ + SumFunction([d \in DOMAIN sent |-> Len(sent[d])]) < MaxEvents

\* A dispatch the interceptor leaves alone is counted, and timed if all are.
DispatchOriginal ==
    /\ state = "running"
    /\ Within
    /\ dispatch_count_' = dispatch_count_ + 1
    /\ timed' = IF run_instrumented_ THEN timed ELSE timed \cup {dispatch_count_ + 1}
    /\ UNCHANGED <<sessionVars, log, commsVars, objects, sent, reports, leaked, faulted>>

\* signalCompleted for a dispatch without comms object.
signalCompleted(d) ==
    /\ state = "running"
    /\ timed' = timed \ {d}
    /\ log' = LoggedDuration(d)
    /\ UNCHANGED <<sessionVars, commsVars, dispatch_count_, objects, sent, reports, leaked, faulted>>

\* An instrumented one. For an agent without manager there is no object, and
\* fixupPacket uses what it gets.
checkoutCommsObject(a, kdb) ==
    LET id == dispatch_count_ + 1
        hs == Chain(kdb)
    IN  /\ state = "running"
        /\ run_instrumented_
        /\ Within
        /\ dispatch_count_' = id
        /\ \/ /\ a \in DOMAIN mem_mgrs_
              /\ objects' = Put(objects, id, [agent |-> a, handlers |-> hs, buffer |-> << >>])
              /\ sent' = Put(sent, id, << >>)
              /\ log' = Logged(FlattenSeq([i \in DOMAIN hs |-> WrittenFirst(hs[i], id, json)]))
              /\ UNCHANGED <<state, faulted>>
           \/ /\ a \notin DOMAIN mem_mgrs_
              /\ faulted' = faulted \cup {a}
              /\ state' = "ended"
              /\ UNCHANGED <<objects, sent, log>>
        /\ UNCHANGED <<environment, commsVars, timed, reports, leaked>>

\* The kernel, which has not completed, sends a message (external).
Submit(d, m) ==
    /\ state = "running"
    /\ d \notin leaked
    /\ Within
    /\ sent' = [sent EXCEPT ![d] = Append(@, m)]
    /\ objects' = [objects EXCEPT ![d].buffer = Append(@, m)]
    /\ UNCHANGED <<sessionVars, log, commsVars, dispatch_count_, timed, reports, leaked, faulted>>

\* The handler that takes m, if there is one (external): the first.
Takers(hs, m) == {i \in DOMAIN hs : Takes(hs[i], m) /\ \A j \in 1..(i - 1) : ~Takes(hs[j], m)}

Passed(hs, m) == [i \in DOMAIN hs |-> IF i \in Takers(hs, m) THEN Kept(hs[i], m) ELSE hs[i]]
TextOf(hs, m, id) == FlattenSeq([i \in DOMAIN hs |->
                        IF i \in Takers(hs, m) THEN WrittenOn(hs[i], m, id, json) ELSE << >>])

\* The object's thread passes a message on (external).
Process(d) ==
    LET obj == objects[d]
        m == Head(obj.buffer)
    IN  /\ state = "running"
        /\ d \notin leaked
        /\ obj.buffer # << >>
        /\ objects' = [objects EXCEPT ![d] = [obj EXCEPT !.handlers = Passed(@, m), !.buffer = Tail(@)]]
        /\ log' = Logged(TextOf(obj.handlers, m, d))
        /\ UNCHANGED <<sessionVars, commsVars, dispatch_count_, timed, sent, reports, leaked, faulted>>

\* stop(): the handlers, and the text they have written, when the buffer of
\* an object is empty (external).
Stopped(obj, d) ==
    LET after[n \in 0..Len(obj.buffer)] ==
            IF n = 0 THEN obj.handlers ELSE Passed(after[n - 1], obj.buffer[n])
    IN  [handlers |-> after[Len(obj.buffer)],
         text |-> FlattenSeq([n \in DOMAIN obj.buffer |-> TextOf(after[n - 1], obj.buffer[n], d)])]

\* Variant: report before stop.
ReportBeforeStop(d, n, flushed) ==
    LET before == objects[d].handlers
        text == FlattenSeq([i \in 1..n |-> WrittenLast(before[i], d, json, flushed)])
    IN  /\ state = "running"
        /\ d \notin leaked
        /\ n = Len(before)
        /\ reports' = Put(reports, d, before)
        /\ log' = Logged(text \o Stopped(objects[d], d).text)
        /\ objects' = Restrict(objects, DOMAIN objects \ {d})
        /\ UNCHANGED <<sessionVars, commsVars, dispatch_count_, timed, sent, leaked, faulted>>

\* Variant: the object is neither deleted nor forgotten.
CheckinNotDeleted(d, n, flushed) ==
    LET stopped == Stopped(objects[d], d)
        text == FlattenSeq([i \in 1..n |-> WrittenLast(stopped.handlers[i], d, json, flushed)])
    IN  /\ state = "running"
        /\ n = Len(stopped.handlers)
        /\ reports' = Put(reports, d, stopped.handlers)
        /\ log' = Logged(stopped.text \o text)
        /\ leaked' = leaked \cup {d}
        /\ UNCHANGED <<sessionVars, commsVars, dispatch_count_, timed, objects, sent, faulted>>

\* A report that asks the kernelDB for file names may throw.
MayThrow(h) == h.type = "basic_block" /\ h.kdb = "kernel"

\* The kernel has completed: stop, report, delete. n handlers report; n is
\* all of them unless an exception is thrown, by stop or by the report of the
\* next handler, and then the object stays behind. Of what that handler has
\* written part may have reached the file.
checkinCommsObject(d, n, flushed) ==
    LET stopped == Stopped(objects[d], d)
        hs == stopped.handlers
        text == FlattenSeq([i \in 1..n |-> WrittenLast(hs[i], d, json, flushed)])
        throws == n < Len(hs) /\ MayThrow(hs[n + 1])
    IN  /\ state = "running"
        /\ d \notin leaked
        /\ n = Len(hs) \/ n = 0 \/ throws
        /\ reports' = Put(reports, d, SubSeq(hs, 1, n))
        /\ log' = Logged(stopped.text \o text \o (IF throws /\ flushed THEN Token("record", d) ELSE << >>))
        /\ objects' = IF n = Len(hs) THEN Restrict(objects, DOMAIN objects \ {d}) ELSE objects
        /\ leaked' = IF n = Len(hs) THEN leaked ELSE leaked \cup {d}
        /\ UNCHANGED <<sessionVars, commsVars, dispatch_count_, timed, sent, faulted>>

\* The singleton is deleted: the destructors of handlerManager and comms_mgr.
\* Objects that are checked out stay as they are.
Unload ==
    /\ state = "running"
    /\ state' = "ended"
    /\ plugins_' = << >>
    /\ mem_mgrs_' = EmptyMap
    /\ UNCHANGED <<environment, log, dispatchVars>>

CommsNext ==
    \/ Unload
    \/ DispatchOriginal
    \/ \E d \in timed : signalCompleted(d)
    \/ \E a \in Agents, kdb \in {"no_database", "no_kernel", "kernel"} : checkoutCommsObject(a, kdb)
    \/ \E d \in DOMAIN objects : \/ \E m \in Messages : Submit(d, m)
                                 \/ Process(d)

-----------------------------------------------------------------------------
(* Properties.                                                             *)

\* The messages of dispatch d that handler i of chain hs is to count: those
\* no handler before it takes.
Share(hs, d, i) ==
    {k \in DOMAIN sent[d] : Takes(hs[i], sent[d][k]) /\ \A j \in 1..(i - 1) : ~Takes(hs[j], sent[d][k])}

\* A report gives exactly the figures of its own dispatch: every message the
\* kernel sent is counted, by the one handler of the chain that takes it, at
\* whatever time it was passed on, whatever other dispatches were running
\* and however many handlers failed to report (checkinCommsObject, handle of
\* memory_heatmap_t and time_interval_handler_t).
FiguresExact ==
    \A d \in DOMAIN reports : \A i \in DOMAIN reports[d] :
        Exact(reports[d][i], ItemsOf(sent[d], Share(reports[d], d, i)))

\* checkoutCommsObject answers NULL, which fixupPacket dereferences, only if
\* the agent has no coarse-grained pool one may allocate from: no order of
\* its pools and no mixture of kinds makes addAgent overlook one.
FaultNeedsPool ==
    \A a \in faulted : \A i \in DOMAIN Pools[a] :
        Pools[a][i].segment # "global" \/ ~Pools[a][i].alloc_allowed \/ ~Pools[a][i].coarse
=============================================================================
