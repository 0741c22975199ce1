----------------------------- MODULE Interceptor -----------------------------
(***************************************************************************)
(* The dispatch path of hsaInterceptor (src/src/interceptor.cc): packets   *)
(* enter through the intercept-queue callback, every dispatch packet gets  *)
(* a completion signal from a recycled pool in place of the application's  *)
(* own, the signal_runner thread polls those signals and retires finished  *)
(* dispatches, and the exit path shuts the whole thing down.               *)
(*                                                                         *)
(* Actors: one submitting thread per queue (a queue's callbacks never      *)
(* overlap), the signal_runner thread, the exiting thread, and the GPU.    *)
(* mutex_ is explicit because getPendingSignals reads pending_signals_     *)
(* without it.                                                             *)
(***************************************************************************)
EXTENDS Integers, Sequences, Functions

CONSTANTS
    Queues,             \* the intercept queues
    Dispatches,         \* kernel-dispatch packets the application can submit
    Others,             \* packets of any other type (barriers)
    Signalled,          \* dispatches carrying a completion signal of their own
    Batches,            \* packet sequences one callback can be handed
    SIGPOOL_INCREMENT,  \* signals created at a time (8 in the code)
    DrainLimit,         \* polls of the drain loop (1000 in the code)
    run_instrumented_,  \* LOGDUR_INSTRUMENTED
    MayThrow            \* can checking out or reporting a comms object fail?

Packets == Dispatches \cup Others

ASSUME ConstantsAssumption ==
    /\ SIGPOOL_INCREMENT \in Nat \ {0}
    /\ DrainLimit \in Nat
    /\ Dispatches \cap Others = {}
    /\ Signalled \subseteq Dispatches
    /\ {"none", "runner"} \cap Queues = {}
    /\ run_instrumented_ \in BOOLEAN
    /\ MayThrow \in BOOLEAN

\* The application hands over each packet in one place of one batch.
ASSUME BatchesAssumption ==
    \A b \in Batches :
        /\ b \in Seq(Packets)
        /\ b # << >>
        /\ IsInjective(b)

VARIABLES
    sig_pool_,          \* vector of idle signals, used as a stack
    created,            \* signals created so far are 1..created
    sigval,             \* the value of each created signal
    pending_signals_,   \* signal |-> packet whose kernel_info_t it carries
    pending_kernargs_,  \* signal |-> packet whose replacement kernargs it holds
    mutex_,             \* "none", "runner" or the queue whose thread holds it
    dispatch_count_,
    shutting_down_,
    pc,                 \* queue |-> where its submitting thread is
    todo,               \* queue |-> packets of the current callback, unwritten
    hand,               \* queue |-> signal popped for the packet at the head
    submitted,          \* packets the application has handed over
    dispatch_id,        \* dispatch |-> the id it was given, 0 before
    lost,               \* packets dropped by the catch clause of doPackets
    leaked,             \* signals popped for a dispatch that then threw
    kernargs,           \* dispatch |-> state of its replacement kernarg buffer
    comms,              \* dispatch |-> state of its dh_comms object
    hw,                 \* queue |-> packets written to the hardware queue
    csig,               \* dispatch |-> completion signal written, 0: its own
    running,            \* dispatches on the GPU
    finished,           \* dispatches whose kernel has ended
    appval,             \* dispatch |-> value of the application's own signal
    rpc,                \* where signal_runner is
    snap,               \* curr_sigs: the signals it still has to look at
    reporting,          \* dispatch being checked in, {} or a singleton
    mpc,                \* where the exiting thread is
    waits,              \* wait_count of ensure_shutdown
    destroyed,          \* signals destroyed by ~hsaInterceptor
    early               \* dispatches finished before shutdown() was called

poolVars == <<sig_pool_, created, leaked>>
hostVars == <<pending_signals_, pending_kernargs_, kernargs, comms>>
appVars  == <<submitted, dispatch_count_, dispatch_id, lost>>
gpuVars  == <<hw, csig, running, finished>>
runVars  == <<rpc, snap, reporting>>
exitVars == <<shutting_down_, mpc, waits, destroyed, early>>
qVars    == <<pc, todo, hand>>
vars == <<poolVars, hostVars, appVars, gpuVars, runVars, exitVars, qVars,
          sigval, appval, mutex_>>

Signals == 1..created

-----------------------------------------------------------------------------
(* Maps.                                                                   *)

EmptyMap == [x \in {} |-> 0]
Put(f, k, v) == [x \in DOMAIN f \cup {k} |-> IF x = k THEN v ELSE f[x]]
Erase(f, k) == Restrict(f, DOMAIN f \ {k})

-----------------------------------------------------------------------------
(* The constructor leaves SIGPOOL_INCREMENT signals of value 1 in the pool *)
(* and the runner at the top of its loop.                                  *)

Init ==
    /\ sig_pool_ = [i \in 1..SIGPOOL_INCREMENT |-> i]
    /\ created = SIGPOOL_INCREMENT
    /\ sigval = [s \in 1..SIGPOOL_INCREMENT |-> 1]
    /\ pending_signals_ = EmptyMap
    /\ pending_kernargs_ = EmptyMap
    /\ mutex_ = "none"
    /\ dispatch_count_ = 0
    /\ shutting_down_ = FALSE
    /\ pc = [q \in Queues |-> "absent"]
    /\ todo = [q \in Queues |-> << >>]
    /\ hand = [q \in Queues |-> 0]
    /\ submitted = {}
    /\ dispatch_id = [p \in Dispatches |-> 0]
    /\ lost = {}
    /\ leaked = {}
    /\ kernargs = [p \in Dispatches |-> "none"]
    /\ comms = [p \in Dispatches |-> "none"]
    /\ hw = [q \in Queues |-> << >>]
    /\ csig = [p \in Dispatches |-> 0]
    /\ running = {}
    /\ finished = {}
    /\ appval = [p \in Dispatches |-> 1]
    /\ rpc = "outer"
    /\ snap = {}
    /\ reporting = {}
    /\ mpc = "run"
    /\ waits = 0
    /\ destroyed = {}
    /\ early = {}

-----------------------------------------------------------------------------
(* Submission: hsa_queue_create, OnSubmitPackets, doPackets, fixupPacket.  *)

\* The hooked hsa_queue_create: addQueue records the queue under mutex_ and
\* the callback is registered.
CreateQueue(q) ==
    /\ pc[q] = "absent"
    /\ mutex_ = "none"
    /\ mpc = "run"
    /\ pc' = [pc EXCEPT ![q] = "idle"]
    /\ UNCHANGED <<poolVars, hostVars, appVars, gpuVars, runVars, exitVars,
                   todo, hand, sigval, appval, mutex_>>

\* The callback finds the singleton and enters doPackets.
OnSubmitPackets(q, b) ==
    /\ pc[q] = "idle"
    /\ mpc # "done"
    /\ Range(b) \cap submitted = {}
    /\ submitted' = submitted \cup Range(b)
    /\ todo' = [todo EXCEPT ![q] = b]
    /\ pc' = [pc EXCEPT ![q] = "next"]
    /\ UNCHANGED <<poolVars, hostVars, gpuVars, runVars, exitVars, hand,
                   dispatch_count_, dispatch_id, lost, sigval, appval, mutex_>>

\* The callback finds no singleton and writes the batch as it is.
SubmitUnhooked(q, b) ==
    /\ pc[q] = "idle"
    /\ mpc = "done"
    /\ Range(b) \cap submitted = {}
    /\ submitted' = submitted \cup Range(b)
    /\ hw' = [hw EXCEPT ![q] = @ \o b]
    /\ running' = running \cup (Range(b) \cap Dispatches)
    /\ UNCHANGED <<poolVars, hostVars, runVars, exitVars, qVars, csig, finished,
                   dispatch_count_, dispatch_id, lost, sigval, appval, mutex_>>

\* The writer call for the head of the batch, and on to the next packet.
Write(q) ==
    /\ hw' = [hw EXCEPT ![q] = Append(@, Head(todo[q]))]
    /\ todo' = [todo EXCEPT ![q] = Tail(@)]
    /\ pc' = [pc EXCEPT ![q] = IF Len(todo[q]) = 1 THEN "idle" ELSE "next"]

\* doPackets on a packet that is not a dispatch.
WriteOther(q) ==
    /\ pc[q] = "next"
    /\ Head(todo[q]) \in Others
    /\ Write(q)
    /\ UNCHANGED <<poolVars, hostVars, appVars, runVars, exitVars, hand,
                   csig, running, finished, sigval, appval, mutex_>>

\* doPackets on a dispatch: id = ++dispatch_count_, before mutex_ is taken.
CountDispatch(q) ==
    /\ pc[q] = "next"
    /\ Head(todo[q]) \in Dispatches
    /\ dispatch_count_' = dispatch_count_ + 1
    /\ dispatch_id' = [dispatch_id EXCEPT ![Head(todo[q])] = dispatch_count_ + 1]
    /\ pc' = [pc EXCEPT ![q] = "fixup"]
    /\ UNCHANGED <<poolVars, hostVars, gpuVars, runVars, exitVars, todo, hand,
                   submitted, lost, sigval, appval, mutex_>>

\* The pool after it has been replenished if it was empty.
Grown == IF sig_pool_ = << >>
         THEN [i \in 1..SIGPOOL_INCREMENT |-> created + i]
         ELSE sig_pool_

\* Variant: back() without pop_back().
PeekOnly(pool) == pool

\* pop_back()
PopBack(pool) == SubSeq(pool, 1, Len(pool) - 1)

\* Replenish if needed, then back() and pop_back().
PopSignal ==
    /\ created' = IF sig_pool_ = << >> THEN created + SIGPOOL_INCREMENT ELSE created
    /\ sigval' = [s \in 1..created' |-> IF s \in Signals THEN sigval[s] ELSE 1]
    /\ sig_pool_' = PopBack(Grown)

\* fixupPacket under mutex_, up to the insertion into pending_signals_. With
\* an instrumented alternative (instr) the dispatch gets kernargs of its own
\* and a comms object.
FixupPacket(q, instr) ==
    LET p == Head(todo[q])
        s == Grown[Len(Grown)]
    IN  /\ pc[q] = "fixup"
        /\ mutex_ = "none"
        /\ instr => run_instrumented_
        /\ mutex_' = q
        /\ PopSignal
        /\ hand' = [hand EXCEPT ![q] = s]
        /\ kernargs' = IF instr THEN [kernargs EXCEPT ![p] = "live"] ELSE kernargs
        /\ comms' = IF instr THEN [comms EXCEPT ![p] = "live"] ELSE comms
        /\ pending_kernargs_' = IF instr THEN Put(pending_kernargs_, s, p)
                                         ELSE pending_kernargs_
        /\ pc' = [pc EXCEPT ![q] = "insert"]
        /\ UNCHANGED <<appVars, gpuVars, runVars, exitVars, todo, leaked,
                       pending_signals_, appval>>

\* checkoutCommsObject (or the code-object scan before it) throws: the catch
\* clause of doPackets ends the callback. The popped signal and the kernargs
\* already allocated are in no table any more.
FixupThrows(q) ==
    LET p == Head(todo[q])
    IN  /\ pc[q] = "fixup"
        /\ mutex_ = "none"
        /\ run_instrumented_ /\ MayThrow
        /\ PopSignal
        /\ leaked' = leaked \cup {Grown[Len(Grown)]}
        /\ kernargs' = [kernargs EXCEPT ![p] = "live"]
        /\ lost' = lost \cup Range(todo[q])
        /\ todo' = [todo EXCEPT ![q] = << >>]
        /\ pc' = [pc EXCEPT ![q] = "idle"]
        /\ UNCHANGED <<gpuVars, runVars, exitVars, hand, submitted, dispatch_id,
                       dispatch_count_, pending_signals_, pending_kernargs_,
                       comms, appval, mutex_>>

\* The insertion into pending_signals_ and the end of the mutex_ scope.
InsertPending(q) ==
    /\ pc[q] = "insert"
    /\ pending_signals_' = Put(pending_signals_, hand[q], Head(todo[q]))
    /\ mutex_' = "none"
    /\ pc' = [pc EXCEPT ![q] = "write"]
    /\ UNCHANGED <<poolVars, appVars, gpuVars, runVars, exitVars, todo, hand,
                   pending_kernargs_, kernargs, comms, sigval, appval>>

\* doPackets writes the dispatch with the swapped completion signal.
WriteDispatch(q) ==
    LET p == Head(todo[q])
    IN  /\ pc[q] = "write"
        /\ Write(q)
        /\ csig' = [csig EXCEPT ![p] = hand[q]]
        /\ running' = running \cup {p}
        /\ hand' = [hand EXCEPT ![q] = 0]
        /\ UNCHANGED <<poolVars, hostVars, appVars, runVars, exitVars,
                       finished, sigval, appval, mutex_>>

-----------------------------------------------------------------------------
(* The GPU (external): a kernel ends and its completion signal, whichever  *)
(* the packet carries, is decremented.                                     *)

GpuFinish(p) ==
    /\ p \in running
    /\ running' = running \ {p}
    /\ finished' = finished \cup {p}
    /\ early' = IF shutting_down_ THEN early ELSE early \cup {p}
    /\ sigval' = IF csig[p] = 0 THEN sigval ELSE [sigval EXCEPT ![csig[p]] = @ - 1]
    /\ appval' = IF csig[p] = 0 /\ p \in Signalled
                 THEN [appval EXCEPT ![p] = @ - 1] ELSE appval
    /\ UNCHANGED <<poolVars, hostVars, appVars, runVars, qVars, hw, csig,
                   shutting_down_, mpc, waits, destroyed, mutex_>>

-----------------------------------------------------------------------------
(* signal_runner, getPendingSignals, signalWait, signalCompleted.          *)

\* Variant: The runner does not look at shutting_down_.
RunnerForever ==
    /\ rpc = "outer"
    /\ rpc' = "snapshot"
    /\ UNCHANGED <<poolVars, hostVars, appVars, gpuVars, exitVars, qVars, snap,
                   reporting, sigval, appval, mutex_>>

\* while (!shuttingdown())
RunnerCheck ==
    /\ rpc = "outer"
    /\ rpc' = IF shutting_down_ THEN "exited" ELSE "snapshot"
    /\ UNCHANGED <<poolVars, hostVars, appVars, gpuVars, exitVars, qVars, snap,
                   reporting, sigval, appval, mutex_>>

\* The keys getPendingSignals can return. It takes no lock (the lock_guard
\* in it declares a function), so next to an insertion it can miss entries
\* and can see the one being inserted.
Snapshots ==
    LET inserting == {q \in Queues : pc[q] = "insert"}
    IN  IF inserting = {} THEN {DOMAIN pending_signals_}
        ELSE SUBSET (DOMAIN pending_signals_ \cup {hand[q] : q \in inserting})

\* getPendingSignals, at the head of the pass or at the foot of the do loop.
getPendingSignals ==
    /\ rpc = "snapshot" \/ (rpc = "wait" /\ snap = {})
    /\ snap' \in Snapshots
    /\ rpc' = IF snap' = {} THEN "sleep" ELSE "wait"
    /\ UNCHANGED <<poolVars, hostVars, appVars, gpuVars, exitVars, qVars,
                   reporting, sigval, appval, mutex_>>

\* signalWait times out: the kernel has not finished.
WaitTimesOut(s) ==
    /\ rpc = "wait"
    /\ s \in snap
    /\ sigval[s] # 0
    /\ snap' = snap \ {s}
    /\ UNCHANGED <<poolVars, hostVars, appVars, gpuVars, exitVars, qVars, rpc,
                   reporting, sigval, appval, mutex_>>

\* Variant: The signal is recycled with the value it ended with.
NotRearmed(s) == sigval

\* The retired signal is stored the value 1 for the next dispatch.
Rearmed(s) == [sigval EXCEPT ![s] = 1]

\* Variant: The signal is pushed twice.
PooledTwice(s) == sig_pool_ \o <<s, s>>

\* The retired signal goes back to the pool.
Pooled(s) == Append(sig_pool_, s)

\* Variant: The kernargs are forgotten.
KernargsKept(s) == kernargs

\* The replacement kernargs of the retired dispatch, if any, are freed.
KernargsFreed(s) ==
    IF s \in DOMAIN pending_kernargs_
    THEN [kernargs EXCEPT ![pending_kernargs_[s]] = "freed"]
    ELSE kernargs

\* Variant: The application's signal is forgotten.
NotNotified(p) == appval

\* Variant: The signal is decremented by 2, and whether or not there is one.
NotifyAlways(p) == [appval EXCEPT ![p] = @ - 2]

\* The application's own completion signal, if it gave one, is decremented.
Notified(p) == IF p \in Signalled THEN [appval EXCEPT ![p] = @ - 1] ELSE appval

\* signalWait saw 0: signalCompleted under mutex_, up to checkinCommsObject,
\* which keeps mutex_ (see checkinCommsObject below). The application's own
\* signal is decremented first; the pool signal is set back to 1.
signalCompleted(s) ==
    /\ rpc = "wait"
    /\ s \in snap
    /\ sigval[s] = 0
    /\ mutex_ = "none"
    /\ snap' = snap \ {s}
    /\ IF s \in DOMAIN pending_signals_
       THEN LET p == pending_signals_[s]
            IN  /\ pending_signals_' = Erase(pending_signals_, s)
                /\ appval' = Notified(p)
                /\ sigval' = Rearmed(s)
                /\ kernargs' = KernargsFreed(s)
                /\ pending_kernargs_' = Erase(pending_kernargs_, s)
                /\ sig_pool_' = Pooled(s)
                /\ reporting' = {p} \cap {d \in Dispatches : comms[d] # "none"}
                /\ rpc' = IF reporting' = {} THEN "wait" ELSE "checkin"
                /\ mutex_' = IF reporting' = {} THEN "none" ELSE "runner"
       ELSE UNCHANGED <<pending_signals_, pending_kernargs_, kernargs, sigval,
                        appval, sig_pool_, reporting, rpc, mutex_>>
    /\ UNCHANGED <<appVars, gpuVars, exitVars, qVars, created, leaked, comms>>

\* stop, report and delete; an exception in between leaves the object behind.
\* mutex_ is released on return to signal_runner.
checkinCommsObject ==
    /\ rpc = "checkin"
    /\ \E outcome \in {"deleted", "abandoned"} :
          /\ outcome = "abandoned" => MayThrow
          /\ comms' = [p \in Dispatches |-> IF p \in reporting THEN outcome
                                                              ELSE comms[p]]
    /\ reporting' = {}
    /\ rpc' = "wait"
    /\ mutex_' = "none"
    /\ UNCHANGED <<poolVars, appVars, gpuVars, exitVars, qVars, snap, sigval,
                   appval, pending_signals_, pending_kernargs_, kernargs>>

\* usleep(1)
RunnerSleep ==
    /\ rpc = "sleep"
    /\ rpc' = "outer"
    /\ UNCHANGED <<poolVars, hostVars, appVars, gpuVars, exitVars, qVars, snap,
                   reporting, sigval, appval, mutex_>>

-----------------------------------------------------------------------------
(* The exit path: ensure_cleanup, i.e. ensure_shutdown, then the           *)
(* destructor. comms_runner and cache_watcher leave their loops at the     *)
(* next look at shutting_down_ and are joined with signal_runner.          *)

\* ensure_shutdown: shutdown()
ensure_shutdown ==
    /\ mpc = "run"
    /\ shutting_down_' = TRUE
    /\ mpc' = "drain"
    /\ UNCHANGED <<poolVars, hostVars, appVars, gpuVars, runVars, qVars, waits,
                   destroyed, early, sigval, appval, mutex_>>

\* Variant: The drain loop runs once more than its limit.
DrainPollUnbounded ==
    /\ mpc = "drain"
    /\ mutex_ = "none"
    /\ DOMAIN pending_signals_ # {}
    /\ waits <= DrainLimit
    /\ waits' = waits + 1
    /\ UNCHANGED <<poolVars, hostVars, appVars, gpuVars, runVars, qVars, mpc,
                   shutting_down_, destroyed, early, sigval, appval, mutex_>>

\* ensure_shutdown: one turn of the drain loop
DrainPoll ==
    /\ mpc = "drain"
    /\ mutex_ = "none"
    /\ DOMAIN pending_signals_ # {}
    /\ waits < DrainLimit
    /\ waits' = waits + 1
    /\ UNCHANGED <<poolVars, hostVars, appVars, gpuVars, runVars, qVars, mpc,
                   shutting_down_, destroyed, early, sigval, appval, mutex_>>

\* ensure_shutdown returns; cleanup() enters the destructor
DrainReturns ==
    /\ mpc = "drain"
    /\ mutex_ = "none"
    /\ DOMAIN pending_signals_ = {} \/ waits = DrainLimit
    /\ mpc' = "join"
    /\ UNCHANGED <<poolVars, hostVars, appVars, gpuVars, runVars, qVars, waits,
                   shutting_down_, destroyed, early, sigval, appval, mutex_>>

\* ~hsaInterceptor after signal_runner_.join(): the pooled signals are
\* destroyed, the API restored, and cleanup() clears singleton_. Assumes the
\* application has no callback in flight at that point.
DestroyInterceptor ==
    /\ mpc = "join"
    /\ rpc = "exited"
    /\ mutex_ = "none"
    /\ \A q \in Queues : pc[q] \in {"absent", "idle"}
    /\ destroyed' = Range(sig_pool_)
    /\ sig_pool_' = << >>
    /\ mpc' = "done"
    /\ UNCHANGED <<hostVars, appVars, gpuVars, runVars, qVars, waits, created,
                   leaked, shutting_down_, early, sigval, appval, mutex_>>

\* ensure_cleanup on a second exit path: no singleton, nothing happens.
CleanupAgain ==
    /\ mpc = "done"
    /\ UNCHANGED vars

-----------------------------------------------------------------------------

SubmitStep(q) ==
    \/ WriteOther(q)
    \/ CountDispatch(q)
    \/ \E instr \in BOOLEAN : FixupPacket(q, instr)
    \/ FixupThrows(q)
    \/ InsertPending(q)
    \/ WriteDispatch(q)

RunnerStep ==
    \/ RunnerCheck
    \/ getPendingSignals
    \/ \E s \in Signals : WaitTimesOut(s) \/ signalCompleted(s)
    \/ checkinCommsObject
    \/ RunnerSleep

ExitStep == DrainPoll \/ DrainReturns \/ DestroyInterceptor

Next ==
    \/ \E q \in Queues : CreateQueue(q)
    \/ \E q \in Queues, b \in Batches : OnSubmitPackets(q, b) \/ SubmitUnhooked(q, b)
    \/ \E q \in Queues : SubmitStep(q)
    \/ \E p \in Dispatches : GpuFinish(p)
    \/ RunnerStep
    \/ ensure_shutdown
    \/ ExitStep
    \/ CleanupAgain

Spec == Init /\ [][Next]_vars

\* Threads are scheduled, kernels end. Nothing obliges the application to
\* create queues, submit or exit.
Fairness ==
    /\ \A q \in Queues : WF_vars(SubmitStep(q))
    /\ \A p \in Dispatches : WF_vars(GpuFinish(p))
    /\ WF_vars(RunnerStep)
    /\ WF_vars(ExitStep)

FairSpec == Spec /\ Fairness

-----------------------------------------------------------------------------
(* Properties.                                                             *)

SignalTypes ==
    /\ created \in Nat
    /\ sig_pool_ \in Seq(Nat)
    /\ sigval \in [Signals -> Int]
    /\ leaked \subseteq Signals
    /\ destroyed \subseteq Signals

TableTypes ==
    /\ DOMAIN pending_signals_ \subseteq Signals
    /\ pending_signals_ \in [DOMAIN pending_signals_ -> Dispatches]
    /\ DOMAIN pending_kernargs_ \subseteq Signals
    /\ pending_kernargs_ \in [DOMAIN pending_kernargs_ -> Dispatches]
    /\ kernargs \in [Dispatches -> {"none", "live", "freed"}]
    /\ comms \in [Dispatches -> {"none", "live", "deleted", "abandoned"}]

SubmitTypes ==
    /\ pc \in [Queues -> {"absent", "idle", "next", "fixup", "insert", "write"}]
    /\ todo \in [Queues -> Seq(Packets)]
    /\ hand \in [Queues -> Nat]
    /\ submitted \subseteq Packets
    /\ dispatch_count_ \in Nat
    /\ dispatch_id \in [Dispatches -> Nat]
    /\ lost \subseteq Packets

DeviceTypes ==
    /\ hw \in [Queues -> Seq(Packets)]
    /\ csig \in [Dispatches -> Nat]
    /\ running \subseteq Dispatches
    /\ finished \subseteq Dispatches
    /\ early \subseteq Dispatches
    /\ appval \in [Dispatches -> Int]

ThreadTypes ==
    /\ mutex_ \in Queues \cup {"none", "runner"}
    /\ rpc \in {"outer", "snapshot", "wait", "checkin", "sleep", "exited"}
    /\ snap \subseteq Signals
    /\ reporting \subseteq Dispatches
    /\ shutting_down_ \in BOOLEAN
    /\ mpc \in {"run", "drain", "join", "done"}
    /\ waits \in 0..DrainLimit

\* The types of the variables: the interceptor's members, its threads, and
\* the hardware queue (inc/interceptor.h).
TypeOK == SignalTypes /\ TableTypes /\ SubmitTypes /\ DeviceTypes /\ ThreadTypes

\* Signals popped for a packet and not yet in pending_signals_.
InHand == {hand[q] : q \in {x \in Queues : pc[x] = "insert"}}

\* Every signal ever created has exactly one owner: one slot of sig_pool_,
\* one entry of pending_signals_, one fixupPacket in progress, or it was
\* dropped by a throwing fixupPacket or destroyed by the destructor. Two
\* dispatches never share a completion signal (fixupPacket/signalCompleted
\* recycle it), and none goes missing.
OneOwner ==
    /\ IsInjective(sig_pool_)
    /\ Range(sig_pool_) \cap DOMAIN pending_signals_ = {}
    /\ Range(sig_pool_) \cap InHand = {}
    /\ DOMAIN pending_signals_ \cap InHand = {}
    /\ (leaked \cup destroyed) \cap
          (Range(sig_pool_) \cup DOMAIN pending_signals_ \cup InHand) = {}
    /\ Signals = Range(sig_pool_) \cup DOMAIN pending_signals_ \cup InHand
                   \cup leaked \cup destroyed

\* While the GPU runs a dispatch the tool fixed up, the signal written into
\* its packet is still armed and still registered for that very dispatch,
\* and what the kernel writes through - its replacement kernargs and its
\* comms object - has not been freed (signalCompleted frees both).
DeviceOwnsItsResources ==
    \A p \in running : csig[p] # 0 =>
        /\ csig[p] \in DOMAIN pending_signals_
        /\ pending_signals_[csig[p]] = p
        /\ sigval[csig[p]] = 1
        /\ kernargs[p] # "freed"
        /\ comms[p] \notin {"deleted", "abandoned"}

\* signalCompleted never meets a signal that is not pending: its "Some big
\* problem occurred, a pending signal is missing" branch is dead, although
\* getPendingSignals works on an unlocked snapshot that can be stale.
NoPendingSignalMissing ==
    \A s \in snap : sigval[s] = 0 => s \in DOMAIN pending_signals_

\* When nothing is in flight every buffer and comms object handed to a
\* dispatch has been given back (signalCompleted, checkinCommsObject),
\* except those of a dispatch doPackets gave up on.
NothingLeftBehind ==
    (/\ DOMAIN pending_signals_ = {}
     /\ reporting = {}
     /\ \A q \in Queues : pc[q] \in {"absent", "idle"})
    => \A p \in Dispatches \ lost : kernargs[p] # "live" /\ comms[p] # "live"

\* A dispatch is retired: its kernel ended, the application's own signal
\* was decremented, and its comms object was checked in.
Retired(p) ==
    /\ p \in finished
    /\ p \in Signalled => appval[p] = 0
    /\ comms[p] # "live"
    /\ \A s \in DOMAIN pending_signals_ : pending_signals_[s] # p

\* Whatever the interleaving of submitters, GPU and signal_runner, a
\* dispatch on the GPU is eventually retired, unless the exit path starts.
EveryDispatchRetired ==
    \A p \in Dispatches : p \in running ~> (Retired(p) \/ shutting_down_)

\* The exit path ends: the drain loop is bounded and signal_runner, once
\* shutting_down_ is set, leaves its inner loop when the GPU is idle.
ShutdownCompletes == shutting_down_ ~> mpc = "done"

\* ensure_shutdown "waits for pending signals to drain": a dispatch whose
\* kernel had ended before the shutdown began has been retired when the
\* interceptor is gone.
DrainedAtExit ==
    mpc = "done" => \A p \in early : Retired(p)

-----------------------------------------------------------------------------
(* The inductive strengthening of OneOwner, DeviceOwnsItsResources and     *)
(* NoPendingSignalMissing.                                                 *)

\* mutex_ is held exactly around the insertion and around the check-in.
MutexHeld ==
    /\ \A q \in Queues : pc[q] = "insert" <=> mutex_ = q
    /\ rpc = "checkin" <=> mutex_ = "runner"

\* Signals are only destroyed by the last step of the exit path.
DestroyedLast == mpc # "done" => destroyed = {}

\* A signal that no dispatch uses yet has the value 1.
Armed == \A s \in Signals :
    s \in Range(sig_pool_) \cup InHand => sigval[s] = 1

\* Where a submitting thread is says what it has in hand.
HandOK == \A q \in Queues :
    /\ pc[q] \in {"next", "fixup", "insert", "write"} <=> todo[q] # << >>
    /\ pc[q] \in {"fixup", "insert", "write"} => todo[q][1] \in Dispatches
    /\ pc[q] = "insert" => hand[q] \in Signals
    /\ pc[q] = "write" => /\ hand[q] \in DOMAIN pending_signals_
                          /\ pending_signals_[hand[q]] = todo[q][1]
                          /\ sigval[hand[q]] = 1

\* A packet waits in one place, and only after it was submitted.
TodoDistinct ==
    /\ \A q, r \in Queues : \A i \in 1..Len(todo[q]), j \in 1..Len(todo[r]) :
          todo[q][i] = todo[r][j] => q = r /\ i = j
    /\ \A q \in Queues : \A i \in 1..Len(todo[q]) : todo[q][i] \in submitted

\* A dispatch that waits to be written is nowhere else yet.
TodoFresh == \A q \in Queues : \A i \in 1..Len(todo[q]) :
    todo[q][i] \in Dispatches =>
        /\ todo[q][i] \notin running \cup reporting
        /\ kernargs[todo[q][i]] # "freed"
        /\ comms[todo[q][i]] \notin {"deleted", "abandoned"}
        /\ (i = 1 /\ pc[q] = "write")
           \/ \A s \in DOMAIN pending_signals_ : pending_signals_[s] # todo[q][i]

\* A dispatch not submitted yet has left no trace.
UnsubmittedClean == \A p \in Dispatches \ submitted :
    /\ p \notin running \cup reporting
    /\ csig[p] = 0
    /\ kernargs[p] = "none"
    /\ comms[p] = "none"
    /\ \A s \in DOMAIN pending_signals_ : pending_signals_[s] # p

\* A dispatch is pending on one signal, and on none once it is reported.
PendingOnce ==
    /\ IsInjective(pending_signals_)
    /\ \A s \in DOMAIN pending_signals_ : pending_signals_[s] \notin reporting

\* Kernargs are kept for the dispatch the signal is, or is about to be,
\* pending for.
KernargsMatch == \A s \in DOMAIN pending_kernargs_ :
    \/ s \in DOMAIN pending_signals_ /\ pending_signals_[s] = pending_kernargs_[s]
    \/ \E q \in Queues : pc[q] = "insert" /\ hand[q] = s
                         /\ pending_kernargs_[s] = todo[q][1]

\* All of it together: what every step of submitters, runner, GPU and exit
\* path preserves (fixupPacket, signalCompleted, getPendingSignals).
IInv ==
    /\ TypeOK
    /\ OneOwner
    /\ MutexHeld
    /\ DestroyedLast
    /\ Armed
    /\ HandOK
    /\ TodoDistinct
    /\ TodoFresh
    /\ UnsubmittedClean
    /\ PendingOnce
    /\ KernargsMatch
    /\ DeviceOwnsItsResources
    /\ NoPendingSignalMissing

-----------------------------------------------------------------------------
(* The inductive strengthening of NothingLeftBehind and TransparentQueue.  *)

\* Only the check-in has a dispatch to report.
ReportingOnce == rpc # "checkin" => reporting = {}

\* Replacement kernargs that are live are kept for a signal, and a live comms
\* object belongs to a dispatch that is being inserted, is pending, or is
\* being checked in. (fixupPacket, signalCompleted)
Tracked == \A p \in Dispatches \ lost :
    /\ kernargs[p] = "live" => \E s \in DOMAIN pending_kernargs_ : pending_kernargs_[s] = p
    /\ comms[p] = "live" =>
          \/ p \in reporting
          \/ \E s \in DOMAIN pending_signals_ : pending_signals_[s] = p
          \/ \E q \in Queues : pc[q] = "insert" /\ todo[q][1] = p

\* A dispatch that is waiting in a queue, or is still with the application,
\* has neither ended nor been signalled.
UnwrittenUnsignalled ==
    /\ \A p \in Dispatches \ submitted : p \notin finished /\ appval[p] = 1
    /\ \A q \in Queues : \A i \in 1..Len(todo[q]) :
          todo[q][i] \in Dispatches => todo[q][i] \notin finished /\ appval[todo[q][i]] = 1

\* What runs was written to a queue, and runs once.
RunningWritten == \A p \in running :
    /\ p \notin finished
    /\ \E q \in Queues : \E i \in 1..Len(hw[q]) : hw[q][i] = p

\* A pending signal stands for a kernel that carries it or has ended, and the
\* application has not been told yet.
PendingUnsignalled == \A s \in DOMAIN pending_signals_ :
    /\ appval[pending_signals_[s]] = 1
    /\ pending_signals_[s] \in running => csig[pending_signals_[s]] = s
    /\ sigval[s] = 0 => pending_signals_[s] \in finished

\* What signalCompleted relies on when it frees the resources of a dispatch
\* and decrements the signal of the application: the table it finds them in
\* is complete, and the kernel has ended and has not been signalled.
RetireInv ==
    /\ ReportingOnce
    /\ Tracked
    /\ UnwrittenUnsignalled
    /\ RunningWritten
    /\ PendingUnsignalled

\* The invariant of the interceptor that its proofs rest on.
SystemInv == IInv /\ RetireInv

-----------------------------------------------------------------------------
(* What the application may observe: the queue without a tool in between.  *)

Transparent == INSTANCE HsaQueue WITH
    MayDrop <- MayThrow,
    queued <- todo,
    hw <- hw,
    ended <- finished,
    signals <- [p \in Dispatches |-> 1 - appval[p]]

\* Interposing the tool on a queue (OnSubmitPackets, doPackets,
\* signalCompleted) is invisible to the application: each packet reaches
\* the hardware queue once and in order, each completion signal is
\* decremented once and after its kernel. An exception drops the rest of
\* one callback's batch and nothing else; without exceptions (~MayThrow)
\* this is the plain queue.
TransparentQueue == Transparent!Spec
=============================================================================
