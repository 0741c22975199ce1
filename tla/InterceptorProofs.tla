-------------------------- MODULE InterceptorProofs --------------------------
(***************************************************************************)
(* Proofs about what happens to a dispatch.                                *)
(*                                                                         *)
(* Interceptor: IInv is inductive, so for any number of queues, packets    *)
(* and batches and any SIGPOOL_INCREMENT a pool signal has one owner, the  *)
(* GPU owns what a running kernel uses, and signalCompleted never misses a *)
(* signal. One lemma per action that changes what IInv speaks of;          *)
(* CoreFrame covers the others.  RetireInv is inductive relative to it, so *)
(* whatever is given to a dispatch is given back (NothingLeftBehind), and  *)
(* the interposed queues implement plain ones (TransparentQueue).          *)
(*                                                                         *)
(* KernArgs, for any number of explicit arguments, of any of their sizes,  *)
(* and any hidden part: SegmentInv is inductive, so the clone finds its    *)
(* arguments where its own layout has them, and every copy of              *)
(* fixupKernArgs stays inside both segments.                               *)
(***************************************************************************)
EXTENDS Interceptor, KernArgs, SequenceTheorems, Induction

USE DEF poolVars, hostVars, appVars, gpuVars, runVars, exitVars, qVars

-----------------------------------------------------------------------------
(* Facts about pools and packet sequences.                                 *)

\* What pushing onto and popping from a duplicate-free pool does to the set
\* of signals in it.
LEMMA PushElems ==
    ASSUME NEW pool \in Seq(Nat), NEW s \in Nat, IsInjective(pool), s \notin Range(pool)
    PROVE  /\ Append(pool, s) \in Seq(Nat)
           /\ Range(Append(pool, s)) = Range(pool) \cup {s}
           /\ IsInjective(Append(pool, s))
<1> DEFINE push == Append(pool, s)
<1>1. /\ push \in Seq(Nat) /\ Len(pool) \in Nat /\ Len(push) = Len(pool) + 1
      /\ DOMAIN push = 1..(Len(pool) + 1) /\ DOMAIN pool = 1..Len(pool)
      /\ \A i \in 1..Len(pool) : push[i] = pool[i]
      /\ push[Len(pool) + 1] = s
  OBVIOUS
<1> HIDE DEF push
<1>2. ASSUME NEW x PROVE x \in Range(push) <=> x \in Range(pool) \cup {s}
  BY <1>1 DEF Range
<1>3. IsInjective(push)
  BY <1>1, SMTT(20) DEF Range, IsInjective
<1> QED
  BY <1>1, <1>2, <1>3 DEF push

\* PopBack removes exactly the last signal, and leaves no duplicates.
LEMMA PopElems ==
    ASSUME NEW pool \in Seq(Nat), pool # << >>, IsInjective(pool)
    PROVE  /\ PopBack(pool) \in Seq(Nat)
           /\ pool[Len(pool)] \in Range(pool)
           /\ Range(PopBack(pool)) = Range(pool) \ {pool[Len(pool)]}
           /\ IsInjective(PopBack(pool))
<1> DEFINE pop == PopBack(pool)
<1>1. Len(pool) \in Nat \ {0}
  OBVIOUS
<1>2. /\ pop \in Seq(Nat) 
      /\ Len(pop) = Len(pool) - 1
      /\ \A i \in 1..Len(pop) : pop[i] = pool[i]
  <2> DEFINE n == Len(pool) - 1
  <2>1. n \in Nat /\ \A i \in 1..n : pool[i] \in Nat
    BY <1>1
  <2>2. pop = SubSeq(pool, 1, n)
    BY DEF PopBack
  <2> HIDE DEF n, pop
  <2>3. /\ pop \in Seq(Nat)
        /\ Len(pop) = IF 1 <= n THEN n - 1 + 1 ELSE 0
        /\ \A i \in 1..(n - 1 + 1) : pop[i] = pool[1 + i - 1]
    BY <2>1, <2>2, SubSeqProperties
  <2>4. Len(pop) = n /\ \A i \in 1..n : pop[i] = pool[i]
    BY <2>1, <2>3
  <2> QED
    BY <2>1, <2>3, <2>4 DEF n
<1>3. IsInjective(pop)
  <2> HIDE DEF pop
  <2> SUFFICES ASSUME NEW i \in 1..Len(pop), NEW j \in 1..Len(pop), pop[i] = pop[j]
               PROVE  i = j
    BY SMTT(20) DEF IsInjective
  <2>0. Len(pop) = Len(pool) - 1 /\ Len(pool) \in Nat
    BY <1>1, <1>2
  <2>1. i \in 1..Len(pool) /\ j \in 1..Len(pool)
    BY <2>0
  <2>2. pop[i] = pool[i] /\ pop[j] = pool[j]
    BY <1>2
  <2>3. pool[i] = pool[j]
    BY <2>2
  <2> QED
    BY <2>1, <2>3 DEF IsInjective
<1>4. pool[Len(pool)] \in Range(pool)
  BY <1>1 DEF Range
<1>5. ASSUME NEW x \in Range(pop) PROVE x \in Range(pool) /\ x # pool[Len(pool)]
  <2>1. PICK i \in 1..Len(pop) : x = pop[i]
    BY DEF Range
  <2>2. i \in 1..Len(pool) /\ i # Len(pool) /\ x = pool[i]
    BY <1>1, <1>2, <2>1
  <2> QED BY <1>1, <2>2 DEF Range, IsInjective
<1>6. ASSUME NEW x \in Range(pool), x # pool[Len(pool)] PROVE x \in Range(pop)
  <2>1. PICK i \in 1..Len(pool) : x = pool[i]
    BY DEF Range
  <2>2. i \in 1..Len(pop) /\ x = pop[i]
    BY <1>1, <1>2, <1>6, <2>1
  <2> QED BY <2>2 DEF Range
<1> QED
  BY <1>2, <1>3, <1>4, <1>5, <1>6

\* The pool as fixupPacket finds it after replenishing: duplicate-free and
\* not empty, and what is new in it was not created before.
LEMMA GrownFacts ==
    ASSUME TypeOK, OneOwner
    PROVE  /\ Grown \in Seq(Nat)
           /\ Grown # << >>
           /\ IsInjective(Grown)
           /\ sig_pool_ = << >> => Range(Grown) = (created + 1)..(created + SIGPOOL_INCREMENT)
           /\ sig_pool_ # << >> => Grown = sig_pool_
<1> USE ConstantsAssumption DEF ConstantsAssumption
<1>1. CASE sig_pool_ # << >>
  BY <1>1 DEF Grown, TypeOK, SignalTypes, OneOwner, IsInjective
<1>2. CASE sig_pool_ = << >>
  <2> DEFINE f == [i \in 1..SIGPOOL_INCREMENT |-> created + i]
  <2>0. Grown = f /\ created \in Nat
    BY <1>2 DEF Grown, TypeOK, SignalTypes
  <2>1. f \in Seq(Nat) /\ Len(f) = SIGPOOL_INCREMENT
    BY <2>0, IsASeq
  <2>2. f # << >> /\ IsInjective(f)
    BY <2>0, <2>1 DEF IsInjective
  <2>3. ASSUME NEW x PROVE x \in Range(f) <=> x \in (created + 1)..(created + SIGPOOL_INCREMENT)
    <3>1. ASSUME x \in (created + 1)..(created + SIGPOOL_INCREMENT) PROVE x \in Range(f)
      <4>1. x - created \in 1..Len(f) /\ f[x - created] = x
        BY <2>0, <2>1, <3>1
      <4> QED BY <4>1 DEF Range
    <3>2. ASSUME x \in Range(f) PROVE x \in (created + 1)..(created + SIGPOOL_INCREMENT)
      BY <2>0, <2>1, <3>2 DEF Range
    <3> QED BY <3>1, <3>2
  <2>4. Range(f) = (created + 1)..(created + SIGPOOL_INCREMENT)
    BY <2>3
  <2> HIDE DEF f
  <2> QED BY <1>2, <2>0, <2>1, <2>2, <2>4
<1> QED BY <1>1, <1>2

-----------------------------------------------------------------------------
(* Initial states, and the steps that leave the dispatch state alone.      *)

\* The state after the constructor satisfies the inductive invariant.
LEMMA InitIInv == Init => IInv
<1> SUFFICES ASSUME Init PROVE IInv
  OBVIOUS
<1> USE ConstantsAssumption DEF ConstantsAssumption, Init, EmptyMap
<1>1. /\ sig_pool_ \in Seq(Nat) /\ Len(sig_pool_) = SIGPOOL_INCREMENT
      /\ Range(sig_pool_) = 1..SIGPOOL_INCREMENT /\ IsInjective(sig_pool_)
  <2>1. sig_pool_ \in Seq(Nat)
    BY IsASeq
  <2> QED BY <2>1 DEF Range, IsInjective
<1>2. TypeOK
  <2>1. SignalTypes
    BY <1>1 DEF SignalTypes, Signals
  <2>2. TableTypes
    BY DEF TableTypes
  <2>3. SubmitTypes
    BY DEF SubmitTypes
  <2>4. DeviceTypes
    BY DEF DeviceTypes
  <2>5. ThreadTypes
    <3>1. shutting_down_ \in BOOLEAN
      BY Zenon
    <3> QED BY <3>1 DEF ThreadTypes
  <2> QED BY <2>1, <2>2, <2>3, <2>4, <2>5 DEF TypeOK
<1>3. InHand = {}
  BY DEF InHand
<1>4. OneOwner /\ Armed
  BY <1>1, <1>3 DEF OneOwner, Armed, Signals
<1>5. MutexHeld /\ DestroyedLast /\ HandOK
  BY DEF MutexHeld, DestroyedLast, HandOK
<1>6. TodoDistinct /\ TodoFresh /\ UnsubmittedClean
  BY DEF TodoDistinct, TodoFresh, UnsubmittedClean
<1>7. PendingOnce /\ KernargsMatch
  BY DEF PendingOnce, KernargsMatch, IsInjective
<1>8. DeviceOwnsItsResources /\ NoPendingSignalMissing
  BY DEF DeviceOwnsItsResources, NoPendingSignalMissing
<1> QED
  BY <1>2, <1>4, <1>5, <1>6, <1>7, <1>8 DEF IInv

\* The variables the invariants on signals, packets and resources speak of.
coreVars == <<sig_pool_, created, sigval, pending_signals_, pending_kernargs_,
              pc, todo, hand, submitted, leaked, destroyed, kernargs, comms,
              csig, running, reporting>>

Core == /\ OneOwner /\ Armed
        /\ HandOK /\ TodoDistinct /\ TodoFresh
        /\ UnsubmittedClean
        /\ PendingOnce /\ KernargsMatch
        /\ DeviceOwnsItsResources

\* The core of the invariant speaks only of coreVars.
LEMMA CoreFrame == Core /\ UNCHANGED coreVars => Core'
<1> SUFFICES ASSUME Core, UNCHANGED coreVars PROVE Core'
  OBVIOUS
<1> USE DEF Core, coreVars
<1>1. OneOwner' /\ Armed'
  BY DEF OneOwner, Armed, Signals, InHand
<1>2. HandOK'
  BY DEF HandOK, Signals
<1>3. TodoDistinct'
  BY DEF TodoDistinct
<1>4. TodoFresh'
  BY DEF TodoFresh
<1>5. UnsubmittedClean'
  BY DEF UnsubmittedClean
<1>6. PendingOnce' /\ KernargsMatch'
  BY DEF PendingOnce, KernargsMatch
<1>7. DeviceOwnsItsResources'
  BY DEF DeviceOwnsItsResources
<1> QED
  BY <1>1, <1>2, <1>3, <1>4, <1>5, <1>6, <1>7

\* The invariant, with the conjuncts that the frame lemma covers as one.
LEMMA IInvIsCore ==
    IInv <=> TypeOK /\ MutexHeld /\ DestroyedLast /\ NoPendingSignalMissing /\ Core
  BY DEF IInv, Core

\* A stuttering step preserves the invariant.
LEMMA StutterInv == IInv /\ UNCHANGED vars => IInv'
<1> SUFFICES ASSUME IInv, UNCHANGED vars PROVE IInv'
  OBVIOUS
<1> USE DEF vars
<1>1. Core'
  BY CoreFrame, IInvIsCore DEF coreVars
<1>2. TypeOK'
  BY IInvIsCore DEF TypeOK, SignalTypes, TableTypes, SubmitTypes, DeviceTypes, ThreadTypes, Signals
<1>3. MutexHeld' /\ DestroyedLast' /\ NoPendingSignalMissing'
  BY IInvIsCore DEF MutexHeld, DestroyedLast, NoPendingSignalMissing
<1> QED
  BY <1>1, <1>2, <1>3 DEF IInv, Core

\* The runner's looks at shutting_down_, its sleep, and the drain loop.
LEMMA LoopInv ==
    IInv /\ (RunnerCheck \/ RunnerSleep \/ ensure_shutdown \/ DrainPoll \/ DrainReturns)
    => IInv'
<1> SUFFICES ASSUME IInv,
                    RunnerCheck \/ RunnerSleep \/ ensure_shutdown \/ DrainPoll \/ DrainReturns
             PROVE  IInv'
  OBVIOUS
<1> USE DEF RunnerCheck, RunnerSleep, ensure_shutdown, DrainPoll, DrainReturns
<1>1. Core'
  BY CoreFrame, IInvIsCore DEF coreVars
<1>2. TypeOK'
  <2>1. (SignalTypes /\ TableTypes /\ SubmitTypes /\ DeviceTypes)'
    BY IInvIsCore DEF TypeOK, SignalTypes, TableTypes, SubmitTypes, DeviceTypes, Signals
  <2>2. ThreadTypes'
    <3>1. ThreadTypes
      BY IInvIsCore DEF TypeOK
    <3>2. shutting_down_' \in BOOLEAN
      BY <3>1, Zenon DEF ThreadTypes
    <3>3. rpc' \in {"outer", "snapshot", "wait", "checkin", "sleep", "exited"}
      BY <3>1, Zenon DEF ThreadTypes
    <3>4. waits' \in 0..DrainLimit
      BY <3>1, ConstantsAssumption DEF ConstantsAssumption, ThreadTypes
    <3>5. mpc' \in {"run", "drain", "join", "done"}
      BY <3>1 DEF ThreadTypes
    <3> QED
      BY <3>1, <3>2, <3>3, <3>4, <3>5 DEF ThreadTypes, Signals
  <2> QED BY <2>1, <2>2 DEF TypeOK
<1>3. MutexHeld' /\ DestroyedLast' /\ NoPendingSignalMissing'
  BY IInvIsCore DEF MutexHeld, DestroyedLast, NoPendingSignalMissing
<1> QED
  BY <1>1, <1>2, <1>3 DEF IInv, Core

\* Only the holder of mutex_ has a signal in hand, and it has one.
LEMMA InHandFacts ==
    ASSUME MutexHeld
    PROVE  /\ mutex_ \notin Queues => InHand = {}
           /\ \A q \in Queues : mutex_ = q => InHand = {hand[q]}
  BY DEF MutexHeld, InHand

\* A new snapshot holds pending signals and signals in hand, which are armed.
LEMMA SnapshotInv == IInv /\ getPendingSignals => IInv'
<1> SUFFICES ASSUME IInv, getPendingSignals PROVE IInv'
  OBVIOUS
<1> USE DEF getPendingSignals
<1>1. Core'
  BY CoreFrame, IInvIsCore DEF coreVars
<1>2. snap' \subseteq DOMAIN pending_signals_ \cup InHand
  BY DEF Snapshots, InHand
<1>3. InHand \subseteq Signals /\ DOMAIN pending_signals_ \subseteq Signals
  BY IInvIsCore DEF Core, OneOwner
<1>4. TypeOK'
  BY <1>2, <1>3, IInvIsCore DEF TypeOK, SignalTypes, TableTypes, SubmitTypes, DeviceTypes, ThreadTypes, Signals
<1>5. NoPendingSignalMissing'
  BY <1>2, <1>3, IInvIsCore DEF NoPendingSignalMissing, Core, Armed
<1>6. MutexHeld' /\ DestroyedLast'
  BY IInvIsCore DEF MutexHeld, DestroyedLast
<1> QED
  BY <1>1, <1>4, <1>5, <1>6 DEF IInv, Core

\* A wait of signal_runner that times out preserves the invariant.
LEMMA WaitTimesOutInv ==
    ASSUME NEW s \in Signals, IInv, WaitTimesOut(s) PROVE IInv'
<1> USE DEF WaitTimesOut
<1>1. Core'
  BY CoreFrame, IInvIsCore DEF coreVars
<1>2. TypeOK'
  BY IInvIsCore DEF TypeOK, SignalTypes, TableTypes, SubmitTypes, DeviceTypes, ThreadTypes, Signals
<1>3. MutexHeld' /\ DestroyedLast' /\ NoPendingSignalMissing'
  BY IInvIsCore DEF MutexHeld, DestroyedLast, NoPendingSignalMissing
<1> QED
  BY <1>1, <1>2, <1>3 DEF IInv, Core

-----------------------------------------------------------------------------
(* Steps of the submitting threads.                                        *)

\* hsa_queue_create preserves the invariant.
LEMMA CreateQueueInv ==
    ASSUME NEW q \in Queues, IInv, CreateQueue(q) PROVE IInv'
<1> USE DEF CreateQueue
<1>0. TypeOK /\ MutexHeld /\ Core /\ NoPendingSignalMissing /\ DestroyedLast
  BY IInvIsCore
<1>1. TypeOK'
  BY <1>0 DEF TypeOK, SignalTypes, TableTypes, SubmitTypes, DeviceTypes, ThreadTypes, Signals
<1>2. \A r \in Queues : (pc'[r] = "insert" <=> pc[r] = "insert") /\ (pc'[r] = "write" <=> pc[r] = "write")
  BY <1>0 DEF TypeOK, SubmitTypes
<1>3. MutexHeld' /\ DestroyedLast' /\ NoPendingSignalMissing'
  BY <1>0, <1>2 DEF MutexHeld, DestroyedLast, NoPendingSignalMissing
<1>4. InHand' = InHand
  BY <1>2 DEF InHand
<1>5. OneOwner' /\ Armed'
  BY <1>0, <1>4 DEF Core, OneOwner, Armed, Signals
<1>6. HandOK'
  BY <1>0 DEF Core, HandOK, Signals, TypeOK, SubmitTypes
<1>7. TodoDistinct' /\ UnsubmittedClean' /\ PendingOnce' /\ DeviceOwnsItsResources'
  BY <1>0 DEF Core, TodoDistinct, UnsubmittedClean, PendingOnce, DeviceOwnsItsResources
<1>8. TodoFresh'
  BY <1>0, <1>2 DEF Core, TodoFresh
<1>9. KernargsMatch'
  BY <1>0, <1>2 DEF Core, KernargsMatch
<1> QED
  BY <1>1, <1>3, <1>5, <1>6, <1>7, <1>8, <1>9 DEF IInv

\* A batch is a non-empty sequence of distinct packets.
LEMMA BatchFacts ==
    ASSUME NEW b \in Batches
    PROVE  /\ b \in Seq(Packets) /\ b # << >> /\ Len(b) \in Nat \ {0}
           /\ Range(b) \subseteq Packets
           /\ \A i \in 1..Len(b) : b[i] \in Range(b)
           /\ \A i, j \in 1..Len(b) : b[i] = b[j] => i = j
  BY BatchesAssumption DEF BatchesAssumption, Range, IsInjective

\* Entering the callback of a queue preserves the invariant.
LEMMA OnSubmitPacketsInv ==
    ASSUME NEW q \in Queues, NEW b \in Batches, IInv, OnSubmitPackets(q, b) PROVE IInv'
<1> USE DEF OnSubmitPackets
<1>0. TypeOK /\ MutexHeld /\ Core /\ NoPendingSignalMissing /\ DestroyedLast
  BY IInvIsCore
<1>1. TypeOK'
  BY <1>0, BatchFacts DEF TypeOK, SignalTypes, TableTypes, SubmitTypes, DeviceTypes, ThreadTypes, Signals
<1>2. /\ \A r \in Queues : (pc'[r] = "insert" <=> pc[r] = "insert") /\ (pc'[r] = "write" <=> pc[r] = "write")
      /\ pc'[q] = "next" /\ todo'[q] = b
      /\ \A r \in Queues \ {q} : pc'[r] = pc[r] /\ todo'[r] = todo[r]
  BY <1>0 DEF TypeOK, SubmitTypes
<1>3. MutexHeld' /\ DestroyedLast' /\ NoPendingSignalMissing'
  BY <1>0, <1>2 DEF MutexHeld, DestroyedLast, NoPendingSignalMissing
<1>4. InHand' = InHand
  BY <1>2 DEF InHand
<1>5. OneOwner' /\ Armed'
  BY <1>0, <1>4 DEF Core, OneOwner, Armed, Signals
<1>6. HandOK'
  BY <1>0, <1>2, BatchFacts DEF Core, HandOK, Signals
<1>7. TodoDistinct'
  BY <1>0, <1>2, BatchFacts DEF Core, TodoDistinct
<1>8. UnsubmittedClean' /\ PendingOnce' /\ DeviceOwnsItsResources'
  BY <1>0 DEF Core, UnsubmittedClean, PendingOnce, DeviceOwnsItsResources
<1>9. TodoFresh'
  <2> SUFFICES ASSUME NEW r \in Queues, NEW i \in 1..Len(todo'[r]), todo'[r][i] \in Dispatches
               PROVE  /\ todo'[r][i] \notin running \cup reporting
                      /\ kernargs[todo'[r][i]] # "freed"
                      /\ comms[todo'[r][i]] \notin {"deleted", "abandoned"}
                      /\ (i = 1 /\ pc'[r] = "write")
                         \/ \A s \in DOMAIN pending_signals_ : pending_signals_[s] # todo'[r][i]
    BY DEF TodoFresh
  <2>1. CASE r = q
    BY <1>0, <1>2, <2>1, BatchFacts DEF Core, UnsubmittedClean
  <2>2. CASE r # q
    BY <1>0, <1>2, <2>2 DEF Core, TodoFresh
  <2> QED BY <2>1, <2>2
<1>10. KernargsMatch'
  BY <1>0, <1>2 DEF Core, KernargsMatch
<1> QED
  BY <1>1, <1>3, <1>5, <1>6, <1>7, <1>8, <1>9, <1>10 DEF IInv

\* Writing a batch through when there is no interceptor preserves the invariant.
LEMMA SubmitUnhookedInv ==
    ASSUME NEW q \in Queues, NEW b \in Batches, IInv, SubmitUnhooked(q, b) PROVE IInv'
<1> USE DEF SubmitUnhooked
<1>0. TypeOK /\ MutexHeld /\ Core /\ NoPendingSignalMissing /\ DestroyedLast
  BY IInvIsCore
<1>1. TypeOK'
  <2>1. hw' \in [Queues -> Seq(Packets)]
    <3>1. hw \in [Queues -> Seq(Packets)] /\ b \in Seq(Packets)
      BY <1>0, BatchFacts DEF TypeOK, DeviceTypes
    <3>2. hw[q] \o b \in Seq(Packets)
      BY <3>1, ConcatProperties
    <3> QED BY <3>1, <3>2
  <2>2. DeviceTypes'
    BY <1>0, <2>1 DEF TypeOK, DeviceTypes
  <2>3. (SignalTypes /\ TableTypes /\ ThreadTypes)'
    BY <1>0 DEF TypeOK, SignalTypes, TableTypes, ThreadTypes, Signals
  <2>4. SubmitTypes'
    BY <1>0, BatchFacts DEF TypeOK, SubmitTypes
  <2> QED BY <2>2, <2>3, <2>4 DEF TypeOK
<1>2. MutexHeld' /\ DestroyedLast' /\ NoPendingSignalMissing'
  BY <1>0 DEF MutexHeld, DestroyedLast, NoPendingSignalMissing
<1>3. OneOwner' /\ Armed'
  BY <1>0 DEF Core, OneOwner, Armed, Signals, InHand
<1>4. HandOK' /\ TodoDistinct' /\ PendingOnce' /\ KernargsMatch'
  BY <1>0 DEF Core, HandOK, TodoDistinct, PendingOnce, KernargsMatch, Signals
<1>5. TodoFresh'
  <2>1. \A r \in Queues : \A i \in 1..Len(todo[r]) : todo[r][i] \notin Range(b)
    BY <1>0 DEF Core, TodoDistinct
  <2> QED BY <1>0, <2>1 DEF Core, TodoFresh
<1>6. UnsubmittedClean'
  BY <1>0 DEF Core, UnsubmittedClean
<1>7. DeviceOwnsItsResources'
  BY <1>0 DEF Core, DeviceOwnsItsResources, UnsubmittedClean
<1> QED
  BY <1>1, <1>2, <1>3, <1>4, <1>5, <1>6, <1>7 DEF IInv

\* What taking the head off a queue's batch does to the batches.
LEMMA WriteFacts ==
    ASSUME NEW q \in Queues, TypeOK, HandOK, pc[q] \in {"next", "write"}, Write(q)
    PROVE  /\ todo[q] # << >> /\ Len(todo[q]) \in Nat \ {0}
           /\ Head(todo[q]) = todo[q][1] /\ Head(todo[q]) \in Packets
           /\ todo'[q] \in Seq(Packets)
           /\ Len(todo'[q]) = Len(todo[q]) - 1
           /\ \A i \in 1..Len(todo'[q]) : todo'[q][i] = todo[q][i + 1]
           /\ \A r \in Queues \ {q} : pc'[r] = pc[r] /\ todo'[r] = todo[r]
           /\ pc'[q] \in {"idle", "next"}
           /\ pc'[q] = "next" <=> todo'[q] # << >>
           /\ hw' \in [Queues -> Seq(Packets)]
           /\ pc' \in [Queues -> {"absent", "idle", "next", "fixup", "insert", "write"}]
           /\ todo' \in [Queues -> Seq(Packets)]
<1> USE DEF Write, TypeOK, SubmitTypes, DeviceTypes
<1>1. todo[q] # << >> /\ todo[q] \in Seq(Packets)
  BY DEF HandOK
<1>2. /\ todo[q] # << >> /\ Len(todo[q]) \in Nat \ {0}
      /\ Head(todo[q]) = todo[q][1] /\ Head(todo[q]) \in Packets
      /\ Tail(todo[q]) \in Seq(Packets)
      /\ Len(Tail(todo[q])) = Len(todo[q]) - 1
      /\ \A i \in 1..Len(Tail(todo[q])) : Tail(todo[q])[i] = todo[q][i + 1]
  BY <1>1, HeadTailProperties
<1>3. todo'[q] = Tail(todo[q]) /\ pc'[q] = IF Len(todo[q]) = 1 THEN "idle" ELSE "next"
  OBVIOUS
<1>4. pc'[q] = "next" <=> todo'[q] # << >>
  BY <1>2, <1>3
<1>5. hw' \in [Queues -> Seq(Packets)] /\ todo' \in [Queues -> Seq(Packets)]
  BY <1>2
<1> QED
  BY <1>2, <1>3, <1>4, <1>5

\* Taking the head off a batch keeps waiting packets in one place each.
LEMMA WriteDistinct ==
    ASSUME NEW q \in Queues, TypeOK, HandOK, TodoDistinct,
           pc[q] \in {"next", "write"}, Write(q), submitted' = submitted
    PROVE  /\ TodoDistinct'
           /\ \A r \in Queues : \A i \in 1..Len(todo'[r]) : todo'[r][i] # todo[q][1]
           /\ \A r \in Queues : \A i \in 1..Len(todo'[r]) :
                 \E j \in 1..Len(todo[r]) :
                     /\ todo'[r][i] = todo[r][j]
                     /\ r = q => j # 1
                     /\ r # q => i = j
<1> DEFINE ix(r, i) == IF r = q THEN i + 1 ELSE i
<1>1. ASSUME NEW r \in Queues, NEW i \in 1..Len(todo'[r])
      PROVE  /\ ix(r, i) \in 1..Len(todo[r])
             /\ todo'[r][i] = todo[r][ix(r, i)]
             /\ i \in Nat
  <2>0. /\ Len(todo[q]) \in Nat /\ Len(todo'[q]) = Len(todo[q]) - 1
        /\ \A k \in 1..Len(todo'[q]) : todo'[q][k] = todo[q][k + 1]
        /\ \A x \in Queues \ {q} : todo'[x] = todo[x]
    BY WriteFacts
  <2>1. CASE r = q
    BY <2>0, <2>1
  <2>2. CASE r # q
    BY <2>0, <2>2
  <2> QED BY <2>1, <2>2
<1>2. ASSUME NEW r \in Queues, NEW i \in 1..Len(todo'[r]) PROVE todo'[r][i] # todo[q][1]
  <2>1. 1 \in 1..Len(todo[q])
    BY WriteFacts
  <2>2. ~(r = q /\ ix(r, i) = 1)
    BY <1>1
  <2> QED BY <1>1, <2>1, <2>2 DEF TodoDistinct
<1>3. TodoDistinct'
  <2>1. ASSUME NEW r \in Queues, NEW i \in 1..Len(todo'[r]) PROVE todo'[r][i] \in submitted'
    BY <1>1 DEF TodoDistinct
  <2>2. ASSUME NEW r \in Queues, NEW i \in 1..Len(todo'[r]),
               NEW x \in Queues, NEW j \in 1..Len(todo'[x]), todo'[r][i] = todo'[x][j]
        PROVE  r = x /\ i = j
    <3>1. r = x /\ ix(r, i) = ix(x, j)
      <4>1. /\ ix(r, i) \in 1..Len(todo[r]) /\ ix(x, j) \in 1..Len(todo[x])
            /\ todo[r][ix(r, i)] = todo[x][ix(x, j)]
        BY <1>1, <2>2
      <4> HIDE DEF ix
      <4> QED BY <4>1 DEF TodoDistinct
    <3> QED BY <1>1, <3>1
  <2> QED BY <2>1, <2>2 DEF TodoDistinct
<1>4. ASSUME NEW r \in Queues, NEW i \in 1..Len(todo'[r])
      PROVE  \E j \in 1..Len(todo[r]) :
                     /\ todo'[r][i] = todo[r][j]
                     /\ r = q => j # 1
                     /\ r # q => i = j
  BY <1>1
<1> QED BY <1>2, <1>3, <1>4

\* doPackets writing a packet that is no dispatch preserves the invariant.
LEMMA WriteOtherInv ==
    ASSUME NEW q \in Queues, IInv, WriteOther(q) PROVE IInv'
<1> USE DEF WriteOther
<1>0. TypeOK /\ MutexHeld /\ Core /\ HandOK /\ NoPendingSignalMissing /\ DestroyedLast
  BY IInvIsCore DEF Core
<1>1. TypeOK'
  BY <1>0, WriteFacts DEF TypeOK, SignalTypes, TableTypes, SubmitTypes, DeviceTypes, ThreadTypes, Signals
<1>2. \A r \in Queues : (pc'[r] = "insert" <=> pc[r] = "insert") /\ (pc'[r] = "write" <=> pc[r] = "write")
  BY <1>0, WriteFacts
<1>3. MutexHeld' /\ DestroyedLast' /\ NoPendingSignalMissing'
  BY <1>0, <1>2 DEF MutexHeld, DestroyedLast, NoPendingSignalMissing
<1>4. InHand' = InHand
  BY <1>2 DEF InHand
<1>5. OneOwner' /\ Armed'
  BY <1>0, <1>4 DEF Core, OneOwner, Armed, Signals
<1>6. HandOK'
  <2>1. pc'[q] \in {"idle", "next"} /\ (pc'[q] = "next" <=> todo'[q] # << >>)
    BY <1>0, WriteFacts
  <2>2. \A r \in Queues \ {q} : pc'[r] = pc[r] /\ todo'[r] = todo[r]
    BY <1>0, WriteFacts
  <2> QED BY <1>0, <2>1, <2>2 DEF HandOK, Signals
<1>7. TodoDistinct'
  BY <1>0, WriteDistinct DEF Core
<1>8. UnsubmittedClean' /\ PendingOnce' /\ DeviceOwnsItsResources'
  BY <1>0 DEF Core, UnsubmittedClean, PendingOnce, DeviceOwnsItsResources
<1>9. TodoFresh'
  BY <1>0, <1>2, WriteDistinct DEF Core, TodoFresh
<1>10. KernargsMatch'
  <2>1. \A r \in Queues \ {q} : pc'[r] = pc[r] /\ todo'[r] = todo[r]
    BY <1>0, WriteFacts
  <2> QED BY <1>0, <2>1 DEF Core, KernargsMatch
<1> QED
  BY <1>1, <1>3, <1>5, <1>6, <1>7, <1>8, <1>9, <1>10 DEF IInv

\* doPackets counting a dispatch before its fix-up preserves the invariant.
LEMMA CountDispatchInv ==
    ASSUME NEW q \in Queues, IInv, CountDispatch(q) PROVE IInv'
<1> USE DEF CountDispatch
<1>0. TypeOK /\ MutexHeld /\ Core /\ HandOK /\ NoPendingSignalMissing /\ DestroyedLast
  BY IInvIsCore DEF Core
<1>1. TypeOK'
  <2>1. (SignalTypes /\ TableTypes /\ DeviceTypes /\ ThreadTypes)'
    BY <1>0 DEF TypeOK, SignalTypes, TableTypes, DeviceTypes, ThreadTypes, Signals
  <2>2. SubmitTypes'
    BY <1>0 DEF TypeOK, SubmitTypes
  <2> QED BY <2>1, <2>2 DEF TypeOK
<1>2. \A r \in Queues : (pc'[r] = "insert" <=> pc[r] = "insert") /\ (pc'[r] = "write" <=> pc[r] = "write")
  BY <1>0 DEF TypeOK, SubmitTypes
<1>3. MutexHeld' /\ DestroyedLast' /\ NoPendingSignalMissing'
  BY <1>0, <1>2 DEF MutexHeld, DestroyedLast, NoPendingSignalMissing
<1>4. InHand' = InHand
  BY <1>2 DEF InHand
<1>5. OneOwner' /\ Armed'
  BY <1>0, <1>4 DEF Core, OneOwner, Armed, Signals
<1>6. HandOK'
  <2>1. todo[q] # << >> /\ todo[q] \in Seq(Packets) /\ pc'[q] = "fixup"
    BY <1>0 DEF HandOK, TypeOK, SubmitTypes
  <2>2. todo[q][1] \in Dispatches
    BY <2>1
  <2>3. \A r \in Queues \ {q} : pc'[r] = pc[r]
    BY <1>0 DEF TypeOK, SubmitTypes
  <2> QED BY <1>0, <2>1, <2>2, <2>3 DEF HandOK, Signals
<1>7. TodoDistinct' /\ UnsubmittedClean' /\ PendingOnce' /\ DeviceOwnsItsResources'
  BY <1>0 DEF Core, TodoDistinct, UnsubmittedClean, PendingOnce, DeviceOwnsItsResources
<1>8. TodoFresh'
  BY <1>0, <1>2 DEF Core, TodoFresh
<1>9. KernargsMatch'
  BY <1>0, <1>2 DEF Core, KernargsMatch
<1> QED
  BY <1>1, <1>3, <1>5, <1>6, <1>7, <1>8, <1>9 DEF IInv

\* The inserted signal was in the hand of the thread that holds mutex_, so it
\* was pending for nobody; the dispatch it now stands for was pending nowhere.
LEMMA InsertPendingInv ==
    ASSUME NEW q \in Queues, IInv, InsertPending(q) PROVE IInv'
<1> DEFINE s == hand[q]
           p == todo[q][1]
<1> USE DEF InsertPending
<1>0. TypeOK /\ MutexHeld /\ Core /\ HandOK /\ NoPendingSignalMissing /\ DestroyedLast
  BY IInvIsCore DEF Core
<1>1. /\ s \in Signals /\ p \in Dispatches /\ Head(todo[q]) = p /\ mutex_ = q
      /\ 1 \in 1..Len(todo[q])
  <2>1. todo[q] # << >> /\ todo[q] \in Seq(Packets)
    BY <1>0 DEF HandOK, TypeOK, SubmitTypes
  <2> QED BY <1>0, <2>1 DEF HandOK, MutexHeld
<1>2. InHand = {s}
  BY <1>0, <1>1, InHandFacts
<1>3. s \notin DOMAIN pending_signals_ /\ sigval[s] = 1
  BY <1>0, <1>1, <1>2 DEF Core, OneOwner, Armed
<1>4. /\ DOMAIN pending_signals_' = DOMAIN pending_signals_ \cup {s}
      /\ pending_signals_'[s] = p
      /\ \A x \in DOMAIN pending_signals_ : pending_signals_'[x] = pending_signals_[x]
      /\ pending_signals_' = [x \in DOMAIN pending_signals_ \cup {s} |-> pending_signals_'[x]]
  BY <1>1, <1>3 DEF Put
<1>5. /\ pc'[q] = "write"
      /\ \A r \in Queues \ {q} : pc'[r] = pc[r] /\ pc[r] # "insert"
      /\ \A r \in Queues : pc'[r] # "insert"
  BY <1>0, <1>1 DEF TypeOK, SubmitTypes, MutexHeld
<1>6. TypeOK'
  <2>1. (SignalTypes /\ DeviceTypes)'
    BY <1>0 DEF TypeOK, SignalTypes, DeviceTypes, Signals
  <2>2. TableTypes'
    BY <1>0, <1>1, <1>4 DEF TypeOK, TableTypes, Signals
  <2>3. SubmitTypes'
    BY <1>0 DEF TypeOK, SubmitTypes
  <2>4. ThreadTypes'
    BY <1>0 DEF TypeOK, ThreadTypes, Signals
  <2> QED BY <2>1, <2>2, <2>3, <2>4 DEF TypeOK
<1>7. MutexHeld'
  <2>1. "none" \notin Queues /\ mutex_ # "runner"
    BY <1>1, ConstantsAssumption DEF ConstantsAssumption
  <2> QED BY <1>0, <1>5, <2>1 DEF MutexHeld
<1>8. DestroyedLast' /\ NoPendingSignalMissing'
  BY <1>0, <1>4 DEF DestroyedLast, NoPendingSignalMissing
<1>9. InHand' = {}
  BY <1>5 DEF InHand
<1>10. OneOwner' /\ Armed'
  BY <1>0, <1>2, <1>4, <1>9 DEF Core, OneOwner, Armed, Signals
<1>11. \A x \in DOMAIN pending_signals_ : pending_signals_[x] # p
  BY <1>0, <1>1 DEF Core, TodoFresh
<1>12. HandOK'
  BY <1>0, <1>1, <1>3, <1>4, <1>5 DEF HandOK, Signals
<1>13. TodoDistinct'
  BY <1>0 DEF Core, TodoDistinct
<1>14. TodoFresh'
  <2> SUFFICES ASSUME NEW r \in Queues, NEW i \in 1..Len(todo[r]), todo[r][i] \in Dispatches
               PROVE  (i = 1 /\ pc'[r] = "write")
                      \/ \A x \in DOMAIN pending_signals_' : pending_signals_'[x] # todo[r][i]
    BY <1>0 DEF Core, TodoFresh
  <2>1. CASE r = q /\ i = 1
    BY <1>5, <2>1
  <2>2. CASE ~(r = q /\ i = 1)
    <3>1. todo[r][i] # p
      BY <1>0, <1>1, <2>2 DEF Core, TodoDistinct
    <3>2. (i = 1 /\ pc'[r] = "write")
          \/ \A x \in DOMAIN pending_signals_ : pending_signals_[x] # todo[r][i]
      BY <1>0, <1>5, <2>2 DEF Core, TodoFresh
    <3> QED BY <1>4, <3>1, <3>2
  <2> QED BY <2>1, <2>2
<1>15. UnsubmittedClean'
  <2>1. p \in submitted
    BY <1>0, <1>1 DEF Core, TodoDistinct
  <2> QED BY <1>0, <1>4, <2>1 DEF Core, UnsubmittedClean
<1>16. PendingOnce'
  <2>1. p \notin reporting
    BY <1>0, <1>1 DEF Core, TodoFresh
  <2> QED BY <1>0, <1>4, <1>11, <2>1 DEF Core, PendingOnce, IsInjective
<1>17. KernargsMatch'
  <2> SUFFICES ASSUME NEW x \in DOMAIN pending_kernargs_
               PROVE  x \in DOMAIN pending_signals_' /\ pending_signals_'[x] = pending_kernargs_[x]
    BY DEF KernargsMatch
  <2>1. CASE x \in DOMAIN pending_signals_ /\ pending_signals_[x] = pending_kernargs_[x]
    BY <1>4, <2>1
  <2>2. CASE \E r \in Queues : pc[r] = "insert" /\ hand[r] = x /\ pending_kernargs_[x] = todo[r][1]
    BY <1>4, <1>5, <2>2
  <2> QED BY <1>0, <2>1, <2>2 DEF Core, KernargsMatch
<1>18. DeviceOwnsItsResources'
  BY <1>0, <1>4 DEF Core, DeviceOwnsItsResources
<1> HIDE DEF s, p
<1> QED
  BY <1>6, <1>7, <1>8, <1>10, <1>12, <1>13, <1>14, <1>15, <1>16, <1>17, <1>18 DEF IInv

\* The packet goes to the GPU with the signal that is pending for it.
LEMMA WriteDispatchInv ==
    ASSUME NEW q \in Queues, IInv, WriteDispatch(q) PROVE IInv'
<1> DEFINE p == todo[q][1]
<1> USE DEF WriteDispatch
<1>0. TypeOK /\ MutexHeld /\ Core /\ HandOK /\ NoPendingSignalMissing /\ DestroyedLast
  BY IInvIsCore DEF Core
<1>1. /\ Head(todo[q]) = p /\ p \in Dispatches /\ 1 \in 1..Len(todo[q])
      /\ hand[q] \in DOMAIN pending_signals_ /\ pending_signals_[hand[q]] = p
      /\ sigval[hand[q]] = 1
  BY <1>0, WriteFacts DEF HandOK
<1>2. /\ pc'[q] \in {"idle", "next"} /\ (pc'[q] = "next" <=> todo'[q] # << >>)
      /\ \A r \in Queues \ {q} : pc'[r] = pc[r] /\ todo'[r] = todo[r] /\ hand'[r] = hand[r]
      /\ \A r \in Queues : pc'[r] = "insert" <=> pc[r] = "insert"
      /\ \A r \in Queues : pc'[r] = "insert" => hand'[r] = hand[r] /\ todo'[r] = todo[r]
  <2>1. \A r \in Queues \ {q} : hand'[r] = hand[r]
    BY <1>0 DEF TypeOK, SubmitTypes
  <2> QED BY <1>0, <2>1, WriteFacts
<1>3. TypeOK'
  <2>1. (SignalTypes /\ TableTypes /\ ThreadTypes)'
    BY <1>0 DEF TypeOK, SignalTypes, TableTypes, ThreadTypes, Signals
  <2>2. SubmitTypes'
    BY <1>0, WriteFacts DEF TypeOK, SubmitTypes
  <2>3. DeviceTypes'
    <3>1. hw' \in [Queues -> Seq(Packets)] /\ hand[q] \in Nat
      BY <1>0, WriteFacts DEF TypeOK, SubmitTypes
    <3> QED BY <1>0, <1>1, <3>1 DEF TypeOK, DeviceTypes
  <2> QED BY <2>1, <2>2, <2>3 DEF TypeOK
<1>4. MutexHeld' /\ DestroyedLast' /\ NoPendingSignalMissing'
  BY <1>0, <1>2 DEF MutexHeld, DestroyedLast, NoPendingSignalMissing
<1>5. InHand' = InHand
  BY <1>2 DEF InHand
<1>6. OneOwner' /\ Armed'
  BY <1>0, <1>5 DEF Core, OneOwner, Armed, Signals
<1>7. HandOK'
  BY <1>0, <1>2 DEF HandOK, Signals
<1>8. /\ TodoDistinct'
      /\ \A r \in Queues : \A i \in 1..Len(todo'[r]) : todo'[r][i] # p
      /\ \A r \in Queues : \A i \in 1..Len(todo'[r]) :
            \E j \in 1..Len(todo[r]) : /\ todo'[r][i] = todo[r][j]
                                       /\ r = q => j # 1
                                       /\ r # q => i = j
  BY <1>0, WriteDistinct DEF Core
<1>9. TodoFresh'
  <2> SUFFICES ASSUME NEW r \in Queues, NEW i \in 1..Len(todo'[r]), todo'[r][i] \in Dispatches
               PROVE  /\ todo'[r][i] \notin running' \cup reporting
                      /\ kernargs[todo'[r][i]] # "freed"
                      /\ comms[todo'[r][i]] \notin {"deleted", "abandoned"}
                      /\ (i = 1 /\ pc'[r] = "write")
                         \/ \A s \in DOMAIN pending_signals_ : pending_signals_[s] # todo'[r][i]
    BY DEF TodoFresh
  <2>1. PICK j \in 1..Len(todo[r]) : /\ todo'[r][i] = todo[r][j]
                                     /\ r = q => j # 1
                                     /\ r # q => i = j
    BY <1>8
  <2>2. todo'[r][i] # p
    BY <1>8
  <2>3. running' = running \cup {p}
    BY <1>1
  <2> QED BY <1>0, <1>2, <2>1, <2>2, <2>3 DEF Core, TodoFresh
<1>10. UnsubmittedClean'
  <2>1. p \in submitted
    BY <1>0, <1>1 DEF Core, TodoDistinct
  <2>2. running' = running \cup {p} /\ \A d \in Dispatches \ {p} : csig'[d] = csig[d]
    BY <1>0, <1>1 DEF TypeOK, DeviceTypes
  <2> QED BY <1>0, <2>1, <2>2 DEF Core, UnsubmittedClean
<1>11. PendingOnce'
  BY <1>0 DEF Core, PendingOnce
<1>12. KernargsMatch'
  BY <1>0, <1>2 DEF Core, KernargsMatch
<1>13. DeviceOwnsItsResources'
  <2>1. /\ running' = running \cup {p} /\ csig'[p] = hand[q]
        /\ \A d \in Dispatches \ {p} : csig'[d] = csig[d]
    BY <1>0, <1>1 DEF TypeOK, DeviceTypes
  <2>2. kernargs[p] # "freed" /\ comms[p] \notin {"deleted", "abandoned"}
    BY <1>0, <1>1 DEF Core, TodoFresh
  <2>3. running \subseteq Dispatches
    BY <1>0 DEF TypeOK, DeviceTypes
  <2> QED BY <1>0, <1>1, <2>1, <2>2, <2>3 DEF Core, DeviceOwnsItsResources
<1> QED
  BY <1>3, <1>4, <1>6, <1>7, <1>8, <1>9, <1>10, <1>11, <1>12, <1>13 DEF IInv

\* What popping a signal, after replenishing an empty pool, does: the signal
\* was idle or is new, and the value of no existing signal changes.
LEMMA PopFacts ==
    ASSUME TypeOK, OneOwner, PopSignal
    PROVE  LET s == Grown[Len(Grown)] IN
           /\ created' \in Nat /\ Signals \subseteq Signals' /\ s \in Signals'
           /\ sig_pool_' \in Seq(Nat) /\ IsInjective(sig_pool_')
           /\ sigval' \in [Signals' -> Int]
           /\ \A x \in Signals : sigval'[x] = sigval[x]
           /\ \A x \in Signals' \ Signals : sigval'[x] = 1
           /\ s \notin Range(sig_pool_')
           /\ Range(sig_pool_') \cup {s} = Range(sig_pool_) \cup (Signals' \ Signals)
<1> DEFINE s == Grown[Len(Grown)]
<1> USE ConstantsAssumption DEF ConstantsAssumption
<1>0. created \in Nat /\ sigval \in [Signals -> Int] /\ SIGPOOL_INCREMENT \in Nat \ {0}
  BY DEF TypeOK, SignalTypes
<1>1. created' \in Nat /\ Signals \subseteq Signals'
  <2>1. created' = created \/ created' = created + SIGPOOL_INCREMENT
    BY DEF PopSignal
  <2> QED BY <1>0, <2>1 DEF Signals
<1>2. /\ sigval' \in [Signals' -> Int]
      /\ \A x \in Signals : sigval'[x] = sigval[x]
      /\ \A x \in Signals' \ Signals : sigval'[x] = 1
  <2>1. sigval' = [x \in Signals' |-> IF x \in Signals THEN sigval[x] ELSE 1]
    BY DEF PopSignal, Signals
  <2> QED BY <1>0, <1>1, <2>1
<1>3. Grown \in Seq(Nat) /\ Grown # << >> /\ IsInjective(Grown)
  BY GrownFacts
<1>4. /\ sig_pool_' \in Seq(Nat) /\ IsInjective(sig_pool_')
      /\ s \in Range(Grown) /\ Range(sig_pool_') = Range(Grown) \ {s}
  <2>1. sig_pool_' = PopBack(Grown)
    BY DEF PopSignal
  <2>2. /\ PopBack(Grown) \in Seq(Nat) /\ IsInjective(PopBack(Grown))
        /\ s \in Range(Grown) /\ Range(PopBack(Grown)) = Range(Grown) \ {s}
    BY <1>3, PopElems
  <2> QED BY <2>1, <2>2
<1>5. Range(Grown) = Range(sig_pool_) \cup (Signals' \ Signals)
  <2>1. CASE sig_pool_ = << >>
    <3>1. created' = created + SIGPOOL_INCREMENT
      BY <2>1 DEF PopSignal
    <3>2. Range(Grown) = (created + 1)..(created + SIGPOOL_INCREMENT)
      BY <2>1, GrownFacts
    <3>3. Signals' \ Signals = (created + 1)..(created + SIGPOOL_INCREMENT)
      BY <1>0, <3>1 DEF Signals
    <3>4. Range(sig_pool_) = {}
      BY <2>1 DEF Range
    <3> QED BY <3>2, <3>3, <3>4
  <2>2. CASE sig_pool_ # << >>
    <3>1. created' = created
      BY <2>2 DEF PopSignal
    <3>2. Grown = sig_pool_
      BY <2>2, GrownFacts
    <3>3. Signals' = Signals
      BY <3>1 DEF Signals
    <3> QED BY <3>2, <3>3
  <2> QED BY <2>1, <2>2
<1>6. Range(sig_pool_) \subseteq Signals
  BY DEF OneOwner
<1> HIDE DEF s
<1>7. s \in Signals'
  BY <1>1, <1>4, <1>5, <1>6
<1> QED
  BY <1>1, <1>2, <1>4, <1>5, <1>7 DEF s

\* The packet fixupPacket works on, and the state of the tables around it.
LEMMA FixupFacts ==
    ASSUME NEW q \in Queues, IInv, pc[q] = "fixup", mutex_ = "none"
    PROVE  /\ todo[q] # << >> /\ 1 \in 1..Len(todo[q])
           /\ Head(todo[q]) = todo[q][1] /\ todo[q][1] \in Dispatches
           /\ todo[q][1] \in submitted /\ todo[q][1] \notin running
           /\ InHand = {}
           /\ \A r \in Queues : pc[r] # "insert"
<1>0. TypeOK /\ MutexHeld /\ Core /\ HandOK
  BY IInvIsCore DEF Core
<1>1. todo[q] # << >> /\ todo[q] \in Seq(Packets) /\ todo[q][1] \in Dispatches
  BY <1>0 DEF HandOK, TypeOK, SubmitTypes
<1>2. 1 \in 1..Len(todo[q]) /\ Head(todo[q]) = todo[q][1]
  BY <1>1
<1>3. "none" \notin Queues
  BY ConstantsAssumption DEF ConstantsAssumption
<1>4. InHand = {} /\ \A r \in Queues : pc[r] # "insert"
  BY <1>0, <1>3, InHandFacts DEF MutexHeld
<1>5. todo[q][1] \in submitted /\ todo[q][1] \notin running
  BY <1>0, <1>1, <1>2 DEF Core, TodoDistinct, TodoFresh
<1> QED
  BY <1>1, <1>2, <1>4, <1>5

\* The popped signal belonged to nobody, so the thread now owns it alone.
LEMMA FixupPacketInv ==
    ASSUME NEW q \in Queues, NEW instr \in BOOLEAN, IInv, FixupPacket(q, instr) PROVE IInv'
<1> DEFINE s == Grown[Len(Grown)]
           p == todo[q][1]
<1>0. /\ TypeOK /\ MutexHeld /\ Core /\ HandOK /\ NoPendingSignalMissing /\ DestroyedLast
      /\ OneOwner
  BY IInvIsCore DEF Core
<1>1. /\ todo[q] # << >> /\ 1 \in 1..Len(todo[q])
      /\ Head(todo[q]) = p /\ p \in Dispatches /\ p \in submitted /\ p \notin running
      /\ InHand = {} /\ \A r \in Queues : pc[r] # "insert"
  BY FixupFacts DEF FixupPacket
<1>2. /\ created' \in Nat /\ Signals \subseteq Signals' /\ s \in Signals'
      /\ sig_pool_' \in Seq(Nat) /\ IsInjective(sig_pool_')
      /\ sigval' \in [Signals' -> Int]
      /\ \A x \in Signals : sigval'[x] = sigval[x]
      /\ \A x \in Signals' \ Signals : sigval'[x] = 1
      /\ s \notin Range(sig_pool_')
      /\ Range(sig_pool_') \cup {s} = Range(sig_pool_) \cup (Signals' \ Signals)
  BY <1>0, PopFacts DEF FixupPacket
<1>3. /\ pc'[q] = "insert" /\ hand'[q] = s
      /\ \A r \in Queues \ {q} : pc'[r] = pc[r] /\ hand'[r] = hand[r]
      /\ pc' \in [Queues -> {"absent", "idle", "next", "fixup", "insert", "write"}]
      /\ hand' \in [Queues -> Nat]
  <2>1. s \in Nat
    BY <1>2 DEF Signals
  <2> QED BY <1>0, <2>1 DEF FixupPacket, TypeOK, SubmitTypes
<1>4. /\ \A d \in Dispatches \ {p} : kernargs'[d] = kernargs[d] /\ comms'[d] = comms[d]
      /\ kernargs'[p] \in {kernargs[p], "live"} /\ comms'[p] \in {comms[p], "live"}
      /\ kernargs' \in [Dispatches -> {"none", "live", "freed"}]
      /\ comms' \in [Dispatches -> {"none", "live", "deleted", "abandoned"}]
  <2>0. /\ kernargs \in [Dispatches -> {"none", "live", "freed"}]
        /\ comms \in [Dispatches -> {"none", "live", "deleted", "abandoned"}]
    BY <1>0 DEF TypeOK, TableTypes
  <2>1. /\ kernargs' = kernargs \/ kernargs' = [kernargs EXCEPT ![p] = "live"]
        /\ comms' = comms \/ comms' = [comms EXCEPT ![p] = "live"]
    BY <1>1, Zenon DEF FixupPacket
  <2> QED BY <1>1, <2>0, <2>1
<1>5. \/ pending_kernargs_' = pending_kernargs_
      \/ /\ DOMAIN pending_kernargs_' = DOMAIN pending_kernargs_ \cup {s}
         /\ pending_kernargs_'[s] = p
         /\ \A x \in DOMAIN pending_kernargs_ \ {s} : pending_kernargs_'[x] = pending_kernargs_[x]
         /\ pending_kernargs_' = [x \in DOMAIN pending_kernargs_' |-> pending_kernargs_'[x]]
  <2>1. pending_kernargs_' = pending_kernargs_ \/ pending_kernargs_' = Put(pending_kernargs_, s, p)
    BY <1>1, Zenon DEF FixupPacket
  <2> QED BY <2>1 DEF Put
<1>6. /\ UNCHANGED <<appVars, gpuVars, runVars, exitVars, todo, leaked, pending_signals_, appval>>
      /\ mutex_ = "none" /\ mutex_' = q /\ pc[q] = "fixup"
  BY DEF FixupPacket
<1>7. TypeOK'
  <2>1. SignalTypes'
    BY <1>0, <1>2, <1>6 DEF TypeOK, SignalTypes
  <2>2. TableTypes'
    <3> HIDE DEF s, p
    <3>1. DOMAIN pending_kernargs_' \subseteq Signals'
          /\ pending_kernargs_' \in [DOMAIN pending_kernargs_' -> Dispatches]
      <4>1. DOMAIN pending_kernargs_ \subseteq Signals'
            /\ pending_kernargs_ \in [DOMAIN pending_kernargs_ -> Dispatches]
        BY <1>0, <1>2 DEF TypeOK, TableTypes
      <4>2. CASE pending_kernargs_' = pending_kernargs_
        BY <4>1, <4>2
      <4>3. CASE /\ DOMAIN pending_kernargs_' = DOMAIN pending_kernargs_ \cup {s}
                 /\ pending_kernargs_'[s] = p
                 /\ \A x \in DOMAIN pending_kernargs_ \ {s} : pending_kernargs_'[x] = pending_kernargs_[x]
                 /\ pending_kernargs_' = [x \in DOMAIN pending_kernargs_' |-> pending_kernargs_'[x]]
        <5>1. \A x \in DOMAIN pending_kernargs_' : pending_kernargs_'[x] \in Dispatches
          BY <1>1, <4>1, <4>3
        <5> QED BY <1>2, <4>1, <4>3, <5>1
      <4> QED BY <1>5, <4>2, <4>3
    <3>2. DOMAIN pending_signals_' \subseteq Signals'
          /\ pending_signals_' \in [DOMAIN pending_signals_' -> Dispatches]
      BY <1>0, <1>2, <1>6 DEF TypeOK, TableTypes
    <3> QED BY <1>4, <3>1, <3>2 DEF TableTypes
  <2>3. (SubmitTypes /\ DeviceTypes)'
    BY <1>0, <1>3, <1>6 DEF TypeOK, SubmitTypes, DeviceTypes
  <2>4. ThreadTypes'
    BY <1>0, <1>2, <1>6 DEF TypeOK, ThreadTypes
  <2> QED BY <2>1, <2>2, <2>3, <2>4 DEF TypeOK
<1>8. DOMAIN pending_signals_ \subseteq Signals /\ leaked \cup destroyed \subseteq Signals
      /\ Range(sig_pool_) \subseteq Signals /\ snap \subseteq Signals
  BY <1>0 DEF OneOwner, TypeOK, ThreadTypes
<1> HIDE DEF s, p
<1>9. MutexHeld'
  <2>1. q # "runner"
    BY ConstantsAssumption DEF ConstantsAssumption
  <2> QED BY <1>0, <1>1, <1>3, <1>6, <2>1 DEF MutexHeld
<1>10. DestroyedLast' /\ NoPendingSignalMissing'
  BY <1>0, <1>2, <1>6, <1>8 DEF DestroyedLast, NoPendingSignalMissing
<1>11. InHand' = {s}
  BY <1>1, <1>3 DEF InHand
<1>12. OneOwner'
  BY <1>0, <1>1, <1>2, <1>6, <1>8, <1>11 DEF OneOwner
<1>13. Armed'
  BY <1>0, <1>2, <1>8, <1>11 DEF Core, Armed
<1>14. HandOK'
  BY <1>0, <1>1, <1>2, <1>3, <1>6, <1>8 DEF HandOK, p
<1>15. TodoDistinct'
  BY <1>0, <1>6 DEF Core, TodoDistinct
<1>16. TodoFresh'
  <2> SUFFICES ASSUME NEW r \in Queues, NEW i \in 1..Len(todo[r]), todo[r][i] \in Dispatches
               PROVE  /\ kernargs'[todo[r][i]] # "freed"
                      /\ comms'[todo[r][i]] \notin {"deleted", "abandoned"}
                      /\ (i = 1 /\ pc'[r] = "write")
                         \/ \A x \in DOMAIN pending_signals_ : pending_signals_[x] # todo[r][i]
    BY <1>0, <1>6 DEF Core, TodoFresh
  <2>1. kernargs[todo[r][i]] # "freed" /\ comms[todo[r][i]] \notin {"deleted", "abandoned"}
    BY <1>0 DEF Core, TodoFresh
  <2>2. (i = 1 /\ pc'[r] = "write")
        \/ \A x \in DOMAIN pending_signals_ : pending_signals_[x] # todo[r][i]
    BY <1>0, <1>3, <1>6 DEF Core, TodoFresh
  <2> QED BY <1>4, <2>1, <2>2
<1>17. UnsubmittedClean'
  BY <1>0, <1>1, <1>4, <1>6 DEF Core, UnsubmittedClean
<1>18. PendingOnce'
  BY <1>0, <1>6 DEF Core, PendingOnce
<1>19. KernargsMatch'
  <2> SUFFICES ASSUME NEW x \in DOMAIN pending_kernargs_'
               PROVE  \/ x \in DOMAIN pending_signals_ /\ pending_signals_[x] = pending_kernargs_'[x]
                      \/ pc'[q] = "insert" /\ hand'[q] = x /\ pending_kernargs_'[x] = todo[q][1]
    BY <1>6 DEF KernargsMatch
  <2>1. ASSUME x \in DOMAIN pending_kernargs_, pending_kernargs_'[x] = pending_kernargs_[x]
        PROVE  x \in DOMAIN pending_signals_ /\ pending_signals_[x] = pending_kernargs_'[x]
    BY <1>0, <1>1, <2>1 DEF Core, KernargsMatch
  <2> QED BY <1>3, <1>5, <2>1 DEF p
<1>20. DeviceOwnsItsResources'
  <2>1. running \subseteq Dispatches
    BY <1>0 DEF TypeOK, DeviceTypes
  <2> QED BY <1>0, <1>1, <1>2, <1>4, <1>6, <1>8, <2>1, SMTT(20) DEF Core, DeviceOwnsItsResources
<1> QED
  BY <1>7, <1>9, <1>10, <1>12, <1>13, <1>14, <1>15, <1>16, <1>17, <1>18, <1>19, <1>20 DEF IInv

\* The popped signal is leaked and the batch dropped.
LEMMA FixupThrowsInv ==
    ASSUME NEW q \in Queues, IInv, FixupThrows(q) PROVE IInv'
<1> DEFINE s == Grown[Len(Grown)]
           p == todo[q][1]
<1>0. /\ TypeOK /\ MutexHeld /\ Core /\ HandOK /\ NoPendingSignalMissing /\ DestroyedLast
      /\ OneOwner
  BY IInvIsCore DEF Core
<1>1. /\ todo[q] # << >> /\ 1 \in 1..Len(todo[q])
      /\ Head(todo[q]) = p /\ p \in Dispatches /\ p \in submitted /\ p \notin running
      /\ InHand = {} /\ \A r \in Queues : pc[r] # "insert"
  BY FixupFacts DEF FixupThrows
<1>2. /\ created' \in Nat /\ Signals \subseteq Signals' /\ s \in Signals'
      /\ sig_pool_' \in Seq(Nat) /\ IsInjective(sig_pool_')
      /\ sigval' \in [Signals' -> Int]
      /\ \A x \in Signals : sigval'[x] = sigval[x]
      /\ \A x \in Signals' \ Signals : sigval'[x] = 1
      /\ s \notin Range(sig_pool_')
      /\ Range(sig_pool_') \cup {s} = Range(sig_pool_) \cup (Signals' \ Signals)
  BY <1>0, PopFacts DEF FixupThrows
<1>3. /\ pc'[q] = "idle" /\ todo'[q] = << >>
      /\ \A r \in Queues \ {q} : pc'[r] = pc[r] /\ todo'[r] = todo[r]
      /\ \A r \in Queues : pc'[r] # "insert"
      /\ pc' \in [Queues -> {"absent", "idle", "next", "fixup", "insert", "write"}]
      /\ todo' \in [Queues -> Seq(Packets)]
  BY <1>0, <1>1 DEF FixupThrows, TypeOK, SubmitTypes
<1>4. /\ \A d \in Dispatches \ {p} : kernargs'[d] = kernargs[d]
      /\ kernargs' \in [Dispatches -> {"none", "live", "freed"}]
  BY <1>0, <1>1 DEF FixupThrows, TypeOK, TableTypes
<1>5. /\ UNCHANGED <<gpuVars, runVars, exitVars, hand, submitted, dispatch_id, dispatch_count_,
                     pending_signals_, pending_kernargs_, comms, appval, mutex_>>
      /\ leaked' = leaked \cup {s} /\ lost' = lost \cup Range(todo[q])
  BY DEF FixupThrows
<1>6. TypeOK'
  <2>1. SignalTypes'
    BY <1>0, <1>2, <1>5 DEF TypeOK, SignalTypes
  <2>2. TableTypes'
    BY <1>0, <1>2, <1>4, <1>5 DEF TypeOK, TableTypes
  <2>3. SubmitTypes'
    <3>1. Range(todo[q]) \subseteq Packets
      BY <1>0 DEF TypeOK, SubmitTypes, Range
    <3> QED BY <1>0, <1>3, <1>5, <3>1 DEF TypeOK, SubmitTypes
  <2>4. (DeviceTypes /\ ThreadTypes)'
    BY <1>0, <1>2, <1>5 DEF TypeOK, DeviceTypes, ThreadTypes
  <2> QED BY <2>1, <2>2, <2>3, <2>4 DEF TypeOK
<1>7. DOMAIN pending_signals_ \subseteq Signals /\ leaked \cup destroyed \subseteq Signals
      /\ Range(sig_pool_) \subseteq Signals /\ snap \subseteq Signals
  BY <1>0 DEF OneOwner, TypeOK, ThreadTypes
<1> HIDE DEF s, p
<1>8. MutexHeld' /\ DestroyedLast'
  BY <1>0, <1>1, <1>3, <1>5 DEF MutexHeld, DestroyedLast
<1>9. NoPendingSignalMissing'
  BY <1>0, <1>2, <1>5, <1>7 DEF NoPendingSignalMissing
<1>10. InHand' = {}
  BY <1>3 DEF InHand
<1>11. OneOwner'
  BY <1>0, <1>1, <1>2, <1>5, <1>7, <1>10 DEF OneOwner
<1>12. Armed'
  BY <1>0, <1>2, <1>7, <1>10 DEF Core, Armed
<1>13. HandOK'
  <2> SUFFICES ASSUME NEW r \in Queues, r # q
               PROVE  /\ pc[r] \in {"next", "fixup", "insert", "write"} <=> todo[r] # << >>
                      /\ pc[r] \in {"fixup", "insert", "write"} => todo[r][1] \in Dispatches
                      /\ pc[r] = "write" => /\ hand[r] \in DOMAIN pending_signals_
                                            /\ pending_signals_[hand[r]] = todo[r][1]
                                            /\ sigval'[hand[r]] = 1
    BY <1>3, <1>5 DEF HandOK
  <2> QED BY <1>0, <1>2, <1>7 DEF HandOK
<1>14. TodoDistinct'
  <2>1. Len(todo'[q]) = 0
    BY <1>3
  <2>2. \A r \in Queues : \A i \in 1..Len(todo'[r]) : r # q /\ todo'[r] = todo[r]
    BY <1>3, <2>1
  <2> QED BY <1>0, <1>5, <2>2 DEF Core, TodoDistinct
<1>15. TodoFresh'
  <2> SUFFICES ASSUME NEW r \in Queues, NEW i \in 1..Len(todo'[r]), todo'[r][i] \in Dispatches
               PROVE  /\ todo'[r][i] \notin running \cup reporting
                      /\ kernargs'[todo'[r][i]] # "freed"
                      /\ comms[todo'[r][i]] \notin {"deleted", "abandoned"}
                      /\ (i = 1 /\ pc'[r] = "write")
                         \/ \A x \in DOMAIN pending_signals_ : pending_signals_[x] # todo'[r][i]
    BY <1>5 DEF TodoFresh
  <2>1. r # q /\ todo'[r] = todo[r] /\ pc'[r] = pc[r]
    BY <1>3
  <2>2. todo[r][i] # p
    BY <1>0, <1>1, <2>1 DEF Core, TodoDistinct, p
  <2> QED BY <1>0, <1>4, <2>1, <2>2 DEF Core, TodoFresh
<1>16. UnsubmittedClean'
  BY <1>0, <1>1, <1>4, <1>5 DEF Core, UnsubmittedClean
<1>17. PendingOnce'
  BY <1>0, <1>5 DEF Core, PendingOnce
<1>18. KernargsMatch'
  BY <1>0, <1>1, <1>5 DEF Core, KernargsMatch
<1>19. DeviceOwnsItsResources'
  <2>1. running \subseteq Dispatches
    BY <1>0 DEF TypeOK, DeviceTypes
  <2> QED BY <1>0, <1>1, <1>2, <1>4, <1>5, <1>7, <2>1 DEF Core, DeviceOwnsItsResources
<1> QED
  BY <1>6, <1>8, <1>9, <1>11, <1>12, <1>13, <1>14, <1>15, <1>16, <1>17, <1>18, <1>19 DEF IInv

-----------------------------------------------------------------------------
(* Steps of the GPU and of signal_runner.                                  *)

\* Only the signal pending for the dispatch that ends changes its value.
LEMMA GpuFinishInv ==
    ASSUME NEW p \in Dispatches, IInv, GpuFinish(p) PROVE IInv'
<1> USE DEF GpuFinish
<1>0. TypeOK /\ MutexHeld /\ Core /\ NoPendingSignalMissing /\ DestroyedLast
  BY IInvIsCore
<1>1. csig[p] # 0 => /\ csig[p] \in DOMAIN pending_signals_ /\ pending_signals_[csig[p]] = p
                     /\ csig[p] \in Signals
  BY <1>0 DEF Core, DeviceOwnsItsResources, TypeOK, TableTypes
<1>2. /\ sigval' \in [Signals -> Int]
      /\ \A x \in Signals : (csig[p] = 0 \/ x # csig[p]) => sigval'[x] = sigval[x]
  BY <1>0, <1>1 DEF TypeOK, SignalTypes
<1>3. TypeOK'
  <2>1. (SignalTypes /\ TableTypes /\ SubmitTypes /\ ThreadTypes)'
    BY <1>0, <1>2 DEF TypeOK, SignalTypes, TableTypes, SubmitTypes, ThreadTypes, Signals
  <2>2. appval' \in [Dispatches -> Int]
    BY <1>0 DEF TypeOK, DeviceTypes
  <2>3. early' \subseteq Dispatches
    BY <1>0, Zenon DEF TypeOK, DeviceTypes
  <2>4. DeviceTypes'
    BY <1>0, <2>2, <2>3 DEF TypeOK, DeviceTypes
  <2> QED BY <2>1, <2>4 DEF TypeOK
<1>4. MutexHeld' /\ DestroyedLast'
  BY <1>0 DEF MutexHeld, DestroyedLast
<1>5. NoPendingSignalMissing'
  BY <1>0, <1>1, <1>2 DEF NoPendingSignalMissing, TypeOK, ThreadTypes
<1>6. InHand' = InHand
  BY DEF InHand
<1>7. OneOwner'
  BY <1>0, <1>6 DEF Core, OneOwner, Signals
<1>8. Armed'
  BY <1>0, <1>1, <1>2, <1>6 DEF Core, Armed, OneOwner, Signals
<1>9. HandOK'
  <2>1. ASSUME NEW r \in Queues, pc[r] = "write" PROVE sigval'[hand[r]] = 1
    <3>1. /\ hand[r] \in DOMAIN pending_signals_ /\ pending_signals_[hand[r]] = todo[r][1]
          /\ sigval[hand[r]] = 1 /\ todo[r] # << >> /\ todo[r][1] \in Dispatches
          /\ hand[r] \in Signals
      BY <1>0, <2>1 DEF Core, HandOK, TypeOK, TableTypes
    <3>2. 1 \in 1..Len(todo[r])
      BY <1>0, <3>1 DEF TypeOK, SubmitTypes
    <3>3. todo[r][1] # p
      BY <1>0, <3>1, <3>2 DEF Core, TodoFresh
    <3> QED BY <1>1, <1>2, <3>1, <3>3
  <2> QED BY <1>0, <2>1 DEF Core, HandOK, Signals
<1>10. TodoDistinct' /\ TodoFresh' /\ UnsubmittedClean'
  BY <1>0 DEF Core, TodoDistinct, TodoFresh, UnsubmittedClean
<1>11. PendingOnce' /\ KernargsMatch'
  BY <1>0 DEF Core, PendingOnce, KernargsMatch
<1>12. DeviceOwnsItsResources'
  <2> SUFFICES ASSUME NEW d \in running, d # p, csig[d] # 0
               PROVE  sigval'[csig[d]] = 1
    BY <1>0 DEF Core, DeviceOwnsItsResources
  <2>1. /\ csig[d] \in DOMAIN pending_signals_ /\ pending_signals_[csig[d]] = d
        /\ sigval[csig[d]] = 1 /\ csig[d] \in Signals
    BY <1>0 DEF Core, DeviceOwnsItsResources, TypeOK, TableTypes
  <2> QED BY <1>1, <1>2, <2>1
<1> QED
  BY <1>3, <1>4, <1>5, <1>7, <1>8, <1>9, <1>10, <1>11, <1>12 DEF IInv

\* The dispatch retired is not on the GPU and not waiting to be written, since
\* its only signal is 0 and theirs are 1; so nobody still needs its kernargs.
LEMMA signalCompletedInv ==
    ASSUME NEW s \in Signals, IInv, signalCompleted(s) PROVE IInv'
<1> DEFINE p == pending_signals_[s]
<1>0. TypeOK /\ MutexHeld /\ Core /\ HandOK /\ OneOwner /\ NoPendingSignalMissing /\ DestroyedLast
  BY IInvIsCore DEF Core
<1>1. /\ s \in DOMAIN pending_signals_ /\ sigval[s] = 0 /\ mutex_ = "none" /\ snap' = snap \ {s}
      /\ rpc = "wait"
  BY <1>0 DEF signalCompleted, NoPendingSignalMissing
<1>2. /\ pending_signals_' = Erase(pending_signals_, s)
      /\ appval' = Notified(p)
      /\ sigval' = Rearmed(s)
      /\ kernargs' = KernargsFreed(s)
      /\ pending_kernargs_' = Erase(pending_kernargs_, s)
      /\ sig_pool_' = Pooled(s)
      /\ reporting' = {p} \cap {d \in Dispatches : comms[d] # "none"}
      /\ rpc' = IF reporting' = {} THEN "wait" ELSE "checkin"
      /\ mutex_' = IF reporting' = {} THEN "none" ELSE "runner"
  BY <1>1 DEF signalCompleted
<1>3. UNCHANGED <<appVars, gpuVars, exitVars, qVars, created, leaked, comms>>
  BY DEF signalCompleted
<1>4. p \in Dispatches /\ s \in Nat
  BY <1>0, <1>1 DEF TypeOK, TableTypes, Signals
<1>5. /\ DOMAIN pending_signals_' = DOMAIN pending_signals_ \ {s}
      /\ \A x \in DOMAIN pending_signals_ \ {s} : pending_signals_'[x] = pending_signals_[x]
      /\ pending_signals_' = [x \in DOMAIN pending_signals_ \ {s} |-> pending_signals_[x]]
      /\ DOMAIN pending_kernargs_' = DOMAIN pending_kernargs_ \ {s}
      /\ \A x \in DOMAIN pending_kernargs_ \ {s} : pending_kernargs_'[x] = pending_kernargs_[x]
      /\ pending_kernargs_' = [x \in DOMAIN pending_kernargs_ \ {s} |-> pending_kernargs_[x]]
  BY <1>2 DEF Erase, Restrict
<1>6. /\ sigval' \in [Signals -> Int] /\ sigval'[s] = 1
      /\ \A x \in Signals \ {s} : sigval'[x] = sigval[x]
  BY <1>0, <1>2 DEF TypeOK, SignalTypes, Rearmed
<1>7. InHand = {} /\ \A r \in Queues : pc[r] # "insert"
  <2>1. "none" \notin Queues
    BY ConstantsAssumption DEF ConstantsAssumption
  <2> QED BY <1>0, <1>1, <2>1, InHandFacts DEF MutexHeld
<1>8. /\ kernargs' \in [Dispatches -> {"none", "live", "freed"}]
      /\ \A d \in Dispatches \ {p} : kernargs'[d] = kernargs[d]
  <2>1. s \in DOMAIN pending_kernargs_ => pending_kernargs_[s] = p
    BY <1>0, <1>1, <1>7 DEF Core, KernargsMatch
  <2> QED BY <1>0, <1>2, <1>4, <2>1 DEF KernargsFreed, TypeOK, TableTypes
<1>9. /\ sig_pool_' \in Seq(Nat) /\ IsInjective(sig_pool_')
      /\ Range(sig_pool_') = Range(sig_pool_) \cup {s}
  <2>1. sig_pool_ \in Seq(Nat) /\ IsInjective(sig_pool_) /\ s \notin Range(sig_pool_)
    BY <1>0, <1>1 DEF TypeOK, SignalTypes, OneOwner
  <2> QED BY <1>2, <1>4, <2>1, PushElems DEF Pooled
<1> HIDE DEF p
<1>10. reporting' \subseteq {p}
  BY <1>2
<1>11. \A r \in Queues : pc[r] = "write" => hand[r] # s
  BY <1>0, <1>1 DEF HandOK
<1>12. \A r \in Queues : \A i \in 1..Len(todo[r]) : todo[r][i] # p
  <2> SUFFICES ASSUME NEW r \in Queues, NEW i \in 1..Len(todo[r]), todo[r][i] = p
               PROVE  FALSE
    OBVIOUS
  <2>1. i = 1 /\ pc[r] = "write"
    BY <1>0, <1>1, <1>4 DEF Core, TodoFresh, p
  <2>2. hand[r] \in DOMAIN pending_signals_ /\ pending_signals_[hand[r]] = p
    BY <1>0, <2>1 DEF HandOK
  <2> QED BY <1>0, <1>1, <1>11, <2>1, <2>2 DEF Core, PendingOnce, IsInjective, p
<1>13. \A d \in running : csig[d] # 0 => d # p /\ csig[d] # s
  BY <1>0, <1>1 DEF Core, DeviceOwnsItsResources, PendingOnce, IsInjective, p
<1>14. TypeOK'
  <2>1. SignalTypes'
    BY <1>0, <1>3, <1>6, <1>9 DEF TypeOK, SignalTypes, Signals
  <2>2. TableTypes'
    <3>1. /\ DOMAIN pending_signals_' \subseteq Signals'
          /\ pending_signals_' \in [DOMAIN pending_signals_' -> Dispatches]
      BY <1>0, <1>3, <1>5 DEF TypeOK, TableTypes, Signals
    <3>2. /\ DOMAIN pending_kernargs_' \subseteq Signals'
          /\ pending_kernargs_' \in [DOMAIN pending_kernargs_' -> Dispatches]
      BY <1>0, <1>3, <1>5 DEF TypeOK, TableTypes, Signals
    <3> QED BY <1>0, <1>3, <1>8, <3>1, <3>2 DEF TypeOK, TableTypes
  <2>3. SubmitTypes'
    BY <1>0, <1>3 DEF TypeOK, SubmitTypes
  <2>4. DeviceTypes'
    BY <1>0, <1>2, <1>3, <1>4 DEF TypeOK, DeviceTypes, Notified
  <2>5. ThreadTypes'
    BY <1>0, <1>1, <1>2, <1>3 DEF TypeOK, ThreadTypes, Signals
  <2> QED BY <2>1, <2>2, <2>3, <2>4, <2>5 DEF TypeOK
<1>15. MutexHeld'
  <2>1. "none" \notin Queues /\ "runner" \notin Queues
    BY ConstantsAssumption DEF ConstantsAssumption
  <2> QED BY <1>2, <1>3, <1>7, <2>1 DEF MutexHeld
<1>16. DestroyedLast'
  BY <1>0, <1>3 DEF DestroyedLast
<1>17. NoPendingSignalMissing'
  BY <1>0, <1>1, <1>5, <1>6 DEF NoPendingSignalMissing, TypeOK, ThreadTypes
<1>18. InHand' = {}
  BY <1>3, <1>7 DEF InHand
<1>19. OneOwner'
  BY <1>0, <1>1, <1>3, <1>5, <1>7, <1>9, <1>18 DEF OneOwner, Signals
<1>20. Armed'
  BY <1>0, <1>3, <1>6, <1>9, <1>18 DEF Core, Armed, Signals
<1>21. HandOK'
  <2>1. \A r \in Queues : pc[r] = "write" => hand[r] \in Signals
    BY <1>0 DEF HandOK, TypeOK, TableTypes
  <2> QED BY <1>0, <1>3, <1>5, <1>6, <1>11, <2>1 DEF HandOK, Signals
<1>22. TodoDistinct'
  BY <1>0, <1>3 DEF Core, TodoDistinct
<1>23. TodoFresh'
  BY <1>0, <1>3, <1>5, <1>8, <1>10, <1>12 DEF Core, TodoFresh
<1>24. UnsubmittedClean'
  <2>1. p \in submitted
    BY <1>0, <1>1, <1>4 DEF Core, UnsubmittedClean, p
  <2> QED BY <1>0, <1>3, <1>5, <1>8, <1>10, <2>1 DEF Core, UnsubmittedClean
<1>25. PendingOnce'
  BY <1>0, <1>1, <1>5, <1>10 DEF Core, PendingOnce, IsInjective, p
<1>26. KernargsMatch'
  BY <1>0, <1>3, <1>5, <1>7 DEF Core, KernargsMatch
<1>27. DeviceOwnsItsResources'
  <2> SUFFICES ASSUME NEW d \in running, csig[d] # 0
               PROVE  /\ csig[d] \in DOMAIN pending_signals_'
                      /\ pending_signals_'[csig[d]] = d
                      /\ sigval'[csig[d]] = 1
                      /\ kernargs'[d] # "freed"
                      /\ comms[d] \notin {"deleted", "abandoned"}
    BY <1>3 DEF DeviceOwnsItsResources
  <2>1. d \in Dispatches /\ csig[d] \in Signals
    BY <1>0 DEF Core, DeviceOwnsItsResources, TypeOK, TableTypes, DeviceTypes
  <2> QED BY <1>0, <1>5, <1>6, <1>8, <1>13, <2>1 DEF Core, DeviceOwnsItsResources
<1> QED
  BY <1>14, <1>15, <1>16, <1>17, <1>19, <1>20, <1>21, <1>22, <1>23, <1>24, <1>25, <1>26, <1>27
     DEF IInv

\* The dispatch reported is pending nowhere, so no packet of it is on the GPU.
LEMMA checkinCommsObjectInv == IInv /\ checkinCommsObject => IInv'
<1> SUFFICES ASSUME IInv, checkinCommsObject PROVE IInv'
  OBVIOUS
<1> USE DEF checkinCommsObject
<1>0. TypeOK /\ MutexHeld /\ Core /\ NoPendingSignalMissing /\ DestroyedLast
  BY IInvIsCore
<1>1. /\ comms' \in [Dispatches -> {"none", "live", "deleted", "abandoned"}]
      /\ \A d \in Dispatches \ reporting : comms'[d] = comms[d]
  BY <1>0 DEF TypeOK, TableTypes
<1>2. TypeOK'
  <2>1. (SignalTypes /\ SubmitTypes /\ DeviceTypes)'
    BY <1>0 DEF TypeOK, SignalTypes, SubmitTypes, DeviceTypes, Signals
  <2>2. (TableTypes /\ ThreadTypes)'
    BY <1>0, <1>1 DEF TypeOK, TableTypes, ThreadTypes, Signals
  <2> QED BY <2>1, <2>2 DEF TypeOK
<1>3. MutexHeld'
  <2>1. "none" \notin Queues /\ "runner" \notin Queues
    BY ConstantsAssumption DEF ConstantsAssumption
  <2> QED BY <1>0, <2>1 DEF MutexHeld
<1>4. DestroyedLast' /\ NoPendingSignalMissing'
  BY <1>0 DEF DestroyedLast, NoPendingSignalMissing
<1>5. OneOwner' /\ Armed'
  BY <1>0 DEF Core, OneOwner, Armed, Signals, InHand
<1>6. HandOK' /\ TodoDistinct' /\ KernargsMatch' /\ PendingOnce'
  BY <1>0 DEF Core, HandOK, TodoDistinct, KernargsMatch, PendingOnce, Signals
<1>7. TodoFresh'
  BY <1>0, <1>1 DEF Core, TodoFresh
<1>8. UnsubmittedClean'
  BY <1>0, <1>1 DEF Core, UnsubmittedClean
<1>9. DeviceOwnsItsResources'
  <2>1. \A d \in running : csig[d] # 0 => d \in Dispatches \ reporting
    BY <1>0 DEF Core, DeviceOwnsItsResources, PendingOnce, TypeOK, DeviceTypes
  <2> QED BY <1>0, <1>1, <2>1 DEF Core, DeviceOwnsItsResources
<1> QED
  BY <1>2, <1>3, <1>4, <1>5, <1>6, <1>7, <1>8, <1>9 DEF IInv

\* The destructor takes over the idle signals, none having been destroyed.
LEMMA DestroyInterceptorInv == IInv /\ DestroyInterceptor => IInv'
<1> SUFFICES ASSUME IInv, DestroyInterceptor PROVE IInv'
  OBVIOUS
<1> USE DEF DestroyInterceptor
<1>0. TypeOK /\ MutexHeld /\ Core /\ NoPendingSignalMissing /\ DestroyedLast
  BY IInvIsCore
<1>1. /\ destroyed = {} /\ InHand' = InHand /\ Signals' = Signals
      /\ Range(sig_pool_) \subseteq Signals
  BY <1>0 DEF DestroyedLast, InHand, Signals, Core, OneOwner
<1>2. sig_pool_' \in Seq(Nat) /\ IsInjective(sig_pool_') /\ Range(sig_pool_') = {}
  BY DEF IsInjective, Range
<1>3. TypeOK'
  <2>1. SignalTypes'
    BY <1>0, <1>1, <1>2 DEF TypeOK, SignalTypes
  <2>2. (TableTypes /\ SubmitTypes /\ DeviceTypes /\ ThreadTypes)'
    BY <1>0 DEF TypeOK, TableTypes, SubmitTypes, DeviceTypes, ThreadTypes, Signals
  <2> QED BY <2>1, <2>2 DEF TypeOK
<1>4. MutexHeld' /\ DestroyedLast' /\ NoPendingSignalMissing'
  BY <1>0 DEF MutexHeld, DestroyedLast, NoPendingSignalMissing
<1>5. OneOwner'
  BY <1>0, <1>1, <1>2 DEF Core, OneOwner
<1>6. Armed'
  BY <1>0, <1>1, <1>2 DEF Core, Armed
<1>7. HandOK' /\ TodoDistinct' /\ TodoFresh' /\ UnsubmittedClean'
  BY <1>0 DEF Core, HandOK, TodoDistinct, TodoFresh, UnsubmittedClean, Signals
<1>8. KernargsMatch' /\ PendingOnce' /\ DeviceOwnsItsResources'
  BY <1>0 DEF Core, KernargsMatch, PendingOnce, DeviceOwnsItsResources
<1> QED
  BY <1>3, <1>4, <1>5, <1>6, <1>7, <1>8 DEF IInv

-----------------------------------------------------------------------------
(* The theorems.                                                           *)

\* IInv is inductive: every step of every actor preserves it.
THEOREM IInvInductive == IInv /\ [Next]_vars => IInv'
<1> SUFFICES ASSUME IInv, [Next]_vars PROVE IInv'
  OBVIOUS
<1>1. ASSUME NEW q \in Queues, CreateQueue(q) PROVE IInv'
  BY <1>1, CreateQueueInv
<1>2. ASSUME NEW q \in Queues, NEW b \in Batches, OnSubmitPackets(q, b) PROVE IInv'
  BY <1>2, OnSubmitPacketsInv
<1>3. ASSUME NEW q \in Queues, NEW b \in Batches, SubmitUnhooked(q, b) PROVE IInv'
  BY <1>3, SubmitUnhookedInv
<1>4. ASSUME NEW q \in Queues, SubmitStep(q) PROVE IInv'
  <2>1. CASE WriteOther(q)
    BY <2>1, WriteOtherInv
  <2>2. CASE CountDispatch(q)
    BY <2>2, CountDispatchInv
  <2>3. CASE \E instr \in BOOLEAN : FixupPacket(q, instr)
    BY <2>3, FixupPacketInv
  <2>4. CASE FixupThrows(q)
    BY <2>4, FixupThrowsInv
  <2>5. CASE InsertPending(q)
    BY <2>5, InsertPendingInv
  <2>6. CASE WriteDispatch(q)
    BY <2>6, WriteDispatchInv
  <2> QED BY <1>4, <2>1, <2>2, <2>3, <2>4, <2>5, <2>6 DEF SubmitStep
<1>5. ASSUME NEW p \in Dispatches, GpuFinish(p) PROVE IInv'
  BY <1>5, GpuFinishInv
<1>6. ASSUME RunnerStep PROVE IInv'
  <2>1. CASE RunnerCheck \/ RunnerSleep
    BY <2>1, LoopInv
  <2>2. CASE getPendingSignals
    BY <2>2, SnapshotInv
  <2>3. ASSUME NEW s \in Signals, WaitTimesOut(s) PROVE IInv'
    BY <2>3, WaitTimesOutInv
  <2>4. ASSUME NEW s \in Signals, signalCompleted(s) PROVE IInv'
    BY <2>4, signalCompletedInv
  <2>5. CASE checkinCommsObject
    BY <2>5, checkinCommsObjectInv
  <2> QED BY <1>6, <2>1, <2>2, <2>3, <2>4, <2>5 DEF RunnerStep
<1>7. CASE ensure_shutdown \/ DrainPoll \/ DrainReturns
  BY <1>7, LoopInv
<1>8. CASE DestroyInterceptor
  BY <1>8, DestroyInterceptorInv
<1>9. CASE CleanupAgain \/ UNCHANGED vars
  BY <1>9, StutterInv DEF CleanupAgain
<1> QED
  BY <1>1, <1>2, <1>3, <1>4, <1>5, <1>6, <1>7, <1>8, <1>9 DEF Next, ExitStep

\* IInv holds in every reachable state, for every value of the constants.
THEOREM InductiveInvariance == Spec => []IInv
<1>1. Init => IInv
  BY InitIInv
<1>2. IInv /\ [Next]_vars => IInv'
  BY IInvInductive
<1> QED
  BY <1>1, <1>2, PTL DEF Spec

\* Every variable keeps its type: in particular a signal named by a table, a
\* snapshot or a packet has been created.
THEOREM TypeCorrect == Spec => []TypeOK
<1>1. IInv => TypeOK
  BY DEF IInv
<1> QED BY <1>1, InductiveInvariance, PTL

\* Signal recycling is sound: whatever the interleaving of the submitting
\* threads, the GPU and signal_runner, a pool signal has exactly one owner.
THEOREM SignalsHaveOneOwner == Spec => []OneOwner
<1>1. IInv => OneOwner
  BY DEF IInv
<1> QED BY <1>1, InductiveInvariance, PTL

\* signalCompleted frees nothing a kernel on the GPU still uses.
THEOREM NoUseAfterRetire == Spec => []DeviceOwnsItsResources
<1>1. IInv => DeviceOwnsItsResources
  BY DEF IInv
<1> QED BY <1>1, InductiveInvariance, PTL

\* The unlocked snapshot of getPendingSignals never sends signalCompleted to
\* its "a pending signal is missing" branch.
THEOREM StaleSnapshotHarmless == Spec => []NoPendingSignalMissing
<1>1. IInv => NoPendingSignalMissing
  BY DEF IInv
<1> QED BY <1>1, InductiveInvariance, PTL

-----------------------------------------------------------------------------
(* RetireInv.                                                              *)

\* Where each of the variables of RetireInv is spoken of.
trackVars == <<lost, kernargs, comms, pending_kernargs_, pending_signals_, reporting, pc, todo>>
appSideVars == <<submitted, finished, appval, todo>>
pendVars == <<pending_signals_, appval, running, csig, sigval, finished>>

\* The parts of RetireInv that a step leaves alone are preserved.
LEMMA TrackFrame == Tracked /\ UNCHANGED trackVars => Tracked'
  BY DEF Tracked, trackVars

\* The same for what the application sees of packets that wait.
LEMMA UnwrittenFrame == UnwrittenUnsignalled /\ UNCHANGED appSideVars => UnwrittenUnsignalled'
  BY DEF UnwrittenUnsignalled, appSideVars

\* The same for what runs.
LEMMA RunningFrame == RunningWritten /\ UNCHANGED <<running, finished, hw>> => RunningWritten'
  BY DEF RunningWritten

\* The same for what is pending.
LEMMA PendingFrame == PendingUnsignalled /\ UNCHANGED pendVars => PendingUnsignalled'
  BY DEF PendingUnsignalled, pendVars

\* Nothing has been submitted in the initial state.
LEMMA InitRetire == Init => RetireInv
  BY DEF Init, EmptyMap, RetireInv, ReportingOnce, Tracked, UnwrittenUnsignalled,
         RunningWritten, PendingUnsignalled

-----------------------------------------------------------------------------
(* Steps that neither hand anything out nor take it back.                  *)

\* Stuttering, the runner's waits and the drain loop preserve RetireInv.
LEMMA IdleRetire ==
    ASSUME RetireInv, MutexHeld,
           \/ UNCHANGED vars \/ RunnerCheck \/ RunnerSleep \/ getPendingSignals
           \/ ensure_shutdown \/ DrainPoll \/ DrainReturns \/ DestroyInterceptor
           \/ \E s \in Signals : WaitTimesOut(s)
    PROVE  RetireInv'
<1> USE DEF RunnerCheck, RunnerSleep, getPendingSignals, ensure_shutdown, DrainPoll,
            DrainReturns, DestroyInterceptor, WaitTimesOut, vars
<1>1. UNCHANGED <<trackVars, appSideVars, pendVars, hw>>
  BY DEF trackVars, appSideVars, pendVars
<1>2. Tracked' /\ UnwrittenUnsignalled' /\ RunningWritten' /\ PendingUnsignalled'
  BY <1>1, TrackFrame, UnwrittenFrame, RunningFrame, PendingFrame DEF RetireInv, pendVars
<1>3. ReportingOnce'
  BY DEF RetireInv, ReportingOnce
<1> QED
  BY <1>2, <1>3 DEF RetireInv

\* A queue is created or a dispatch counted: the thread is not inserting.
LEMMA CountRetire ==
    ASSUME NEW q \in Queues, IInv, RetireInv, CreateQueue(q) \/ CountDispatch(q)
    PROVE  RetireInv'
<1> USE DEF CreateQueue, CountDispatch
<1>1. UNCHANGED <<appSideVars, pendVars, hw, rpc, reporting>>
  BY DEF appSideVars, pendVars
<1>2. UnwrittenUnsignalled' /\ RunningWritten' /\ PendingUnsignalled' /\ ReportingOnce'
  BY <1>1, UnwrittenFrame, RunningFrame, PendingFrame DEF RetireInv, pendVars, ReportingOnce
<1>3. \A r \in Queues : pc'[r] = "insert" <=> pc[r] = "insert"
  BY IInvIsCore DEF TypeOK, SubmitTypes
<1>4. Tracked'
  BY <1>3 DEF RetireInv, Tracked
<1> QED
  BY <1>2, <1>4 DEF RetireInv

-----------------------------------------------------------------------------
(* Steps of the submitting threads.                                        *)

\* A batch that is submitted was with the application until now.
LEMMA SubmitRetire ==
    ASSUME NEW q \in Queues, NEW b \in Batches, IInv, RetireInv, OnSubmitPackets(q, b)
    PROVE  RetireInv'
<1> USE DEF OnSubmitPackets
<1>0. TypeOK /\ RunningWritten' /\ PendingUnsignalled' /\ ReportingOnce'
  BY IInvIsCore, RunningFrame, PendingFrame DEF RetireInv, pendVars, ReportingOnce
<1>1. /\ pc'[q] = "next" /\ todo'[q] = b
      /\ \A r \in Queues \ {q} : pc'[r] = pc[r] /\ todo'[r] = todo[r]
  BY <1>0 DEF TypeOK, SubmitTypes
<1>2. Tracked'
  BY <1>1 DEF RetireInv, Tracked
<1>3. UnwrittenUnsignalled'
  <2> SUFFICES ASSUME NEW r \in Queues, NEW i \in 1..Len(todo'[r]), todo'[r][i] \in Dispatches
               PROVE  todo'[r][i] \notin finished /\ appval[todo'[r][i]] = 1
    BY DEF RetireInv, UnwrittenUnsignalled
  <2>1. CASE r = q
    BY <1>1, <2>1, BatchFacts DEF RetireInv, UnwrittenUnsignalled
  <2>2. CASE r # q
    BY <1>1, <2>2 DEF RetireInv, UnwrittenUnsignalled
  <2> QED BY <2>1, <2>2
<1> QED
  BY <1>0, <1>2, <1>3 DEF RetireInv

\* A batch written by itself is on the hardware queue at once.
LEMMA UnhookedRetire ==
    ASSUME NEW q \in Queues, NEW b \in Batches, IInv, RetireInv, SubmitUnhooked(q, b)
    PROVE  RetireInv'
<1> USE DEF SubmitUnhooked
<1>0. TypeOK /\ Core
  BY IInvIsCore
<1>1. Tracked' /\ ReportingOnce'
  BY TrackFrame DEF trackVars, RetireInv, ReportingOnce
<1>2. UnwrittenUnsignalled'
  BY DEF RetireInv, UnwrittenUnsignalled
<1>3. /\ Len(hw[q]) \in Nat /\ Len(b) \in Nat
      /\ Len(hw'[q]) = Len(hw[q]) + Len(b)
      /\ \A i \in 1..Len(hw[q]) : hw'[q][i] = hw[q][i]
      /\ \A i \in 1..Len(b) : hw'[q][Len(hw[q]) + i] = b[i]
      /\ \A r \in Queues \ {q} : hw'[r] = hw[r]
  <2>1. hw[q] \in Seq(Packets) /\ b \in Seq(Packets) /\ hw'[q] = hw[q] \o b
    BY <1>0, BatchFacts DEF TypeOK, DeviceTypes
  <2>2. \A r \in Queues \ {q} : hw'[r] = hw[r]
    BY <1>0 DEF TypeOK, DeviceTypes
  <2> QED BY <2>1, <2>2, ConcatProperties
<1>4. RunningWritten'
  <2> SUFFICES ASSUME NEW p \in running'
               PROVE  /\ p \notin finished
                      /\ \E r \in Queues : \E i \in 1..Len(hw'[r]) : hw'[r][i] = p
    BY DEF RunningWritten
  <2>1. CASE p \in running
    <3>1. PICK r \in Queues : \E i \in 1..Len(hw[r]) : hw[r][i] = p
      BY <2>1 DEF RetireInv, RunningWritten
    <3>2. PICK i \in 1..Len(hw[r]) : hw[r][i] = p
      BY <3>1
    <3>3. i \in 1..Len(hw'[r]) /\ hw'[r][i] = p
      BY <1>3, <3>2
    <3> QED BY <2>1, <3>3 DEF RetireInv, RunningWritten
  <2>2. CASE p \notin running
    <3>1. p \in Range(b) /\ p \in Dispatches
      BY <2>2
    <3>2. PICK i \in 1..Len(b) : b[i] = p
      BY <3>1, BatchFacts DEF Range
    <3>3. Len(hw[q]) + i \in 1..Len(hw'[q]) /\ hw'[q][Len(hw[q]) + i] = p
      BY <1>3, <3>2
    <3>4. p \notin finished
      BY <3>1 DEF RetireInv, UnwrittenUnsignalled
    <3> QED BY <3>3, <3>4
  <2> QED BY <2>1, <2>2
<1>5. PendingUnsignalled'
  <2>1. \A s \in DOMAIN pending_signals_ : pending_signals_[s] \notin Range(b)
    BY <1>0 DEF Core, UnsubmittedClean, TypeOK, TableTypes
  <2> QED BY <2>1 DEF RetireInv, PendingUnsignalled
<1> QED
  BY <1>1, <1>2, <1>4, <1>5 DEF RetireInv

\* What the writer call appends is at the end of the hardware queue, the rest
\* stays where it is.
LEMMA WriteAppends ==
    ASSUME NEW q \in Queues, TypeOK, HandOK, pc[q] \in {"next", "write"}, Write(q)
    PROVE  /\ \E i \in 1..Len(hw'[q]) : hw'[q][i] = todo[q][1]
           /\ \A r \in Queues : \A i \in 1..Len(hw[r]) :
                 i \in 1..Len(hw'[r]) /\ hw'[r][i] = hw[r][i]
<1>1. todo[q][1] \in Packets /\ Head(todo[q]) = todo[q][1]
  BY WriteFacts
<1>2. hw[q] \in Seq(Packets) /\ hw'[q] = Append(hw[q], todo[q][1])
  BY <1>1 DEF Write, TypeOK, DeviceTypes
<1>3. \A r \in Queues \ {q} : hw'[r] = hw[r]
  BY DEF Write, TypeOK, DeviceTypes
<1>4. /\ Len(hw'[q]) = Len(hw[q]) + 1 /\ Len(hw[q]) \in Nat
      /\ hw'[q][Len(hw[q]) + 1] = todo[q][1]
      /\ \A i \in 1..Len(hw[q]) : hw'[q][i] = hw[q][i]
  BY <1>1, <1>2
<1> QED
  BY <1>3, <1>4

\* A packet that is no dispatch is written.
LEMMA WriteOtherRetire ==
    ASSUME NEW q \in Queues, IInv, RetireInv, WriteOther(q) PROVE RetireInv'
<1> USE DEF WriteOther
<1>0. TypeOK /\ HandOK /\ TodoDistinct
  BY DEF IInv
<1>1. PendingUnsignalled' /\ ReportingOnce'
  BY PendingFrame DEF RetireInv, pendVars, ReportingOnce
<1>2. \A r \in Queues : pc[r] = "insert" => pc'[r] = "insert" /\ todo'[r] = todo[r]
  BY <1>0, WriteFacts
<1>3. Tracked'
  BY <1>2 DEF RetireInv, Tracked
<1>4. UnwrittenUnsignalled'
  BY <1>0, WriteDistinct DEF RetireInv, UnwrittenUnsignalled
<1>5. RunningWritten'
  BY <1>0, WriteAppends DEF RetireInv, RunningWritten
<1> QED
  BY <1>1, <1>3, <1>4, <1>5 DEF RetireInv

\* A dispatch is written: it had not run before.
LEMMA WriteDispatchRetire ==
    ASSUME NEW q \in Queues, IInv, RetireInv, WriteDispatch(q) PROVE RetireInv'
<1> DEFINE p == todo[q][1]
<1> USE DEF WriteDispatch
<1>0. TypeOK /\ HandOK /\ TodoDistinct /\ TodoFresh /\ PendingOnce
  BY DEF IInv
<1>1. /\ Head(todo[q]) = p /\ p \in Dispatches /\ 1 \in 1..Len(todo[q])
      /\ hand[q] \in DOMAIN pending_signals_ /\ pending_signals_[hand[q]] = p
  BY <1>0, WriteFacts DEF HandOK
<1>2. /\ running' = running \cup {p} /\ csig'[p] = hand[q]
      /\ \A d \in Dispatches \ {p} : csig'[d] = csig[d]
  BY <1>0, <1>1 DEF TypeOK, DeviceTypes
<1>3. ReportingOnce'
  BY DEF RetireInv, ReportingOnce
<1>4. \A r \in Queues : pc[r] = "insert" => pc'[r] = "insert" /\ todo'[r] = todo[r]
  BY <1>0, WriteFacts
<1>5. Tracked'
  BY <1>4 DEF RetireInv, Tracked
<1>6. UnwrittenUnsignalled'
  BY <1>0, WriteDistinct DEF RetireInv, UnwrittenUnsignalled
<1>7. RunningWritten'
  <2>1. p \notin finished
    BY <1>1 DEF RetireInv, UnwrittenUnsignalled
  <2> QED BY <1>0, <1>2, <2>1, WriteAppends DEF RetireInv, RunningWritten
<1>8. PendingUnsignalled'
  <2> SUFFICES ASSUME NEW s \in DOMAIN pending_signals_, pending_signals_[s] \in running'
               PROVE  csig'[pending_signals_[s]] = s
    BY DEF RetireInv, PendingUnsignalled
  <2>1. CASE pending_signals_[s] = p
    BY <1>0, <1>1, <1>2, <2>1 DEF PendingOnce, IsInjective
  <2>2. CASE pending_signals_[s] # p
    BY <1>0, <1>2, <2>2 DEF RetireInv, PendingUnsignalled, TypeOK, TableTypes
  <2> QED BY <2>1, <2>2
<1> QED
  BY <1>3, <1>5, <1>6, <1>7, <1>8 DEF RetireInv

\* The signal fixupPacket pops is in no table: what it records under the
\* signal displaces nothing.
LEMMA FixupPacketRetire ==
    ASSUME NEW q \in Queues, NEW instr \in BOOLEAN, IInv, RetireInv, FixupPacket(q, instr)
    PROVE  RetireInv'
<1> DEFINE s == Grown[Len(Grown)]
           p == todo[q][1]
<1>0. TypeOK /\ OneOwner /\ KernargsMatch
  BY DEF IInv
<1>1. /\ Head(todo[q]) = p /\ p \in Dispatches /\ InHand = {}
      /\ \A r \in Queues : pc[r] # "insert"
  BY FixupFacts DEF FixupPacket
<1>2. /\ \A x \in Signals : sigval'[x] = sigval[x]
      /\ Range(sig_pool_') \cup {s} = Range(sig_pool_) \cup (Signals' \ Signals)
  BY <1>0, PopFacts DEF FixupPacket
<1>3. s \notin DOMAIN pending_kernargs_ /\ DOMAIN pending_signals_ \subseteq Signals
  <2>1. s \notin DOMAIN pending_signals_ /\ DOMAIN pending_signals_ \subseteq Signals
    BY <1>0, <1>2 DEF OneOwner, TypeOK, TableTypes
  <2> QED BY <1>0, <1>1, <2>1 DEF KernargsMatch
<1>4. UNCHANGED <<appVars, gpuVars, runVars, todo, pending_signals_, appval>>
  BY DEF FixupPacket
<1>5. pc'[q] = "insert"
  BY <1>0 DEF FixupPacket, TypeOK, SubmitTypes
<1>6. \/ UNCHANGED <<kernargs, comms, pending_kernargs_>>
      \/ /\ kernargs' = [kernargs EXCEPT ![p] = "live"]
         /\ comms' = [comms EXCEPT ![p] = "live"]
         /\ pending_kernargs_' = Put(pending_kernargs_, s, p)
  BY <1>1, Zenon DEF FixupPacket
<1>7. /\ \A d \in Dispatches \ {p} : kernargs'[d] = kernargs[d] /\ comms'[d] = comms[d]
      /\ kernargs'[p] = "live" => kernargs[p] = "live"
                                  \/ \E x \in DOMAIN pending_kernargs_' : pending_kernargs_'[x] = p
      /\ \A x \in DOMAIN pending_kernargs_ : x \in DOMAIN pending_kernargs_'
                                             /\ pending_kernargs_'[x] = pending_kernargs_[x]
  <2>1. CASE UNCHANGED <<kernargs, comms, pending_kernargs_>>
    BY <2>1
  <2>2. CASE /\ kernargs' = [kernargs EXCEPT ![p] = "live"]
             /\ comms' = [comms EXCEPT ![p] = "live"]
             /\ pending_kernargs_' = Put(pending_kernargs_, s, p)
    <3> HIDE DEF s, p
    <3>1. /\ DOMAIN pending_kernargs_' = DOMAIN pending_kernargs_ \cup {s}
          /\ pending_kernargs_'[s] = p
          /\ \A x \in DOMAIN pending_kernargs_ : pending_kernargs_'[x] = pending_kernargs_[x]
      BY <1>3, <2>2 DEF Put
    <3> QED BY <1>0, <2>2, <3>1 DEF TypeOK, TableTypes
  <2> QED BY <1>6, <2>1, <2>2
<1>8. Tracked'
  <2> SUFFICES ASSUME NEW d \in Dispatches \ lost
               PROVE  /\ kernargs'[d] = "live" =>
                            \E x \in DOMAIN pending_kernargs_' : pending_kernargs_'[x] = d
                      /\ comms'[d] = "live" =>
                            \/ d \in reporting
                            \/ \E x \in DOMAIN pending_signals_ : pending_signals_[x] = d
                            \/ \E r \in Queues : pc'[r] = "insert" /\ todo[r][1] = d
    BY <1>4 DEF Tracked
  <2>1. CASE d = p
    BY <1>5, <1>7, <2>1 DEF RetireInv, Tracked
  <2>2. CASE d # p
    BY <1>1, <1>7, <2>2 DEF RetireInv, Tracked
  <2> QED BY <2>1, <2>2
<1>9. UnwrittenUnsignalled' /\ RunningWritten' /\ ReportingOnce'
  BY <1>4, UnwrittenFrame, RunningFrame DEF RetireInv, appSideVars, ReportingOnce
<1>10. PendingUnsignalled'
  BY <1>2, <1>3, <1>4 DEF RetireInv, PendingUnsignalled
<1> QED
  BY <1>8, <1>9, <1>10 DEF RetireInv

\* An exception loses the batch, and with it what its head was given.
LEMMA FixupThrowsRetire ==
    ASSUME NEW q \in Queues, IInv, RetireInv, FixupThrows(q) PROVE RetireInv'
<1> DEFINE p == todo[q][1]
<1>0. TypeOK /\ OneOwner
  BY DEF IInv
<1>1. /\ Head(todo[q]) = p /\ p \in Dispatches /\ 1 \in 1..Len(todo[q])
      /\ \A r \in Queues : pc[r] # "insert"
  BY FixupFacts DEF FixupThrows
<1>2. \A x \in Signals : sigval'[x] = sigval[x]
  BY <1>0, PopFacts DEF FixupThrows
<1>3. todo'[q] = << >> /\ \A r \in Queues \ {q} : todo'[r] = todo[r]
  BY <1>0 DEF FixupThrows, TypeOK, SubmitTypes
<1>4. /\ UNCHANGED <<gpuVars, runVars, submitted, pending_signals_, pending_kernargs_, comms, appval>>
      /\ lost' = lost \cup Range(todo[q])
  BY DEF FixupThrows
<1>5. /\ p \in lost' /\ lost \subseteq lost'
      /\ \A d \in Dispatches \ {p} : kernargs'[d] = kernargs[d]
  <2>1. todo[q] \in Seq(Packets)
    BY <1>0 DEF TypeOK, SubmitTypes
  <2>2. p \in Range(todo[q])
    BY <1>1, <2>1 DEF Range
  <2> QED BY <1>0, <1>1, <1>4, <2>2 DEF FixupThrows, TypeOK, TableTypes
<1>6. Tracked'
  BY <1>1, <1>4, <1>5 DEF RetireInv, Tracked
<1>7. UnwrittenUnsignalled'
  BY <1>3, <1>4 DEF RetireInv, UnwrittenUnsignalled
<1>8. RunningWritten' /\ ReportingOnce'
  BY <1>4, RunningFrame DEF RetireInv, ReportingOnce
<1>9. PendingUnsignalled'
  BY <1>0, <1>2, <1>4 DEF RetireInv, PendingUnsignalled, TypeOK, TableTypes
<1> QED
  BY <1>6, <1>7, <1>8, <1>9 DEF RetireInv

\* The dispatch that is inserted is not on the GPU yet.
LEMMA InsertRetire ==
    ASSUME NEW q \in Queues, IInv, RetireInv, InsertPending(q) PROVE RetireInv'
<1> DEFINE s == hand[q]
           p == todo[q][1]
<1>0. TypeOK /\ MutexHeld /\ OneOwner /\ Armed /\ HandOK /\ TodoFresh
  BY DEF IInv
<1>1. /\ s \in Signals /\ p \in Dispatches /\ Head(todo[q]) = p /\ mutex_ = q
      /\ 1 \in 1..Len(todo[q])
  <2>1. todo[q] # << >> /\ todo[q] \in Seq(Packets) /\ pc[q] = "insert"
    BY <1>0 DEF HandOK, TypeOK, SubmitTypes, InsertPending
  <2> QED BY <1>0, <2>1 DEF HandOK, MutexHeld
<1>2. s \notin DOMAIN pending_signals_ /\ sigval[s] = 1
  <2>1. InHand = {s}
    BY <1>0, <1>1, InHandFacts
  <2> QED BY <1>0, <1>1, <2>1 DEF OneOwner, Armed
<1>3. /\ DOMAIN pending_signals_' = DOMAIN pending_signals_ \cup {s}
      /\ pending_signals_'[s] = p
      /\ \A x \in DOMAIN pending_signals_ : pending_signals_'[x] = pending_signals_[x]
  BY <1>1, <1>2 DEF Put, InsertPending
<1>4. \A r \in Queues \ {q} : pc[r] # "insert"
  BY <1>0, <1>1 DEF MutexHeld
<1>5. UNCHANGED <<poolVars, appVars, gpuVars, runVars, todo, pending_kernargs_, kernargs,
                  comms, sigval, appval>>
  BY DEF InsertPending
<1> HIDE DEF s
<1>6. Tracked'
  BY <1>3, <1>4, <1>5 DEF RetireInv, Tracked
<1>7. UnwrittenUnsignalled' /\ RunningWritten' /\ ReportingOnce'
  BY <1>5, UnwrittenFrame, RunningFrame DEF RetireInv, appSideVars, ReportingOnce
<1>8. PendingUnsignalled'
  <2>1. p \notin running
    BY <1>0, <1>1 DEF TodoFresh
  <2>2. appval[p] = 1
    BY <1>1 DEF RetireInv, UnwrittenUnsignalled
  <2> QED BY <1>2, <1>3, <1>5, <2>1, <2>2 DEF RetireInv, PendingUnsignalled
<1> QED
  BY <1>6, <1>7, <1>8 DEF RetireInv

-----------------------------------------------------------------------------
(* The GPU and the runner.                                                 *)

\* A kernel that ends with the application's own signal is pending nowhere;
\* one that ends with a pool signal is the one pending on it.
LEMMA GpuFinishRetire ==
    ASSUME NEW p \in Dispatches, IInv, RetireInv, GpuFinish(p) PROVE RetireInv'
<1> USE DEF GpuFinish
<1>0. /\ TypeOK /\ OneOwner /\ TodoFresh /\ UnsubmittedClean /\ DeviceOwnsItsResources
  BY DEF IInv
<1>1. Tracked' /\ ReportingOnce'
  BY TrackFrame DEF RetireInv, trackVars, ReportingOnce
<1>2. \A d \in Dispatches \ {p} : appval'[d] = appval[d]
  BY <1>0 DEF TypeOK, DeviceTypes
<1>3. UnwrittenUnsignalled'
  <2>1. p \in submitted /\ \A r \in Queues : \A i \in 1..Len(todo[r]) : todo[r][i] # p
    BY <1>0 DEF UnsubmittedClean, TodoFresh
  <2> QED BY <1>2, <2>1 DEF RetireInv, UnwrittenUnsignalled
<1>4. RunningWritten'
  BY DEF RetireInv, RunningWritten
<1>5. PendingUnsignalled'
  <2> SUFFICES ASSUME NEW s \in DOMAIN pending_signals_
               PROVE  /\ appval'[pending_signals_[s]] = 1
                      /\ pending_signals_[s] \in running' => csig[pending_signals_[s]] = s
                      /\ sigval'[s] = 0 => pending_signals_[s] \in finished'
    BY DEF PendingUnsignalled
  <2>1. /\ appval[pending_signals_[s]] = 1
        /\ pending_signals_[s] \in running => csig[pending_signals_[s]] = s
        /\ sigval[s] = 0 => pending_signals_[s] \in finished
        /\ pending_signals_[s] \in Dispatches /\ s \in Signals /\ s # 0
    BY <1>0 DEF RetireInv, PendingUnsignalled, TypeOK, TableTypes, Signals
  <2>2. CASE pending_signals_[s] = p
    BY <2>1, <2>2
  <2>3. CASE pending_signals_[s] # p
    <3>1. sigval'[s] = sigval[s]
      BY <1>0, <2>1, <2>3 DEF DeviceOwnsItsResources, TypeOK, SignalTypes, TableTypes
    <3> QED BY <1>2, <2>1, <2>3, <3>1
  <2> QED BY <2>2, <2>3
<1> QED
  BY <1>1, <1>3, <1>4, <1>5 DEF RetireInv

\* What signalCompleted does to the tables, once the signal is known to be
\* pending.
LEMMA CompletedFacts ==
    ASSUME NEW s \in Signals, IInv, signalCompleted(s)
    PROVE  LET p == pending_signals_[s] IN
           /\ s \in DOMAIN pending_signals_ /\ sigval[s] = 0 /\ rpc = "wait"
           /\ p \in Dispatches /\ \A x \in DOMAIN pending_signals_ \ {s} : pending_signals_[x] # p
           /\ s \in DOMAIN pending_kernargs_ => pending_kernargs_[s] = p
           /\ pending_signals_' = Erase(pending_signals_, s)
           /\ pending_kernargs_' = Erase(pending_kernargs_, s)
           /\ kernargs' = KernargsFreed(s)
           /\ sigval' = Rearmed(s)
           /\ appval' = Notified(p)
           /\ reporting' = {p} \cap {d \in Dispatches : comms[d] # "none"}
           /\ rpc' = IF reporting' = {} THEN "wait" ELSE "checkin"
           /\ UNCHANGED <<appVars, gpuVars, exitVars, qVars, comms>>
<1>0. TypeOK /\ MutexHeld /\ PendingOnce /\ KernargsMatch /\ NoPendingSignalMissing
  BY DEF IInv
<1>1. /\ s \in DOMAIN pending_signals_ /\ sigval[s] = 0 /\ rpc = "wait" /\ mutex_ = "none"
  BY <1>0 DEF signalCompleted, NoPendingSignalMissing
<1>2. \A r \in Queues : pc[r] # "insert"
  BY <1>0, <1>1, ConstantsAssumption DEF MutexHeld, ConstantsAssumption
<1>3. s \in DOMAIN pending_kernargs_ => pending_kernargs_[s] = pending_signals_[s]
  BY <1>0, <1>2 DEF KernargsMatch
<1>4. \A x \in DOMAIN pending_signals_ \ {s} : pending_signals_[x] # pending_signals_[s]
  BY <1>0, <1>1 DEF PendingOnce, IsInjective
<1>5. pending_signals_[s] \in Dispatches
  BY <1>0, <1>1 DEF TypeOK, TableTypes
<1> QED
  BY <1>1, <1>3, <1>4, <1>5 DEF signalCompleted

\* The runner frees and signals exactly the dispatch that was pending.
LEMMA CompletedRetire ==
    ASSUME NEW s \in Signals, IInv, RetireInv, signalCompleted(s) PROVE RetireInv'
<1> DEFINE p == pending_signals_[s]
<1>0. TypeOK /\ TodoFresh /\ HandOK /\ UnsubmittedClean
  BY DEF IInv
<1>1. /\ s \in DOMAIN pending_signals_ /\ sigval[s] = 0 /\ rpc = "wait"
      /\ p \in Dispatches /\ \A x \in DOMAIN pending_signals_ \ {s} : pending_signals_[x] # p
      /\ s \in DOMAIN pending_kernargs_ => pending_kernargs_[s] = p
      /\ pending_signals_' = Erase(pending_signals_, s)
      /\ pending_kernargs_' = Erase(pending_kernargs_, s)
      /\ kernargs' = KernargsFreed(s)
      /\ sigval' = Rearmed(s)
      /\ appval' = Notified(p)
      /\ reporting' = {p} \cap {d \in Dispatches : comms[d] # "none"}
      /\ rpc' = IF reporting' = {} THEN "wait" ELSE "checkin"
      /\ UNCHANGED <<appVars, gpuVars, exitVars, qVars, comms>>
  BY CompletedFacts
<1>2. /\ DOMAIN pending_signals_' = DOMAIN pending_signals_ \ {s}
      /\ \A x \in DOMAIN pending_signals_ \ {s} : pending_signals_'[x] = pending_signals_[x]
      /\ DOMAIN pending_kernargs_' = DOMAIN pending_kernargs_ \ {s}
      /\ \A x \in DOMAIN pending_kernargs_ \ {s} : pending_kernargs_'[x] = pending_kernargs_[x]
  BY <1>1 DEF Erase, Restrict
<1>3. /\ \A x \in Signals \ {s} : sigval'[x] = sigval[x]
      /\ \A d \in Dispatches \ {p} : appval'[d] = appval[d]
  BY <1>0, <1>1 DEF Rearmed, Notified, TypeOK, SignalTypes, DeviceTypes
<1>4. /\ \A d \in Dispatches \ {p} : kernargs'[d] = kernargs[d]
      /\ s \in DOMAIN pending_kernargs_ => kernargs'[p] = "freed"
      /\ s \notin DOMAIN pending_kernargs_ => kernargs' = kernargs
  BY <1>0, <1>1 DEF KernargsFreed, TypeOK, TableTypes
<1>5. ReportingOnce' /\ reporting = {}
  BY <1>1 DEF RetireInv, ReportingOnce
<1>6. comms[p] = "live" => p \in reporting'
  BY <1>1
<1> HIDE DEF p
<1>7. Tracked'
  BY <1>1, <1>2, <1>4, <1>5, <1>6 DEF RetireInv, Tracked, p
<1>8. p \in submitted /\ \A r \in Queues : \A i \in 1..Len(todo[r]) : todo[r][i] # p
  <2>1. p \in submitted
    BY <1>0, <1>1 DEF UnsubmittedClean, p
  <2>2. ASSUME NEW r \in Queues, NEW i \in 1..Len(todo[r]), todo[r][i] = p PROVE FALSE
    <3>1. i = 1 /\ pc[r] = "write"
      BY <1>0, <1>1, <2>2 DEF TodoFresh, p
    <3>2. hand[r] \in DOMAIN pending_signals_ /\ pending_signals_[hand[r]] = p /\ sigval[hand[r]] = 1
      BY <1>0, <2>2, <3>1 DEF HandOK
    <3> QED BY <1>1, <3>2
  <2> QED BY <2>1, <2>2
<1>9. UnwrittenUnsignalled'
  BY <1>1, <1>3, <1>8 DEF RetireInv, UnwrittenUnsignalled
<1>10. RunningWritten'
  BY <1>1, RunningFrame DEF RetireInv
<1>11. PendingUnsignalled'
  <2> SUFFICES ASSUME NEW x \in DOMAIN pending_signals_ \ {s}
               PROVE  /\ appval'[pending_signals_[x]] = 1
                      /\ pending_signals_[x] \in running => csig[pending_signals_[x]] = x
                      /\ sigval'[x] = 0 => pending_signals_[x] \in finished
    BY <1>1, <1>2 DEF PendingUnsignalled
  <2>1. x \in Signals /\ pending_signals_[x] \in Dispatches \ {p}
    BY <1>0, <1>1 DEF TypeOK, TableTypes
  <2> QED BY <1>3, <2>1 DEF RetireInv, PendingUnsignalled
<1> QED
  BY <1>5, <1>7, <1>9, <1>10, <1>11 DEF RetireInv

\* The comms object that is checked in is live no longer.
LEMMA CheckinRetire == IInv /\ RetireInv /\ checkinCommsObject => RetireInv'
<1> SUFFICES ASSUME IInv, RetireInv, checkinCommsObject PROVE RetireInv'
  OBVIOUS
<1> USE DEF checkinCommsObject
<1>1. UnwrittenUnsignalled' /\ RunningWritten' /\ PendingUnsignalled' /\ ReportingOnce'
  BY UnwrittenFrame, RunningFrame, PendingFrame
     DEF RetireInv, appSideVars, pendVars, ReportingOnce
<1>2. \A d \in Dispatches : comms'[d] = "live" => comms[d] = "live" /\ d \notin reporting
  OBVIOUS
<1>3. Tracked'
  BY <1>2 DEF RetireInv, Tracked
<1> QED
  BY <1>1, <1>3 DEF RetireInv

-----------------------------------------------------------------------------
(* What follows from RetireInv.                                            *)

\* Every step of every actor preserves RetireInv.
THEOREM RetireInductive == IInv /\ RetireInv /\ [Next]_vars => RetireInv'
<1> SUFFICES ASSUME IInv, RetireInv, [Next]_vars PROVE RetireInv'
  OBVIOUS
<1>0. MutexHeld
  BY DEF IInv
<1>1. ASSUME NEW q \in Queues, CreateQueue(q) PROVE RetireInv'
  BY <1>1, CountRetire
<1>2. ASSUME NEW q \in Queues, NEW b \in Batches, OnSubmitPackets(q, b) PROVE RetireInv'
  BY <1>2, SubmitRetire
<1>3. ASSUME NEW q \in Queues, NEW b \in Batches, SubmitUnhooked(q, b) PROVE RetireInv'
  BY <1>3, UnhookedRetire
<1>4. ASSUME NEW q \in Queues, SubmitStep(q) PROVE RetireInv'
  <2>1. CASE WriteOther(q)
    BY <2>1, WriteOtherRetire
  <2>2. CASE CountDispatch(q)
    BY <2>2, CountRetire
  <2>3. CASE \E instr \in BOOLEAN : FixupPacket(q, instr)
    BY <2>3, FixupPacketRetire
  <2>4. CASE FixupThrows(q)
    BY <2>4, FixupThrowsRetire
  <2>5. CASE InsertPending(q)
    BY <2>5, InsertRetire
  <2>6. CASE WriteDispatch(q)
    BY <2>6, WriteDispatchRetire
  <2> QED BY <1>4, <2>1, <2>2, <2>3, <2>4, <2>5, <2>6 DEF SubmitStep
<1>5. ASSUME NEW p \in Dispatches, GpuFinish(p) PROVE RetireInv'
  BY <1>5, GpuFinishRetire
<1>6. ASSUME NEW s \in Signals, signalCompleted(s) PROVE RetireInv'
  BY <1>6, CompletedRetire
<1>7. CASE checkinCommsObject
  BY <1>7, CheckinRetire
<1>8. CASE \/ UNCHANGED vars \/ RunnerCheck \/ RunnerSleep \/ getPendingSignals
           \/ ensure_shutdown \/ DrainPoll \/ DrainReturns \/ DestroyInterceptor
           \/ \E s \in Signals : WaitTimesOut(s)
  BY <1>0, <1>8, IdleRetire
<1>9. CASE CleanupAgain
  BY <1>8, <1>9 DEF CleanupAgain
<1> QED
  BY <1>1, <1>2, <1>3, <1>4, <1>5, <1>6, <1>7, <1>8, <1>9 DEF Next, ExitStep, RunnerStep

\* RetireInv holds in every reachable state, for every value of the constants:
\* signalCompleted finds what it has to free and signal, once.
THEOREM RetireInvariance == Spec => []RetireInv
<1>1. Init => RetireInv
  BY InitRetire
<1>2. IInv /\ RetireInv /\ [Next]_vars => RetireInv'
  BY RetireInductive
<1> QED
  BY <1>1, <1>2, InductiveInvariance, PTL DEF Spec

\* The whole invariant holds in every reachable state: what signalCompleted
\* frees is no longer used, and what is still used can be freed later.
THEOREM SystemInvariance == Spec => []SystemInv
BY InductiveInvariance, RetireInvariance, PTL DEF SystemInv

\* Nothing the tool handed to a dispatch outlives it: with no signal pending
\* and every thread idle, live kernargs would be kept for no signal and a
\* live comms object would belong to no one. (signalCompleted,
\* checkinCommsObject)
THEOREM EverythingGivenBack == Spec => []NothingLeftBehind
<1>1. IInv /\ RetireInv => NothingLeftBehind
  <2> SUFFICES ASSUME IInv, RetireInv, DOMAIN pending_signals_ = {}, reporting = {},
                      \A q \in Queues : pc[q] \in {"absent", "idle"},
                      NEW p \in Dispatches \ lost
               PROVE  kernargs[p] # "live" /\ comms[p] # "live"
    BY DEF NothingLeftBehind
  <2>1. \A q \in Queues : pc[q] # "insert"
    OBVIOUS
  <2>2. DOMAIN pending_kernargs_ = {}
    BY <2>1 DEF IInv, KernargsMatch
  <2> QED BY <2>1, <2>2 DEF RetireInv, Tracked
<1> QED BY <1>1, InductiveInvariance, RetireInvariance, PTL

-----------------------------------------------------------------------------
(* The interposed queues implement plain ones, step by step.               *)

\* The number of times the application's own signal was decremented.
decrements == [p \in Dispatches |-> 1 - appval[p]]

\* A decrement of the application's own signal is counted.
LEMMA DecrementCounted ==
    ASSUME NEW p \in Dispatches, appval \in [Dispatches -> Int],
           appval' = [appval EXCEPT ![p] = @ - 1]
    PROVE  decrements' = [decrements EXCEPT ![p] = @ + 1]
<1>1. \A d \in Dispatches : decrements'[d] = [decrements EXCEPT ![p] = @ + 1][d]
  BY DEF decrements
<1> QED BY <1>1 DEF decrements

\* A step that leaves what the application observes alone is a stutter.
LEMMA InvisibleStep == UNCHANGED <<todo, hw, finished, appval>> => UNCHANGED Transparent!vars
  BY DEF Transparent!vars

\* Handing a batch to the tool, or past it, is a submission.
LEMMA SubmissionSimulated ==
    ASSUME NEW q \in Queues, NEW b \in Batches, IInv,
           OnSubmitPackets(q, b) \/ SubmitUnhooked(q, b)
    PROVE  Transparent!Next
<1>1. todo[q] = << >>
  BY DEF IInv, HandOK, OnSubmitPackets, SubmitUnhooked
<1>2. CASE OnSubmitPackets(q, b)
  BY <1>1, <1>2 DEF OnSubmitPackets, Transparent!Next, Transparent!Submit
<1>3. CASE SubmitUnhooked(q, b)
  BY <1>1, <1>3 DEF SubmitUnhooked, Transparent!Next, Transparent!SubmitDirect
<1> QED BY <1>2, <1>3

\* The writer call forwards the head of the batch.
LEMMA WriteSimulated ==
    ASSUME NEW q \in Queues, IInv, WriteOther(q) \/ WriteDispatch(q)
    PROVE  Transparent!Next
<1>1. todo[q] # << >>
  BY DEF IInv, HandOK, WriteOther, WriteDispatch
<1>2. Write(q) /\ UNCHANGED <<finished, appval>>
  BY DEF WriteOther, WriteDispatch
<1> QED
  BY <1>1, <1>2 DEF Write, Transparent!Next, Transparent!Forward

\* The catch clause of doPackets drops the rest of the batch.
LEMMA ThrowSimulated ==
    ASSUME NEW q \in Queues, IInv, FixupThrows(q) PROVE Transparent!Next
<1>1. todo[q] # << >>
  BY DEF IInv, HandOK, FixupThrows
<1> QED
  BY <1>1 DEF FixupThrows, Transparent!Next, Transparent!Drop

\* A kernel that ends had been written and had not ended. Its own signal is
\* decremented with it only if the tool had not swapped it.
LEMMA FinishSimulated ==
    ASSUME NEW p \in Dispatches, IInv, RetireInv, GpuFinish(p) PROVE Transparent!Next
<1> USE DEF GpuFinish
<1>0. appval \in [Dispatches -> Int]
  BY DEF IInv, TypeOK, DeviceTypes
<1>1. Transparent!OnHardware(p) /\ p \notin finished
  BY DEF RetireInv, RunningWritten, Transparent!OnHardware
<1>2. \/ UNCHANGED appval
      \/ p \in Signalled /\ appval' = [appval EXCEPT ![p] = @ - 1]
  BY Zenon
<1>3. \/ UNCHANGED decrements
      \/ p \in Signalled /\ decrements' = [decrements EXCEPT ![p] = @ + 1]
  <2>1. CASE UNCHANGED appval
    BY <2>1 DEF decrements
  <2>2. CASE p \in Signalled /\ appval' = [appval EXCEPT ![p] = @ - 1]
    BY <1>0, <2>2, DecrementCounted
  <2> QED BY <1>2, <2>1, <2>2
<1>4. Transparent!End(p)
  BY <1>1, <1>3 DEF Transparent!End, decrements
<1> QED BY <1>4 DEF Transparent!Next

\* signalCompleted decrements the signal of a dispatch that has ended and was
\* not signalled, and of no other.
LEMMA RetireSimulated ==
    ASSUME NEW s \in Signals, IInv, RetireInv, signalCompleted(s)
    PROVE  Transparent!Next \/ UNCHANGED Transparent!vars
<1>0. appval \in [Dispatches -> Int]
  BY DEF IInv, TypeOK, DeviceTypes
<1>1. PICK p \in Dispatches : p = pending_signals_[s]
  BY CompletedFacts
<1>2. /\ s \in DOMAIN pending_signals_ /\ sigval[s] = 0
      /\ appval' = Notified(p)
      /\ UNCHANGED <<todo, hw, finished>>
  BY <1>1, CompletedFacts
<1>3. p \in finished /\ appval[p] = 1
  BY <1>1, <1>2 DEF RetireInv, PendingUnsignalled
<1>4. CASE p \in Signalled
  <2>1. appval' = [appval EXCEPT ![p] = @ - 1] /\ decrements[p] = 0
    BY <1>2, <1>3, <1>4 DEF Notified, decrements
  <2>2. decrements' = [decrements EXCEPT ![p] = @ + 1]
    BY <1>0, <2>1, DecrementCounted
  <2>3. decrements' = [decrements EXCEPT ![p] = 1]
    BY <2>1, <2>2
  <2>4. Transparent!Signal(p)
    BY <1>2, <1>3, <1>4, <2>1, <2>3 DEF Transparent!Signal, decrements
  <2> QED BY <2>4 DEF Transparent!Next
<1>5. CASE p \notin Signalled
  BY <1>2, <1>5, InvisibleStep DEF Notified
<1> QED BY <1>4, <1>5

\* Every other step is invisible to the application.
LEMMA OtherStepsInvisible ==
    ASSUME \/ UNCHANGED vars \/ RunnerCheck \/ RunnerSleep \/ getPendingSignals
           \/ ensure_shutdown \/ DrainPoll \/ DrainReturns \/ DestroyInterceptor
           \/ checkinCommsObject \/ CleanupAgain
           \/ \E s \in Signals : WaitTimesOut(s)
           \/ \E q \in Queues : CreateQueue(q) \/ CountDispatch(q) \/ InsertPending(q)
           \/ \E q \in Queues : \E instr \in BOOLEAN : FixupPacket(q, instr)
    PROVE  UNCHANGED Transparent!vars
<1>1. UNCHANGED <<todo, hw, finished, appval>>
  BY DEF RunnerCheck, RunnerSleep, getPendingSignals, ensure_shutdown, DrainPoll, DrainReturns,
         DestroyInterceptor, checkinCommsObject, CleanupAgain, WaitTimesOut, CreateQueue,
         CountDispatch, InsertPending, FixupPacket, vars
<1> QED BY <1>1, InvisibleStep

\* Every step of the interceptor, its threads and the GPU is a step of the
\* plain queues or none.
THEOREM StepSimulated ==
    IInv /\ RetireInv /\ [Next]_vars => [Transparent!Next]_(Transparent!vars)
<1> SUFFICES ASSUME IInv, RetireInv, [Next]_vars
             PROVE  Transparent!Next \/ UNCHANGED Transparent!vars
  OBVIOUS
<1>1. ASSUME NEW q \in Queues, NEW b \in Batches, OnSubmitPackets(q, b) \/ SubmitUnhooked(q, b)
      PROVE  Transparent!Next
  BY <1>1, SubmissionSimulated
<1>2. ASSUME NEW q \in Queues, WriteOther(q) \/ WriteDispatch(q) PROVE Transparent!Next
  BY <1>2, WriteSimulated
<1>3. ASSUME NEW q \in Queues, FixupThrows(q) PROVE Transparent!Next
  BY <1>3, ThrowSimulated
<1>4. ASSUME NEW p \in Dispatches, GpuFinish(p) PROVE Transparent!Next
  BY <1>4, FinishSimulated
<1>5. ASSUME NEW s \in Signals, signalCompleted(s)
      PROVE  Transparent!Next \/ UNCHANGED Transparent!vars
  BY <1>5, RetireSimulated
<1>6. CASE \/ UNCHANGED vars \/ RunnerCheck \/ RunnerSleep \/ getPendingSignals
           \/ ensure_shutdown \/ DrainPoll \/ DrainReturns \/ DestroyInterceptor
           \/ checkinCommsObject \/ CleanupAgain
           \/ \E s \in Signals : WaitTimesOut(s)
           \/ \E q \in Queues : CreateQueue(q) \/ CountDispatch(q) \/ InsertPending(q)
           \/ \E q \in Queues : \E instr \in BOOLEAN : FixupPacket(q, instr)
  BY <1>6, OtherStepsInvisible
<1> QED
  BY <1>1, <1>2, <1>3, <1>4, <1>5, <1>6 DEF Next, SubmitStep, ExitStep, RunnerStep

\* The intercept queues implement plain HSA queues, for every number of queues,
\* packets and batches: interposing the tool on a queue (OnSubmitPackets,
\* doPackets, signalCompleted) is invisible to the application.
THEOREM Transparency == Spec => TransparentQueue
<1>1. Init => Transparent!Init
  BY DEF Init, Transparent!Init
<1>2. IInv /\ RetireInv /\ [Next]_vars => [Transparent!Next]_(Transparent!vars)
  BY StepSimulated
<1> QED
  BY <1>1, <1>2, InductiveInvariance, RetireInvariance, PTL
     DEF Spec, TransparentQueue, Transparent!Spec

-----------------------------------------------------------------------------
(* The kernel arguments.                                                   *)

Size == {1, 2, 4, 8}

-----------------------------------------------------------------------------
(* Alignment.                                                              *)

\* An aligned offset is the next multiple.
LEMMA AlignFacts ==
    ASSUME NEW n \in Nat, NEW a \in Size
    PROVE  AlignUp(n, a) \in Nat /\ n <= AlignUp(n, a)
<1>1. CASE a = 8
  BY <1>1 DEF AlignUp
<1>2. CASE a = 4
  BY <1>2 DEF AlignUp
<1>3. CASE a = 2
  BY <1>3 DEF AlignUp
<1>4. CASE a = 1
  BY <1>4 DEF AlignUp
<1> QED BY <1>1, <1>2, <1>3, <1>4 DEF Size

\* roundArgsLength aligns to words.
LEMMA AlignedTo8 ==
    ASSUME NEW n \in Nat
    PROVE  /\ AlignUp(n, 8) % 8 = 0 /\ AlignUp(n, 4) <= AlignUp(n, 8)
           /\ n % 8 = 0 => AlignUp(n, 8) = n /\ AlignUp(n, 4) = n
           /\ roundArgsLength(n) = AlignUp(n, 8)
BY DEF AlignUp, roundArgsLength, ARG_ALIGN

-----------------------------------------------------------------------------
(* The recursion that lays the arguments out.                              *)

\* g lays out the first n arguments of ss.
Lays(g, ss, n) ==
    /\ g \in [0..n -> Nat] /\ g[0] = 0
    /\ \A i \in 1..n : g[i] = AlignUp(g[i - 1], ss[i]) + ss[i]

\* There is a layout for any number of arguments.
LEMMA LayoutExists ==
    ASSUME NEW ss \in Seq(Size)
    PROVE  \E g : Lays(g, ss, Len(ss))
<1> DEFINE S == {n \in Nat : n <= Len(ss) => \E g : Lays(g, ss, n)}
<1>1. 0 \in S
  <2>1. Lays([i \in 0..0 |-> 0], ss, 0)
    BY DEF Lays
  <2> QED BY <2>1
<1>2. ASSUME NEW n \in S PROVE n + 1 \in S
  <2> SUFFICES ASSUME n + 1 <= Len(ss) PROVE \E g : Lays(g, ss, n + 1)
    OBVIOUS
  <2>1. PICK g : Lays(g, ss, n)
    OBVIOUS
  <2> DEFINE x == AlignUp(g[n], ss[n + 1]) + ss[n + 1]
             h == [i \in 0..(n + 1) |-> IF i = n + 1 THEN x ELSE g[i]]
  <2>2. n \in Nat /\ n + 1 \in 1..Len(ss) /\ ss[n + 1] \in Size /\ g[n] \in Nat
    BY <2>1 DEF Lays
  <2>3. x \in Nat
    <3>1. AlignUp(g[n], ss[n + 1]) \in Nat
      BY <2>2, AlignFacts
    <3>2. ss[n + 1] \in Nat
      BY <2>2 DEF Size
    <3> QED BY <3>1, <3>2
  <2> HIDE DEF x
  <2>4. h \in [0..(n + 1) -> Nat] /\ h[0] = 0 /\ h[n + 1] = x /\ \A i \in 0..n : h[i] = g[i]
    BY <2>1, <2>3 DEF Lays
  <2>5. \A i \in 1..(n + 1) : h[i] = AlignUp(h[i - 1], ss[i]) + ss[i]
    BY <2>1, <2>4 DEF Lays, x
  <2> QED BY <2>4, <2>5 DEF Lays
<1> HIDE DEF S
<1>3. S = Nat
  <2>1. S \in SUBSET Nat
    BY DEF S
  <2> QED BY <1>1, <1>2, <2>1, SetInduction
<1>4. Len(ss) \in S
  BY <1>3
<1> QED BY <1>4 DEF S

\* Two layouts of arguments that begin alike begin alike.
LEMMA LayoutUnique ==
    ASSUME NEW g, NEW h, NEW ss, NEW tt, NEW n \in Nat, Lays(g, ss, n),
           DOMAIN h = 0..n, h[0] = 0,
           \A i \in 1..n : ss[i] = tt[i] /\ h[i] = AlignUp(h[i - 1], tt[i]) + tt[i]
    PROVE  \A i \in 0..n : g[i] = h[i]
<1> DEFINE S == {i \in Nat : i <= n => g[i] = h[i]}
<1>1. 0 \in S
  BY DEF Lays
<1>2. ASSUME NEW i \in S PROVE i + 1 \in S
  BY <1>2 DEF Lays
<1> HIDE DEF S
<1>3. S = Nat
  <2>1. S \in SUBSET Nat
    BY DEF S
  <2> QED BY <1>1, <1>2, <2>1, SetInduction
<1> QED BY <1>3 DEF S

\* ArgEnds is the layout.
LEMMA EndsLay == ASSUME NEW ss \in Seq(Size) PROVE Lays(ArgEnds(ss), ss, Len(ss))
<1> DEFINE e == ArgEnds(ss)
           n == Len(ss)
<1>1. PICK g : Lays(g, ss, n)
  BY LayoutExists
<1>2. g = [i \in 0..n |-> IF i = 0 THEN 0 ELSE AlignUp(g[i - 1], ss[i]) + ss[i]]
  BY <1>1 DEF Lays
<1>3. e = [i \in 0..n |-> IF i = 0 THEN 0 ELSE AlignUp(e[i - 1], ss[i]) + ss[i]]
  BY <1>2 DEF ArgEnds
<1> HIDE DEF e
<1>4. n \in Nat /\ DOMAIN e = 0..n /\ e[0] = 0 /\ \A i \in 1..n : e[i] = AlignUp(e[i - 1], ss[i]) + ss[i]
  BY <1>3
<1>5. \A i \in 0..n : g[i] = e[i]
  BY <1>1, <1>4, LayoutUnique
<1>6. e = g
  BY <1>1, <1>3, <1>5 DEF Lays
<1> QED BY <1>1, <1>6 DEF e
-----------------------------------------------------------------------------
(* Offsets.                                                                *)

\* The ends, argument by argument.
LEMMA EndFacts ==
    ASSUME NEW ss \in Seq(Size)
    PROVE  /\ ArgEnds(ss)[0] = 0 /\ ArgEnd(ss) \in Nat
           /\ \A i \in 0..Len(ss) : ArgEnds(ss)[i] \in Nat
           /\ \A i \in 1..Len(ss) :
                 /\ ss[i] \in Size
                 /\ ArgEnds(ss)[i] = AlignUp(ArgEnds(ss)[i - 1], ss[i]) + ss[i]
<1>1. Len(ss) \in Nat /\ Lays(ArgEnds(ss), ss, Len(ss))
  BY EndsLay
<1> QED BY <1>1 DEF Lays, ArgEnd

\* Arguments that begin alike end alike.
LEMMA SamePrefix ==
    ASSUME NEW ss \in Seq(Size), NEW tt \in Seq(Size), NEW n \in 0..Len(ss), n <= Len(tt),
           \A i \in 1..n : ss[i] = tt[i]
    PROVE  ArgEnds(ss)[n] = ArgEnds(tt)[n]
<1> DEFINE S == {i \in Nat : i <= n => ArgEnds(ss)[i] = ArgEnds(tt)[i]}
<1>1. 0 \in S
  BY EndFacts
<1>2. ASSUME NEW i \in S PROVE i + 1 \in S
  <2> SUFFICES ASSUME i + 1 <= n PROVE ArgEnds(ss)[i + 1] = ArgEnds(tt)[i + 1]
    OBVIOUS
  <2>1. /\ i \in Nat /\ n \in Nat /\ Len(ss) \in Nat /\ Len(tt) \in Nat
        /\ ArgEnds(ss)[i] = ArgEnds(tt)[i] /\ ss[i + 1] = tt[i + 1]
    OBVIOUS
  <2>2. i + 1 \in 1..Len(ss) /\ i + 1 \in 1..Len(tt) /\ (i + 1) - 1 = i
    BY <2>1
  <2>3. /\ ArgEnds(ss)[i + 1] = AlignUp(ArgEnds(ss)[(i + 1) - 1], ss[i + 1]) + ss[i + 1]
        /\ ArgEnds(tt)[i + 1] = AlignUp(ArgEnds(tt)[(i + 1) - 1], tt[i + 1]) + tt[i + 1]
    BY <2>2, EndFacts
  <2> QED BY <2>1, <2>2, <2>3
<1> HIDE DEF S
<1>3. S = Nat
  <2>1. S \in SUBSET Nat
    BY DEF S
  <2> QED BY <1>1, <1>2, <2>1, SetInduction
<1>4. n \in S
  BY <1>3
<1> QED BY <1>4 DEF S

\* The i-th argument lies before the place where it ends, after all of those
\* before it.
LEMMA OffsetFacts ==
    ASSUME NEW ss \in Seq(Size), NEW i \in 1..Len(ss)
    PROVE  /\ ArgOffset(ss, i) = ArgEnds(ss)[i] - ss[i]
           /\ ArgOffset(ss, i) \in Nat /\ ArgEnds(ss)[i - 1] <= ArgOffset(ss, i)
<1> DEFINE tt == SubSeq(ss, 1, i)
<1>1. tt \in Seq(Size) /\ Len(tt) = i /\ i \in Nat /\ \A j \in 1..i : ss[j] = tt[j]
  OBVIOUS
<1> HIDE DEF tt
<1>2. ArgEnds(ss)[i] = ArgEnds(tt)[i]
  BY <1>1, SamePrefix
<1>3. ArgOffset(ss, i) = ArgEnds(ss)[i] - ss[i]
  BY <1>1, <1>2 DEF ArgOffset, ArgEnd, tt
<1>4. /\ ArgEnds(ss)[i] = AlignUp(ArgEnds(ss)[i - 1], ss[i]) + ss[i]
      /\ ss[i] \in Size /\ ArgEnds(ss)[i - 1] \in Nat
  BY EndFacts
<1>5. /\ AlignUp(ArgEnds(ss)[i - 1], ss[i]) \in Nat
      /\ ArgEnds(ss)[i - 1] <= AlignUp(ArgEnds(ss)[i - 1], ss[i])
  BY <1>4, AlignFacts
<1>6. ss[i] \in Nat
  BY <1>4 DEF Size
<1> QED BY <1>3, <1>4, <1>5, <1>6

\* The ends are in the order of the arguments.
LEMMA EndsOrdered ==
    ASSUME NEW ss \in Seq(Size), NEW i \in 0..Len(ss), NEW j \in 0..Len(ss), i <= j
    PROVE  ArgEnds(ss)[i] <= ArgEnds(ss)[j]
<1> DEFINE S == {k \in Nat : i + k <= Len(ss) => ArgEnds(ss)[i] <= ArgEnds(ss)[i + k]}
<1>0. /\ i \in Nat /\ j \in Nat /\ Len(ss) \in Nat
      /\ \A k \in 0..Len(ss) : ArgEnds(ss)[k] \in Nat
  BY EndFacts
<1>1. 0 \in S
  BY <1>0
<1>2. ASSUME NEW k \in S PROVE k + 1 \in S
  <2> SUFFICES ASSUME i + (k + 1) <= Len(ss) PROVE ArgEnds(ss)[i] <= ArgEnds(ss)[i + (k + 1)]
    OBVIOUS
  <2> DEFINE m == i + (k + 1)
  <2>1. k \in Nat /\ m \in 1..Len(ss) /\ m - 1 = i + k /\ i + k \in 0..Len(ss)
    BY <1>0
  <2>2. ArgEnds(ss)[i] <= ArgEnds(ss)[i + k]
    BY <1>0, <2>1
  <2> HIDE DEF m
  <2>3. ArgEnds(ss)[m - 1] <= ArgEnds(ss)[m] - ss[m] /\ ss[m] \in Size
    BY <2>1, OffsetFacts, EndFacts
  <2>4. ss[m] \in Nat /\ ArgEnds(ss)[m] \in Nat /\ ArgEnds(ss)[i + k] \in Nat /\ ArgEnds(ss)[i] \in Nat
    BY <1>0, <2>1, <2>3 DEF Size
  <2>5. ArgEnds(ss)[i] <= ArgEnds(ss)[m]
    BY <2>1, <2>2, <2>3, <2>4
  <2> QED BY <2>5 DEF m
<1> HIDE DEF S
<1>3. S = Nat
  <2>1. S \in SUBSET Nat
    BY DEF S
  <2> QED BY <1>1, <1>2, <2>1, SetInduction
<1>4. j - i \in S /\ i + (j - i) = j
  BY <1>0, <1>3
<1> QED BY <1>0, <1>4 DEF S
-----------------------------------------------------------------------------
(* What the application's segment holds.                                   *)

\* The bytes of argument i.
Place(ss, i) == ArgOffset(ss, i)..(ArgOffset(ss, i) + ss[i] - 1)

\* No two arguments overlap, and all lie before the hidden ones.
LEMMA PlacesDisjoint ==
    ASSUME NEW ss \in Seq(Size), NEW i \in 1..Len(ss), NEW o \in Place(ss, i)
    PROVE  /\ o \in Nat /\ o < HiddenOffset(ss)
           /\ \A j \in 1..Len(ss) : o \in Place(ss, j) => i = j
<1>1. Len(ss) \in Nat /\ \A j \in 0..Len(ss) : ArgEnds(ss)[j] \in Nat
  BY EndFacts
<1>2. \A j \in 1..Len(ss) : ss[j] \in Nat
  BY EndFacts DEF Size
<1>3. ASSUME NEW j \in 1..Len(ss), o \in Place(ss, j)
      PROVE  o \in Nat /\ ArgEnds(ss)[j - 1] <= o /\ o < ArgEnds(ss)[j]
  <2>1. /\ ArgOffset(ss, j) = ArgEnds(ss)[j] - ss[j] /\ ArgOffset(ss, j) \in Nat
        /\ ArgEnds(ss)[j - 1] <= ArgOffset(ss, j)
    BY OffsetFacts
  <2>2. ArgEnds(ss)[j - 1] \in Nat /\ ArgEnds(ss)[j] \in Nat /\ ss[j] \in Nat
    BY <1>1, <1>2
  <2>3. o \in ArgOffset(ss, j)..(ArgOffset(ss, j) + ss[j] - 1)
    BY <1>3 DEF Place
  <2> QED BY <2>1, <2>2, <2>3
<1>4. o \in Nat /\ ArgEnds(ss)[i - 1] <= o /\ o < ArgEnds(ss)[i]
  BY <1>3
<1>5. o < HiddenOffset(ss)
  <2>1. ArgEnds(ss)[i] <= ArgEnd(ss) /\ ArgEnd(ss) \in Nat
    BY <1>1, EndsOrdered, EndFacts DEF ArgEnd
  <2>2. HiddenOffset(ss) \in Nat /\ ArgEnd(ss) <= HiddenOffset(ss)
    BY <2>1, AlignFacts DEF HiddenOffset, Size
  <2> QED BY <1>1, <1>4, <2>1, <2>2
<1>6. ASSUME NEW j \in 1..Len(ss), o \in Place(ss, j) PROVE i = j
  <2>1. ArgEnds(ss)[j - 1] <= o /\ o < ArgEnds(ss)[j]
    BY <1>3, <1>6
  <2>2. CASE i < j
    <3>1. ArgEnds(ss)[i] <= ArgEnds(ss)[j - 1]
      BY <1>1, <2>2, EndsOrdered
    <3> QED BY <1>1, <1>4, <2>1, <3>1
  <2>3. CASE j < i
    <3>1. ArgEnds(ss)[j] <= ArgEnds(ss)[i - 1]
      BY <1>1, <2>3, EndsOrdered
    <3> QED BY <1>1, <1>4, <2>1, <3>1
  <2> QED BY <2>2, <2>3
<1> QED BY <1>4, <1>5, <1>6

\* The application's segment holds each argument at its offset.
LEMMA ArgumentBytes ==
    ASSUME NEW ss \in Seq(Size), NEW h, NEW i \in 1..Len(ss), NEW k \in Nat, k < ss[i]
    PROVE  /\ SrcByte(ss, h, ArgOffset(ss, i) + k) = ArgByte(i, k)
           /\ ArgOffset(ss, i) + k \in Nat /\ ArgOffset(ss, i) + k < HiddenOffset(ss)
<1> DEFINE o == ArgOffset(ss, i) + k
<1>1. ArgOffset(ss, i) \in Nat /\ ss[i] \in Nat
  BY OffsetFacts, EndFacts DEF Size
<1>2. o \in Place(ss, i) /\ o - ArgOffset(ss, i) = k
  BY <1>1 DEF Place
<1> HIDE DEF o
<1>3. o < HiddenOffset(ss) /\ \A j \in 1..Len(ss) : o \in Place(ss, j) => i = j
  BY <1>2, PlacesDisjoint
<1>4. (CHOOSE j \in 1..Len(ss) : o \in Place(ss, j)) = i
  BY <1>2, <1>3
<1>5. SrcByte(ss, h, o) = ArgByte(i, o - ArgOffset(ss, i))
  BY <1>2, <1>4 DEF SrcByte, Place
<1> QED BY <1>1, <1>2, <1>3, <1>5 DEF o

\* The application's segment holds the hidden arguments after the others.
LEMMA HiddenBytes ==
    ASSUME NEW ss \in Seq(Size), NEW h \in Nat, NEW k \in Nat, k < h
    PROVE  SrcByte(ss, h, HiddenOffset(ss) + k) = HiddenByte(k)
<1> DEFINE o == HiddenOffset(ss) + k
<1>1. HiddenOffset(ss) \in Nat
  BY EndFacts, AlignFacts DEF HiddenOffset, Size
<1>2. o \in HiddenOffset(ss)..(HiddenOffset(ss) + h - 1) /\ o - HiddenOffset(ss) = k /\ h # 0
      /\ ~(o < HiddenOffset(ss))
  BY <1>1
<1> HIDE DEF o
<1>3. ~\E i \in 1..Len(ss) : o \in Place(ss, i)
  BY <1>2, PlacesDisjoint
<1> QED BY <1>2, <1>3 DEF SrcByte, Place, o

-----------------------------------------------------------------------------
(* The clone and its descriptor.                                           *)

\* The clone keeps the original's arguments where they were, its pointer is
\* where the original's hidden arguments begin, and its own begin after it.
LEMMA CloneLayout ==
    ASSUME NEW ss \in Seq(Size)
    PROVE  LET cc == CloneSizes(ss)
           IN  /\ \A i \in 1..Len(ss) : ArgOffset(cc, i) = ArgOffset(ss, i)
               /\ ArgOffset(cc, Len(ss) + 1) = HiddenOffset(ss)
               /\ ArgEnd(cc) = HiddenOffset(ss) + 8 /\ HiddenOffset(cc) = HiddenOffset(ss) + 8
               /\ HiddenOffset(ss) \in Nat /\ HiddenOffset(ss) % 8 = 0
<1> DEFINE cc == CloneSizes(ss)
           n == Len(ss)
<1>1. /\ cc \in Seq(Size) /\ n \in Nat /\ Len(cc) = n + 1 /\ cc[n + 1] = 8
      /\ \A i \in 1..n : cc[i] = ss[i]
  BY DEF CloneSizes, PtrSize, Size
<1>2. HiddenOffset(ss) \in Nat /\ HiddenOffset(ss) % 8 = 0
  BY EndFacts, AlignFacts, AlignedTo8 DEF HiddenOffset, Size
<1> HIDE DEF cc
<1>3. \A i \in 0..n : ArgEnds(cc)[i] = ArgEnds(ss)[i]
  BY <1>1, SamePrefix
<1>4. ASSUME NEW i \in 1..n PROVE ArgOffset(cc, i) = ArgOffset(ss, i)
  <2>1. i \in 1..Len(cc) /\ cc[i] = ss[i] /\ ArgEnds(cc)[i] = ArgEnds(ss)[i]
    BY <1>1, <1>3
  <2>2. ArgOffset(cc, i) = ArgEnds(cc)[i] - cc[i] /\ ArgOffset(ss, i) = ArgEnds(ss)[i] - ss[i]
    BY <1>1, <2>1, OffsetFacts
  <2> QED BY <2>1, <2>2
<1>5. ArgEnds(cc)[n + 1] = HiddenOffset(ss) + 8
  <2>1. n + 1 \in 1..Len(cc) /\ (n + 1) - 1 = n
    BY <1>1
  <2>2. ArgEnds(cc)[n + 1] = AlignUp(ArgEnds(cc)[(n + 1) - 1], cc[n + 1]) + cc[n + 1]
    BY <1>1, <2>1, EndFacts
  <2> QED BY <1>1, <1>3, <2>1, <2>2 DEF HiddenOffset, ArgEnd
<1>6. ArgOffset(cc, n + 1) = HiddenOffset(ss)
  <2>1. ArgOffset(cc, n + 1) = ArgEnds(cc)[n + 1] - cc[n + 1]
    BY <1>1, OffsetFacts
  <2> QED BY <1>1, <1>2, <1>5, <2>1
<1>7. ArgEnd(cc) = HiddenOffset(ss) + 8
  BY <1>1, <1>5 DEF ArgEnd
<1>8. HiddenOffset(cc) = HiddenOffset(ss) + 8
  BY <1>2, <1>7, AlignedTo8 DEF HiddenOffset
<1> QED BY <1>2, <1>4, <1>6, <1>7, <1>8 DEF cc

\* What getArgDescriptor computes.
LEMMA DescriptorFacts ==
    ASSUME NEW ss \in Seq(Size), NEW h \in Nat, NEW ch \in Nat, h % 8 = 0, ch % 8 = 0
    PROVE  LET d == getArgDescriptor(ss, h, ch)
           IN  /\ d.explicit_args_length = HiddenOffset(ss) + 8
               /\ d.kernarg_length = HiddenOffset(ss) + 8 + ch
               /\ d.clone_hidden_args_length = h
<1> DEFINE cc == CloneSizes(ss)
<1>1. /\ ArgEnd(cc) = HiddenOffset(ss) + 8 /\ HiddenOffset(cc) = HiddenOffset(ss) + 8
      /\ HiddenOffset(ss) \in Nat /\ HiddenOffset(ss) % 8 = 0
  BY CloneLayout
<1> HIDE DEF cc
<1>2. computeKernargData(cc, ch) = [kernarg_length |-> HiddenOffset(ss) + 8 + ch,
                                    explicit_args_length |-> HiddenOffset(ss) + 8,
                                    hidden_args_length |-> ch]
  <2>1. SegmentSize(cc, ch) = HiddenOffset(ss) + 8 + ch
    BY <1>1, AlignedTo8 DEF SegmentSize
  <2>2. roundArgsLength(ArgEnd(cc)) = HiddenOffset(ss) + 8
    BY <1>1, AlignedTo8
  <2> QED BY <1>1, <2>1, <2>2 DEF computeKernargData
<1>3. LET orig == computeKernargData(ss, h)
      IN  /\ h = 0 => orig.hidden_args_length = 0
          /\ h # 0 => /\ orig.hidden_args_length = h
                      /\ orig.kernarg_length - orig.explicit_args_length = h
  <2>1. ArgEnd(ss) \in Nat /\ roundArgsLength(ArgEnd(ss)) = HiddenOffset(ss)
    BY EndFacts, AlignedTo8 DEF HiddenOffset
  <2>2. CASE h = 0
    <3>1. SegmentSize(ss, h) \in Nat /\ SegmentSize(ss, h) <= HiddenOffset(ss)
      BY <2>1, <2>2, AlignedTo8, AlignFacts DEF SegmentSize, HiddenOffset, Size
    <3> QED BY <1>1, <2>1, <2>2, <3>1 DEF computeKernargData
  <2>3. CASE h # 0
    <3>1. SegmentSize(ss, h) = HiddenOffset(ss) + h
      BY <2>3 DEF SegmentSize
    <3> QED BY <1>1, <2>1, <2>3, <3>1 DEF computeKernargData
  <2> QED BY <2>2, <2>3
<1> QED BY <1>2, <1>3 DEF getArgDescriptor, cc
-----------------------------------------------------------------------------
(* The steps of fixupKernArgs.                                             *)

\* What the steps know of the descriptor.
LEMMA ArgsFacts ==
    ASSUME SegmentInv, stage # "describe"
    PROVE  /\ sizes \in Seq(Size) /\ hidden \in Nat /\ cloneHidden \in Nat /\ hidden <= cloneHidden
           /\ HiddenOffset(sizes) \in Nat
           /\ args.explicit_args_length = HiddenOffset(sizes) + 8
           /\ args.kernarg_length = HiddenOffset(sizes) + 8 + cloneHidden
           /\ args.clone_hidden_args_length = hidden
<1>1. sizes \in Seq(Size)
  <2>1. PICK n \in 0..MaxArgs : sizes \in [1..n -> ArgSizes]
    BY DEF SegmentInv, Layouts
  <2>2. ArgSizes \subseteq Size /\ n \in Nat
    BY KernArgsAssumption, <2>1 DEF KernArgsAssumption, Size
  <2> QED BY <2>1, <2>2
<1>2. /\ hidden \in Nat /\ hidden % 8 = 0 /\ cloneHidden \in Nat /\ cloneHidden % 8 = 0
      /\ hidden <= cloneHidden /\ args = getArgDescriptor(sizes, hidden, cloneHidden)
  BY KernArgsAssumption DEF KernArgsAssumption, SegmentInv
<1>3. HiddenOffset(sizes) \in Nat
  BY <1>1, CloneLayout
<1>4. LET d == getArgDescriptor(sizes, hidden, cloneHidden)
      IN  /\ d.explicit_args_length = HiddenOffset(sizes) + 8
          /\ d.kernarg_length = HiddenOffset(sizes) + 8 + cloneHidden
          /\ d.clone_hidden_args_length = hidden
  BY <1>1, <1>2, DescriptorFacts
<1> QED BY <1>1, <1>2, <1>3, <1>4

\* Each step of fixupPacket and fixupKernArgs keeps the invariant.
THEOREM SegmentInductive == SegmentInv /\ [ArgsNext]_argsVars => SegmentInv'
<1> SUFFICES ASSUME SegmentInv, [ArgsNext]_argsVars PROVE SegmentInv'
  OBVIOUS
<1>1. CASE Describe
  BY <1>1 DEF Describe, SegmentInv
<1>2. CASE UNCHANGED argsVars
  BY <1>2 DEF argsVars, SegmentInv, Built, Src
<1> DEFINE at == args.explicit_args_length - PtrSize
           L == args.kernarg_length
<1>3. CASE ZeroFill \/ CopyExplicit \/ CopyHidden \/ StoreComms
  <2>1. stage # "describe" /\ UNCHANGED <<sizes, hidden, cloneHidden, args>>
    BY <1>3 DEF ZeroFill, CopyExplicit, CopyHidden, StoreComms
  <2>2. at \in Nat /\ L \in Nat /\ args.explicit_args_length = at + 8 /\ hidden \in Nat
        /\ args.clone_hidden_args_length = hidden /\ at + 8 + hidden <= L
    BY <2>1, ArgsFacts DEF PtrSize
  <2>3. stage' \in {"explicit", "hidden", "comms", "done"}
    BY <1>3 DEF ZeroFill, CopyExplicit, CopyHidden, StoreComms
  <2>4. dst' = [o \in 0..(L - 1) |-> Built(o)']
    <3>1. CASE ZeroFill
      BY <2>1, <2>2, <3>1 DEF ZeroFill, Built
    <3>2. CASE CopyExplicit
      BY <2>1, <2>2, <3>2 DEF CopyExplicit, Built, Copied, Src, SegmentInv, PtrSize
    <3>3. CASE CopyHidden
      <4>1. /\ stage = "hidden" /\ stage' = "comms" /\ DOMAIN dst = 0..(L - 1)
            /\ dst' = Copied(at + 8, at, hidden) /\ \A o \in 0..(L - 1) : dst[o] = Built(o)
        BY <2>1, <2>2, <3>3 DEF CopyHidden, SegmentInv
      <4>2. \A o : Src(o)' = Src(o)
        BY <2>1 DEF Src
      <4>3. ASSUME NEW o \in 0..(L - 1)
            PROVE  (IF o \in (at + 8)..(at + 8 + hidden - 1) THEN Src(at + (o - (at + 8)))
                    ELSE dst[o]) = Built(o)'
        <5>1. CASE o \in (at + 8)..(at + 8 + hidden - 1)
          <6>1. at + (o - (at + 8)) = o - 8 /\ ~(o < at) /\ ~(o < at + 8) /\ o < at + 8 + hidden
            BY <2>2, <5>1
          <6> QED BY <2>1, <2>2, <4>1, <4>2, <5>1, <6>1 DEF Built, PtrSize
        <5>2. CASE o \notin (at + 8)..(at + 8 + hidden - 1)
          BY <2>1, <2>2, <4>1, <4>2, <5>2 DEF Built, PtrSize
        <5> QED BY <5>1, <5>2
      <4> QED BY <4>1, <4>3 DEF Copied
    <3>4. CASE StoreComms
      BY <2>1, <2>2, <3>4 DEF StoreComms, Built, Src, SegmentInv, PtrSize
    <3> QED BY <1>3, <3>1, <3>2, <3>3, <3>4
  <2> QED BY <2>1, <2>3, <2>4 DEF SegmentInv
<1> QED BY <1>1, <1>2, <1>3 DEF ArgsNext

\* Of every byte of the segment it is known at each step what it holds, for
\* every layout.
THEOREM SegmentInvariance == ArgsSpec => []SegmentInv
<1>1. ArgsInit => SegmentInv
  BY DEF ArgsInit, SegmentInv
<1> QED BY <1>1, SegmentInductive, PTL DEF ArgsSpec

\* No copy leaves the segment, for every layout: the assertion of
\* fixupKernArgs holds.
THEOREM CopiesAlwaysFit == ArgsSpec => []CopiesFit
<1>1. SegmentInv => CopiesFit
  <2> SUFFICES ASSUME SegmentInv, stage # "describe" PROVE CopiesFit
    BY DEF CopiesFit
  <2> QED BY ArgsFacts DEF CopiesFit, PtrSize
<1> QED BY <1>1, SegmentInvariance, PTL

\* The clone finds every byte of every argument, the comms pointer and every
\* hidden byte where its own layout has them, for every layout.
THEOREM ArgumentsArrive == ArgsSpec => []CloneSeesItsArguments
<1>1. SegmentInv => CloneSeesItsArguments
  <2> SUFFICES ASSUME SegmentInv, stage = "done" PROVE CloneSeesItsArguments
    BY DEF CloneSeesItsArguments
  <2> DEFINE H == HiddenOffset(sizes)
             cc == CloneSizes(sizes)
  <2>1. /\ sizes \in Seq(Size) /\ hidden \in Nat /\ cloneHidden \in Nat /\ hidden <= cloneHidden
        /\ H \in Nat /\ args.explicit_args_length = H + 8
        /\ args.kernarg_length = H + 8 + cloneHidden /\ args.clone_hidden_args_length = hidden
    BY ArgsFacts
  <2>2. /\ \A i \in 1..Len(sizes) : ArgOffset(cc, i) = ArgOffset(sizes, i)
        /\ ArgOffset(cc, Len(sizes) + 1) = H /\ HiddenOffset(cc) = H + 8
    BY <2>1, CloneLayout
  <2> HIDE DEF H, cc
  <2>3. \A o \in 0..(H + 8 + cloneHidden - 1) : dst[o] = Built(o)
    BY <2>1 DEF SegmentInv
  <2>4. /\ \A o \in 0..(H - 1) : dst[o] = Src(o)
        /\ \A k \in 0..7 : dst[H + k] = CommsByte(k)
        /\ \A k \in 0..(hidden - 1) : dst[H + 8 + k] = Src(H + k)
    <3>1. ASSUME NEW o \in 0..(H - 1) PROVE dst[o] = Src(o)
      BY <2>1, <2>3 DEF Built, PtrSize
    <3>2. ASSUME NEW k \in 0..7 PROVE dst[H + k] = CommsByte(k)
      BY <2>1, <2>3 DEF Built, PtrSize
    <3>3. ASSUME NEW k \in 0..(hidden - 1) PROVE dst[H + 8 + k] = Src(H + k)
      BY <2>1, <2>3 DEF Built, PtrSize
    <3> QED BY <3>1, <3>2, <3>3
  <2>5. ASSUME NEW i \in 1..Len(sizes), NEW k \in 0..(PtrSize - 1), k < sizes[i]
        PROVE  dst[ArgOffset(cc, i) + k] = ArgByte(i, k)
    <3>1. /\ SrcByte(sizes, hidden, ArgOffset(sizes, i) + k) = ArgByte(i, k)
          /\ ArgOffset(sizes, i) + k \in Nat /\ ArgOffset(sizes, i) + k < H
      BY <2>1, <2>5, ArgumentBytes, SMTT(20) DEF PtrSize, H
    <3>2. ArgOffset(sizes, i) + k \in 0..(H - 1)
      BY <2>1, <3>1
    <3>3. dst[ArgOffset(sizes, i) + k] = Src(ArgOffset(sizes, i) + k)
      BY <2>4, <3>2
    <3>4. ArgOffset(cc, i) = ArgOffset(sizes, i)
      BY <2>2
    <3> QED BY <3>1, <3>3, <3>4 DEF Src
  <2>6. ASSUME NEW k \in 0..(hidden - 1) PROVE dst[HiddenOffset(cc) + k] = HiddenByte(k)
    <3>1. SrcByte(sizes, hidden, H + k) = HiddenByte(k)
      BY <2>1, HiddenBytes DEF H
    <3>2. dst[H + 8 + k] = Src(H + k)
      BY <2>4
    <3> QED BY <2>2, <3>1, <3>2 DEF Src
  <2> QED BY <2>2, <2>4, <2>5, <2>6 DEF CloneSeesItsArguments, PtrSize, cc
<1> QED BY <1>1, SegmentInvariance, PTL

\* Hidden arguments that only the clone has read as zero, for every layout.
THEOREM ExtraHiddenAlwaysZero == ArgsSpec => []ExtraHiddenIsZero
<1>1. SegmentInv => ExtraHiddenIsZero
  <2> SUFFICES ASSUME SegmentInv, stage = "done", NEW k \in hidden..(cloneHidden - 1)
               PROVE  dst[HiddenOffset(CloneSizes(sizes)) + k] = Zero
    BY DEF ExtraHiddenIsZero
  <2> DEFINE H == HiddenOffset(sizes)
  <2>1. /\ sizes \in Seq(Size) /\ hidden \in Nat /\ cloneHidden \in Nat
        /\ H \in Nat /\ args.explicit_args_length = H + 8
        /\ args.kernarg_length = H + 8 + cloneHidden /\ args.clone_hidden_args_length = hidden
    BY ArgsFacts
  <2>2. HiddenOffset(CloneSizes(sizes)) = H + 8
    BY <2>1, CloneLayout
  <2> HIDE DEF H
  <2>3. dst[H + 8 + k] = Built(H + 8 + k)
    BY <2>1 DEF SegmentInv
  <2> QED BY <2>1, <2>2, <2>3 DEF Built, PtrSize
<1> QED BY <1>1, SegmentInvariance, PTL
=============================================================================
