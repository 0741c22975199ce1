---------------------------- MODULE BasicBlocks ----------------------------
(***************************************************************************)
(* basic_block_analysis, the host-side handler of the block-start messages *)
(* of one dispatch, together with the waves that send them.  A wave sends  *)
(* a message each time it enters a basic block (s_submit_wave_header);     *)
(* messages of one wave arrive in order, messages of different waves in    *)
(* any order.  A message closes the visit the wave was in and opens the    *)
(* next one; the last visit of a wave has no closing message.  When the    *)
(* kernel has completed and all is handled, report writes the totals.      *)
(*                                                                         *)
(* The handler finds a wave by comparing waveIdentifier_t objects byte by  *)
(* byte.  The type has three bytes of padding that are never written, so   *)
(* their value (pad) is whatever the stack holds: pads is the set of       *)
(* values that come up there in a run of the program.                      *)
(***************************************************************************)
EXTENDS Integers, Sequences, SequencesExt, FiniteSets

CONSTANTS
    Wave,        \* waves of the dispatch: workgroup and wave number
    Block,       \* basic blocks of the kernel
    Entry,       \* the block every wave starts in
    Insts,       \* Insts[b]: the instructions kernelDB has for b
    Vector,      \* instructions that start with v_
    Succ,        \* Succ[b]: the blocks that may follow b
    CuOf,        \* CuOf[w]: the compute unit (xcc, se, cu) wave w runs on
    WgOf,        \* WgOf[w]: its workgroup
    Lanes,       \* numbers of active lanes at a block's start
    Paddings,    \* possible values of the padding of a waveIdentifier_t
    MaxVisits    \* bound on the blocks one wave enters

ASSUME BlockAssumption ==
    /\ Entry \in Block /\ DOMAIN Insts = Block /\ \A b \in Block : Insts[b] \in Seq(STRING)
    /\ Succ \in [Block -> SUBSET Block]
    /\ \A b \in Block : Insts[b] # <<>> => (Last(Insts[b]) = "s_endpgm" <=> Succ[b] = {})
    /\ MaxVisits \in Nat \ {0}
    /\ IsFiniteSet(Wave) /\ IsFiniteSet(Block) /\ DOMAIN CuOf = Wave /\ DOMAIN WgOf = Wave
    /\ Lanes \subseteq 0..64 /\ Lanes # {}

VARIABLES
    pads,                \* the padding bytes this run leaves on the stack
    kdb,                 \* what the handler's kernelDB knows of the kernel
    clock,               \* the device's clock
    path,                \* path[w]: every block-start message w has sent
    handled,             \* handled[w]: how many of them the host has handled
    wave_states_,        \* wave key -> [current_block_, start_time_, count_]
    block_info_,         \* block -> [thread_count_, count_, duration_]
    compute_resources_,  \* compute unit -> waves seen on it
    reported             \* what report has written, if it was called

handlerVars == <<wave_states_, block_info_, compute_resources_>>
vars == <<pads, kdb, clock, path, handled, handlerVars, reported>>

NotYet == [called |-> FALSE, wellformed |-> TRUE, resources |-> <<>>, blocks |-> <<>>]
Exits == {b \in Block : Insts[b] # <<>> /\ Last(Insts[b]) = "s_endpgm"}
Sent(w) == Len(path[w])
NoInfo == [thread_count_ |-> 0, count_ |-> 0, duration_ |-> 0]

Init ==
    /\ pads \in (SUBSET Paddings) \ {{}}
    /\ kdb \in {"no_database", "no_kernel", "kernel"}
    /\ clock = 0
    /\ path = [w \in Wave |-> <<>>]
    /\ handled = [w \in Wave |-> 0]
    /\ wave_states_ = <<>>
    /\ block_info_ = <<>>
    /\ compute_resources_ = <<>>
    /\ reported = NotYet

\* The wave enters a block and submits its header; time passes between.
s_submit_wave_header(w) ==
    /\ reported = NotYet
    /\ Sent(w) < MaxVisits
    /\ \E b \in IF path[w] = <<>> THEN {Entry} ELSE Succ[path[w][Sent(w)].block], lanes \in Lanes :
          path' = [path EXCEPT ![w] = Append(@, [block |-> b, timestamp |-> clock, exec |-> lanes])]
    /\ clock' = clock + 1
    /\ UNCHANGED <<pads, kdb, handled, handlerVars, reported>>

-----------------------------------------------------------------------------

At(f, k, default) == IF k \in DOMAIN f THEN f[k] ELSE default
Put(f, k, v) == [x \in DOMAIN f \cup {k} |-> IF x = k THEN v ELSE f[x]]
Erase(f, k) == Restrict(f, DOMAIN f \ {k})

\* Variant: the set of a unit is replaced, not extended.
ReplaceComputeResources(w) ==
    compute_resources_' = Put(compute_resources_, CuOf[w], {w})

updateComputeResources(w) ==
    compute_resources_' = Put(compute_resources_, CuOf[w], At(compute_resources_, CuOf[w], {}) \cup {w})

\* Variant: only the first visit to a block is counted.
ChargedOnce(info, state, msg) ==
    LET old == At(info, state.current_block_, NoInfo)
    IN  Put(info, state.current_block_,
            [thread_count_ |-> old.thread_count_ + msg.exec,
             count_ |-> 1,
             duration_ |-> old.duration_ + (msg.timestamp - state.start_time_)])

\* The visit that the message closes is charged to the block it was in; the
\* lanes are those of the message.
Charged(info, state, msg) ==
    LET old == At(info, state.current_block_, NoInfo)
    IN  Put(info, state.current_block_,
            [thread_count_ |-> old.thread_count_ + msg.exec,
             count_ |-> old.count_ + state.count_,
             duration_ |-> old.duration_ + (msg.timestamp - state.start_time_)])

\* Variant: the state of an ended wave is kept.
EnteredAlways(states, key, msg) ==
    Put(states, key, [current_block_ |-> msg.block, start_time_ |-> msg.timestamp, count_ |-> 1])

\* Variant: the start time of the new visit is not recorded.
EnteredLate(states, key, msg) ==
    IF msg.block \in Exits THEN Erase(states, key)
    ELSE Put(states, key, [states[key] EXCEPT !.current_block_ = msg.block])

Entered(states, key, msg) ==
    IF msg.block \in Exits THEN Erase(states, key)
    ELSE Put(states, key, [current_block_ |-> msg.block, start_time_ |-> msg.timestamp, count_ |-> 1])

\* What the lookup of the wave leads to; pad is the padding of its key. A
\* block without instructions is passed over.
handleBlock(w, pad) ==
    LET msg == path[w][handled[w] + 1]
        key == <<w, pad>>
    IN  \/ /\ Insts[msg.block] = <<>>
           /\ UNCHANGED <<block_info_, wave_states_>>
        \/ /\ Insts[msg.block] # <<>> /\ key \in DOMAIN wave_states_
           /\ block_info_' = Charged(block_info_, wave_states_[key], msg)
           /\ wave_states_' = Entered(wave_states_, key, msg)
        \/ /\ Insts[msg.block] # <<>> /\ key \notin DOMAIN wave_states_
           /\ wave_states_' = Put(wave_states_, key,
                                  [current_block_ |-> msg.block, start_time_ |-> msg.timestamp, count_ |-> 1])
           /\ block_info_' = block_info_

\* Without a database the message is dropped; without the kernel getKernel
\* throws, after the compute units have been updated. The code's two assertions
\* hold of every message sent here: its block is one of the kernel's, and it is
\* a wave header, since the pass that sends blocks sends no time intervals.
handle(w) ==
    /\ reported = NotYet
    /\ handled[w] < Sent(w)
    /\ handled' = [handled EXCEPT ![w] = @ + 1]
    /\ \/ /\ kdb = "kernel"
          /\ updateComputeResources(w)
          /\ \E pad \in pads : handleBlock(w, pad)
       \/ /\ kdb = "no_kernel"
          /\ updateComputeResources(w)
          /\ UNCHANGED <<wave_states_, block_info_>>
       \/ /\ kdb = "no_database"
          /\ UNCHANGED handlerVars
    /\ UNCHANGED <<pads, kdb, clock, path, reported>>

-----------------------------------------------------------------------------
(* report.                                                                 *)

\* renderComputeResources: workgroups and average waves of every unit.
\* Without one the "[" is taken away in place of a comma.
renderComputeResources ==
    [cu \in DOMAIN compute_resources_ |->
        LET waves == compute_resources_[cu]
            wgs == {WgOf[w] : w \in waves}
        IN  [wgs |-> wgs, avg_wave_count |-> Cardinality(waves) \div Cardinality(wgs)]]

\* Executions of an instruction of a block: of a vector instruction by lane.
Executions(b, inst) == IF inst \in Vector THEN block_info_[b].thread_count_
                       ELSE block_info_[b].count_

\* Variant: an instruction that was met before is not added to.
CountedOverwriting(inst_counts, b) ==
    LET counts[n \in 0..Len(Insts[b])] ==
            IF n = 0 THEN inst_counts
            ELSE Put(counts[n - 1], Insts[b][n], Executions(b, Insts[b][n]))
    IN  counts[Len(Insts[b])]

\* inst_counts once the instructions of b have been added, one after the other.
Counted(inst_counts, b) ==
    LET counts[n \in 0..Len(Insts[b])] ==
            IF n = 0 THEN inst_counts
            ELSE Put(counts[n - 1], Insts[b][n],
                     At(counts[n - 1], Insts[b][n], 0) + Executions(b, Insts[b][n]))
    IN  counts[Len(Insts[b])]

\* The totals of the kernel.
Total(field) == SumFunction([b \in DOMAIN block_info_ |-> block_info_[b][field]])

\* One record for each block, in the order of the blocks' addresses;
\* inst_counts is never reset between them.
BlockRecords(order) ==
    LET inst_counts[i \in 0..Len(order)] ==
            IF i = 0 THEN <<>> ELSE Counted(inst_counts[i - 1], order[i])
    IN  [i \in DOMAIN order |->
            [block |-> order[i],
             info |-> block_info_[order[i]],
             kernel |-> [duration |-> Total("duration_"), block_exec_count |-> Total("count_"),
                         thread_exec_count |-> Total("thread_count_")],
             instructions |-> inst_counts[i]]]

\* After stop(), when no message is left; without a database nothing is
\* written to the log.
report ==
    /\ reported = NotYet
    /\ \A w \in Wave : handled[w] = Sent(w)
    /\ \/ /\ kdb # "no_database"
          /\ \E order \in SetToSeqs(DOMAIN block_info_) :
                reported' = [called |-> TRUE, wellformed |-> compute_resources_ # <<>>,
                             resources |-> renderComputeResources, blocks |-> BlockRecords(order)]
       \/ /\ kdb = "no_database"
          /\ reported' = [NotYet EXCEPT !.called = TRUE]
    /\ UNCHANGED <<pads, kdb, clock, path, handled, handlerVars>>

Next ==
    \/ \E w \in Wave : s_submit_wave_header(w) \/ handle(w)
    \/ report

Spec == Init /\ [][Next]_vars

-----------------------------------------------------------------------------
(* Properties *)

\* The kernel is known and keys of one wave compare equal: the padding bytes
\* happen to be the same each time. Nothing in the code makes them so, and
\* without it a wave's state is lost and found again at the wrong block.
KeysStable == kdb = "kernel" /\ \E pad \in Paddings : pads = {pad}

\* The numbers of the messages of w that were handled and not passed over.
HeardAt(w) == {n \in 1..handled[w] : Insts[path[w][n].block] # <<>>}

\* The visits that handled messages have closed: the wave and the number of
\* the message that opened it. The next one that is heard closes a visit.
Closed == {v \in Wave \X (1..MaxVisits) :
              v[2] \in HeardAt(v[1]) /\ \E m \in HeardAt(v[1]) : v[2] < m}
Visit(v) == path[v[1]][v[2]]
Closing(v) == path[v[1]][Min({m \in HeardAt(v[1]) : v[2] < m})]
ClosedIn(b) == {v \in Closed : Visit(v).block = b}
TimeOf(S) == SumFunction([v \in S |-> Closing(v).timestamp - Visit(v).timestamp])
LanesOf(S) == SumFunction([v \in S |-> Closing(v).exec])

(* However the messages of the waves are interleaved, a block is charged   *)
(* exactly the closed visits to it: their number and their total time.     *)
(* usage.md: "Tracks execution time of each basic block per wave".         *)
BlockTimesExact ==
    KeysStable =>
    \A b \in Block :
        /\ At(block_info_, b, NoInfo).count_ = Cardinality(ClosedIn(b))
        /\ At(block_info_, b, NoInfo).duration_ = TimeOf(ClosedIn(b))

(* The reported branchiness of a block, 1 - thread_count_ / (64 count_),   *)
(* lies between 0 and 1, and the kernel's counts every message that closed *)
(* a visit once: lanes are charged with the visit that is counted, though  *)
(* they are those of the message that closes it.                           *)
BranchinessInRange ==
    KeysStable =>
    /\ \A b \in DOMAIN block_info_ :
          block_info_[b].thread_count_ \in Min(Lanes) * block_info_[b].count_ .. Max(Lanes) * block_info_[b].count_
    /\ \A i \in DOMAIN reported.blocks :
          /\ reported.blocks[i].kernel.block_exec_count = Cardinality(Closed)
          /\ reported.blocks[i].kernel.thread_exec_count = LanesOf(Closed)

(* The report of compute units lists every wave that has been heard of, on *)
(* the unit it ran on and on no other, even when its kernel is unknown; it *)
(* is well-formed exactly if there was a message, and no average that is   *)
(* rounded down comes out as zero (updateComputeResources and              *)
(* renderComputeResources).                                                *)
WavesOnUnits ==
    kdb # "no_database" =>
    /\ \A w \in Wave : /\ handled[w] > 0 => w \in At(compute_resources_, CuOf[w], {})
                       /\ \A cu \in DOMAIN compute_resources_ :
                             w \in compute_resources_[cu] => cu = CuOf[w] /\ handled[w] > 0
    /\ reported.called =>
          /\ reported.wellformed <=> \E w \in Wave : handled[w] > 0
          /\ \A cu \in DOMAIN reported.resources : reported.resources[cu].avg_wave_count > 0

(* A wave's state is kept exactly while the wave is inside a block that    *)
(* the kernel continues from: no state outlives s_endpgm, except of a wave *)
(* whose only block is the exit.                                           *)
StatesOfLiveWaves ==
    KeysStable =>
    \A w \in Wave :
        (\E k \in DOMAIN wave_states_ : k[1] = w)
        <=> \E n \in HeardAt(w) : /\ \A m \in HeardAt(w) : m <= n
                                  /\ HeardAt(w) = {n} \/ path[w][n].block \notin Exits

Instructions == UNION {Range(Insts[b]) : b \in Block}
Occurrences(b, inst) == Cardinality({n \in DOMAIN Insts[b] : Insts[b][n] = inst})

\* How often a closed visit executed an instruction.
ExecutedIn(v, inst) ==
    Occurrences(Visit(v).block, inst) * (IF inst \in Vector THEN Closing(v).exec ELSE 1)
ExecutedByKernel(inst) == SumFunction([v \in Closed |-> ExecutedIn(v, inst)])

(* In whatever order the blocks come, report shows each of them once, and  *)
(* in its last record the instructions of all of them: each as often as    *)
(* the closed visits executed it, a vector instruction by active lane      *)
(* (inst_counts of basic_block_analysis::report).                          *)
LastRecordCountsKernel ==
    LET blocks == reported.blocks
    IN  KeysStable /\ blocks # <<>> =>
        /\ \A i, j \in DOMAIN blocks : blocks[i].block = blocks[j].block => i = j
        /\ SumFunction([i \in DOMAIN blocks |-> blocks[i].info.duration_]) = blocks[1].kernel.duration
        /\ \A inst \in Instructions :
              At(Last(blocks).instructions, inst, 0) = ExecutedByKernel(inst)

-----------------------------------------------------------------------------
(* The inductive invariant *)

Message == [block : Block, timestamp : Nat, exec : Lanes]
WaveState == [current_block_ : Block, start_time_ : Nat, count_ : {1}]
BlockInfo == [thread_count_ : Int, count_ : Int, duration_ : Int]

BlockTypes ==
    /\ pads \subseteq Paddings /\ kdb \in {"no_database", "no_kernel", "kernel"} /\ clock \in Nat
    /\ path \in [Wave -> Seq(Message)] /\ handled \in [Wave -> Nat]
    /\ \A w \in Wave : handled[w] <= Sent(w) /\ Sent(w) <= MaxVisits
    /\ DOMAIN wave_states_ \subseteq Wave \X pads
    /\ wave_states_ \in [DOMAIN wave_states_ -> WaveState]
    /\ DOMAIN block_info_ \subseteq Block
    /\ block_info_ \in [DOMAIN block_info_ -> BlockInfo]

\* Waves go where the kernel does; nothing follows an exit.
PathsFollowKernel ==
    \A w \in Wave : \A n \in 1..(Sent(w) - 1) : path[w][n + 1].block \in Succ[path[w][n].block]

\* A unit is in the table because of the waves it has there.
UnitsHaveWaves ==
    /\ kdb = "no_database" => compute_resources_ = <<>>
    /\ compute_resources_ \in [DOMAIN compute_resources_ -> (SUBSET Wave) \ {{}}]

\* The state of a wave is that of its last message.
StatesCurrent ==
    KeysStable =>
    \A k \in DOMAIN wave_states_ : \E n \in HeardAt(k[1]) :
        /\ \A m \in HeardAt(k[1]) : m <= n
        /\ wave_states_[k].current_block_ = path[k[1]][n].block
        /\ wave_states_[k].start_time_ = path[k[1]][n].timestamp

\* The totals of the kernel are those of its closed visits.
TotalsExact ==
    KeysStable => /\ Total("count_") = Cardinality(Closed)
                  /\ Total("thread_count_") = LanesOf(Closed)

\* So are the executions of an instruction, added up over the blocks.
ExecutionsOf(inst) == [b \in DOMAIN block_info_ |-> Occurrences(b, inst) * Executions(b, inst)]
InstructionsExact ==
    KeysStable => \A inst \in Instructions : SumFunction(ExecutionsOf(inst)) = ExecutedByKernel(inst)

(* What the exact figures rest on, however messages are interleaved: a     *)
(* wave's state is the visit that is still open, and a unit is listed for  *)
(* the waves it ran.                                                       *)
BlocksSupport ==
    /\ BlockTypes /\ PathsFollowKernel /\ UnitsHaveWaves /\ StatesCurrent
    /\ TotalsExact /\ InstructionsExact

BlocksInv ==
    /\ BlocksSupport /\ WavesOnUnits /\ StatesOfLiveWaves /\ BlockTimesExact
    /\ BranchinessInRange /\ LastRecordCountsKernel
=============================================================================
