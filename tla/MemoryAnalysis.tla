---------------------------- MODULE MemoryAnalysis ----------------------------
(***************************************************************************)
(* memory_analysis_handler_t (src/src/memory_analysis_handler.cc): address *)
(* messages of wavefronts are turned into counts of L2 cache lines used    *)
(* and needed (global memory) and of bank conflicts (LDS), per source      *)
(* location, access size and kind.                                         *)
(*                                                                         *)
(* A message gives every active lane an address. A position is a source    *)
(* line, column and kind of access: two positions differ in one of these,  *)
(* also where their files have no name. What kernelDB knows of a position  *)
(* is the constant isa. The counters are checked against references that   *)
(* do not follow the code: the fewest rounds in which the lanes can be     *)
(* served, the bytes a message touches, the order of the messages.         *)
(***************************************************************************)
EXTENDS Integers, Sequences, FiniteSets, FiniteSetsExt, Functions

CONSTANTS
    Positions,      \* source positions
    Inputs,         \* address space |-> the masks (sets of active lanes),
                    \* addresses, access sizes and positions of its messages
    fname_hash,     \* position |-> dwarf_fname_hash of its messages
    isa,            \* position |-> [fname, access_size] of get_dwarf_info
    cacheLine,      \* L2 cache line size
    MaxMessages     \* bound on the messages

no_banks == 32
Unmatched == 0          \* access_size: no instruction of the table matches
Combined == 65535       \* access_size: kernelDB has no instruction here

ASSUME MemoryAssumption ==
    /\ DOMAIN isa = Positions /\ DOMAIN fname_hash = Positions
    /\ \A p \in Positions : isa[p].access_size \in Nat
    /\ DOMAIN Inputs = {"global", "shared", "flat"}
    /\ \A mspace \in DOMAIN Inputs :
          /\ \A L \in Inputs[mspace].masks : L \subseteq 0..63 /\ L # {}
          /\ Inputs[mspace].addresses \subseteq Nat
          /\ Inputs[mspace].sizes \subseteq Nat \ {0}
          /\ Inputs[mspace].positions \subseteq Positions
    /\ cacheLine \in Nat \ {0}
    /\ MaxMessages \in Nat

VARIABLES
    global_accesses,    \* key |-> [no_accesses, needed, used]
    lds_accesses,       \* key |-> [no_accesses, conflicts]
    fname_hash_to_fname,\* the file names learnt
    banks,              \* size |-> conflict set |-> dwords registered in it
    sent,               \* the messages handled so far
    known_before        \* the file names known before them

vars == <<global_accesses, lds_accesses, fname_hash_to_fname, banks, sent, known_before>>

-----------------------------------------------------------------------------
(* conflict_set.                                                           *)

Span(first, last) == first..(last - 1)

\* The table of the constructor.
conflict_sets ==
    [size \in {1, 2, 4, 8, 16} |->
        CASE size \in {1, 2, 4} -> <<Span(0, 32), Span(32, 64)>>
          [] size = 8 -> <<Span(0, 16), Span(16, 32), Span(32, 48), Span(48, 64)>>
          [] size = 16 -> <<Span(0, 4) \cup Span(20, 24), Span(4, 8) \cup Span(16, 20),
                            Span(8, 12) \cup Span(28, 32), Span(12, 16) \cup Span(24, 28),
                            Span(32, 36) \cup Span(52, 56), Span(36, 40) \cup Span(48, 52),
                            Span(40, 44) \cup Span(60, 64), Span(44, 48) \cup Span(56, 60)>>]

NoAccess == [size \in DOMAIN conflict_sets |->
                [i \in DOMAIN conflict_sets[size] |-> {}]]

\* register_access on every lane: the dwords in each conflict set.
Registered(before, size, at) ==
    [i \in DOMAIN before |->
        before[i] \cup {at[l] \div 4 : l \in DOMAIN at \cap conflict_sets[size][i]}]

\* bank_conflict_count
bank_conflict_count(dwords) ==
    Max({1} \cup {Cardinality({d \in dwords : d % no_banks = b}) :
                    b \in {d % no_banks : d \in dwords}}) - 1

\* Variant: the dwords of a message stay registered.
NotCleared(size, registered) == [banks EXCEPT ![size] = registered]

\* clear() of every conflict set of that size.
Cleared(size, registered) == [banks EXCEPT ![size] = [i \in DOMAIN @ |-> {}]]

-----------------------------------------------------------------------------
(* The handler.                                                            *)

EmptyMap == [x \in {} |-> 0]
At(f, k, default) == IF k \in DOMAIN f THEN f[k] ELSE default
Put(f, k, v) == [x \in DOMAIN f \cup {k} |-> IF x = k THEN v ELSE f[x]]

Init ==
    /\ global_accesses = EmptyMap
    /\ lds_accesses = EmptyMap
    /\ fname_hash_to_fname = EmptyMap
    /\ banks = NoAccess
    /\ sent = << >>
    /\ known_before = EmptyMap

Message(in) == {[lanes |-> L, size |-> s, pos |-> p] :
                  L \in in.masks, s \in in.sizes, p \in in.positions}

\* Variant: an access is taken to lie in one cache line.
FirstLineOnly(at, size) == {at[l] \div cacheLine : l \in DOMAIN at}

\* The cache lines that accesses of size bytes touch.
CacheLines(at, size) ==
    UNION {(at[l] \div cacheLine)..((at[l] + size - 1) \div cacheLine) : l \in DOMAIN at}

\* The size used for a position: that of the ISA instruction, if known.
DataSize(m) == IF isa[m.pos].access_size = Unmatched THEN m.size
               ELSE isa[m.pos].access_size

\* Variant: a message that is dropped leaves its file name too.
LearnAlways(m, dropped) == Put(fname_hash_to_fname, fname_hash[m.pos], isa[m.pos].fname)

\* The name of the file is kept for LDS accesses, empty or not.
Learnt(m, dropped) ==
    IF dropped THEN fname_hash_to_fname
    ELSE Put(fname_hash_to_fname, fname_hash[m.pos], isa[m.pos].fname)

\* handle_cache_line_count_analysis on a message whose lanes access at.
handle_cache_line_count_analysis(m, at) ==
    LET info == isa[m.pos]
        data_size == DataSize(m)
        needed == (Cardinality(m.lanes) * data_size + cacheLine - 1) \div cacheLine
        used == Cardinality(CacheLines(at, data_size))
        key == [fname |-> info.fname, pos |-> m.pos, ir |-> m.size, isa |-> info.access_size]
        old == At(global_accesses, key, [no_accesses |-> 0, needed |-> 0, used |-> 0])
        dropped == \/ info.access_size = Combined
                   \/ data_size # m.size /\ used = needed + 1
    IN  /\ global_accesses' =
               IF dropped THEN global_accesses
               ELSE Put(global_accesses, key, [no_accesses |-> old.no_accesses + 1,
                                               needed |-> old.needed + needed,
                                               used |-> old.used + used])
        /\ fname_hash_to_fname' = Learnt(m, dropped)
        /\ UNCHANGED <<lds_accesses, banks>>

\* handle_bank_conflict_analysis; a size without conflict sets is refused. The
\* look-up of the file's name leaves an empty one if there is none.
handle_bank_conflict_analysis(m, at) ==
    LET registered == Registered(banks[m.size], m.size, at)
        conflicts == SumFunction([i \in DOMAIN registered |->
                                     bank_conflict_count(registered[i])])
        fname == At(fname_hash_to_fname, fname_hash[m.pos], "")
        key == [fname |-> fname, pos |-> m.pos, ir |-> m.size]
        old == At(lds_accesses, key, [no_accesses |-> 0, conflicts |-> 0])
    IN  /\ IF m.size \in DOMAIN conflict_sets
           THEN /\ banks' = Cleared(m.size, registered)
                /\ lds_accesses' = Put(lds_accesses, key,
                                       [no_accesses |-> old.no_accesses + 1,
                                        conflicts |-> old.conflicts + conflicts])
                /\ fname_hash_to_fname' = Put(fname_hash_to_fname, fname_hash[m.pos], fname)
           ELSE UNCHANGED <<banks, lds_accesses, fname_hash_to_fname>>
        /\ UNCHANGED global_accesses

\* handle: by address space. "flat" stands for the spaces that are skipped, and
\* for GPUs whose cache lines are not known. LDS data is naturally aligned.
handle(m, at, mspace) ==
    /\ Len(sent) < MaxMessages
    /\ \/ mspace = "global" /\ handle_cache_line_count_analysis(m, at)
       \/ /\ mspace = "shared"
          /\ \A l \in m.lanes : at[l] % m.size = 0
          /\ handle_bank_conflict_analysis(m, at)
       \/ /\ mspace = "flat"
          /\ UNCHANGED <<global_accesses, lds_accesses, fname_hash_to_fname, banks>>
    /\ sent' = Append(sent, [m |-> m, at |-> at, mspace |-> mspace])
    /\ UNCHANGED known_before

\* clear: the counters, not the file names.
clear ==
    /\ sent # << >>
    /\ global_accesses' = EmptyMap
    /\ lds_accesses' = EmptyMap
    /\ sent' = << >>
    /\ known_before' = fname_hash_to_fname
    /\ UNCHANGED <<fname_hash_to_fname, banks>>

\* report: the entries that the two reports of a format other than JSON list.
\* report_json lists all there are.
report_cache_line_use ==
    {k \in DOMAIN global_accesses : global_accesses[k].used # global_accesses[k].needed}
report_bank_conflicts == {k \in DOMAIN lds_accesses : lds_accesses[k].conflicts # 0}

Next ==
    \/ \E mspace \in DOMAIN Inputs :
          \E m \in Message(Inputs[mspace]) :
             \E at \in [m.lanes -> Inputs[mspace].addresses] : handle(m, at, mspace)
    \/ clear

Spec == Init /\ [][Next]_vars

-----------------------------------------------------------------------------
(* References.                                                             *)

\* Lanes are served in the same phase (memory_analysis_handler.h): halves of
\* 32, quarters of 16, or pairs of quads crossed over within a half.
Phase(l, size) ==
    LET quad == (l \div 4) % 8
        cross == IF quad < 4 THEN quad
                 ELSE IF quad % 2 = 0 THEN quad - 3 ELSE quad - 5
    IN  IF size <= 4 THEN l \div 32
        ELSE IF size = 8 THEN l \div 16
        ELSE 4 * (l \div 32) + cross

\* Every dword an access touches, not only its first.
Dwords(a, size) == (a \div 4)..((a + size - 1) \div 4)

\* The lanes can be served in n rounds of no bank delivering two dwords.
ServedIn(n, lanes, at, size) ==
    \E round \in [lanes -> 1..n] :
        \A k, l \in lanes :
            \/ round[k] # round[l]
            \/ \A d \in Dwords(at[k], size), e \in Dwords(at[l], size) :
                  d % no_banks = e % no_banks => d = e

\* Rounds in excess of one per phase.
ExtraRounds(at, size) ==
    LET phases == {Phase(l, size) : l \in DOMAIN at}
        lanes(p) == {l \in DOMAIN at : Phase(l, size) = p}
    IN  SumFunction([p \in phases |->
            Min({n \in 1..Cardinality(lanes(p)) : ServedIn(n, lanes(p), at, size)}) - 1])

-----------------------------------------------------------------------------
(* Properties.                                                             *)

\* The bank conflicts reported for a position and size are the rounds the
\* LDS needs beyond one per phase, over all its messages: looking at the
\* first dword of each access is enough for every supported size
\* (register_access), and nothing of one message is counted in another.
BankConflictsExact ==
    \A p \in Positions, s \in DOMAIN conflict_sets :
        LET keys == {k \in DOMAIN lds_accesses : k.pos = p /\ k.ir = s}
            mine == {i \in 1..Len(sent) : sent[i].mspace = "shared"
                                          /\ sent[i].m.pos = p /\ sent[i].m.size = s}
        IN  /\ SumFunction([k \in keys |-> lds_accesses[k].conflicts])
                   = SumFunction([i \in mine |-> ExtraRounds(sent[i].at, s)])
            /\ SumFunction([k \in keys |-> lds_accesses[k].no_accesses])
                   = Cardinality(mine)

\* The lanes of a global message access disjoint bytes.
Disjoint(x) == \A k, l \in DOMAIN x.at : k # l =>
    \/ x.at[k] + DataSize(x.m) <= x.at[l]
    \/ x.at[l] + DataSize(x.m) <= x.at[k]

\* The lines that hold a byte of a global message, beyond those that would
\* hold the lanes' bytes in a row.
Bytes(x) == UNION {x.at[l]..(x.at[l] + DataSize(x.m) - 1) : l \in DOMAIN x.at}
Excess(x) == Cardinality({byte \div cacheLine : byte \in Bytes(x)})
             - (Cardinality(DOMAIN x.at) * DataSize(x.m) + cacheLine - 1) \div cacheLine

\* The heuristic: a message corrected to the size of the ISA instruction is
\* not counted if it is one line over.
Counts(x) ==
    /\ x.mspace = "global"
    /\ isa[x.m.pos].access_size # Combined
    /\ DataSize(x.m) = x.m.size \/ Excess(x) # 1

\* If the lanes of each message access disjoint bytes, the cache line report
\* lists a position and size exactly if one of its messages that count used
\* more lines than it needed: no sum over messages hides it, and none used
\* fewer (handle_cache_line_count_analysis, report_cache_line_use).
ExcessReported ==
    LET counted == {i \in 1..Len(sent) : sent[i].mspace = "global" /\ Counts(sent[i])}
    IN  (\A i \in counted : Disjoint(sent[i])) =>
        {<<k.pos, k.ir>> : k \in report_cache_line_use} =
        {<<sent[i].m.pos, sent[i].m.size>> : i \in {j \in counted : Excess(sent[j]) > 0}}

\* The name that LDS message i is to be filed under: the one that the last
\* global message that counts and is of the same file was resolved to.
NameFor(i) ==
    LET h == fname_hash[sent[i].m.pos]
        named == {j \in 1..(i - 1) : Counts(sent[j]) /\ fname_hash[sent[j].m.pos] = h}
    IN  IF named = {} THEN At(known_before, h, "") ELSE isa[sent[Max(named)].m.pos].fname

\* LDS accesses are filed under the name of their own file as far as global
\* accesses have told it, whatever was dropped in between and whatever other
\* files were met; one that came before them, or after a global access that
\* kernelDB does not know, is filed under no name, and none is lost or filed
\* twice. The conflict report lists those with a conflict.
LdsFiledByLastName ==
    LET lds == {i \in 1..Len(sent) : sent[i].mspace = "shared"
                                      /\ sent[i].m.size \in DOMAIN conflict_sets}
        KeyOf(i) == [fname |-> NameFor(i), pos |-> sent[i].m.pos, ir |-> sent[i].m.size]
    IN  /\ DOMAIN lds_accesses = {KeyOf(i) : i \in lds}
        /\ \A k \in DOMAIN lds_accesses :
              lds_accesses[k].no_accesses = Cardinality({i \in lds : KeyOf(i) = k})
        /\ report_bank_conflicts =
              {KeyOf(i) : i \in {j \in lds : ExtraRounds(sent[j].at, sent[j].m.size) > 0}}

=============================================================================
