---------------------------- MODULE JsonLogProofs ----------------------------
(***************************************************************************)
(* Proofs about CommsManager, Handlers and JsonLog, for any agents with    *)
(* any pools, any messages and any number of dispatches.                   *)
(*                                                                         *)
(* SessionInv is inductive: the log has exactly the analyses that were     *)
(* written, a dispatch that may still report is not one of them (OnceInv), *)
(* and in a fresh log they stand in the order of an array (ArrayInv).      *)
(* That one report adds one object needs chains with one memory analysis   *)
(* at most (ChainInv), hence distinct plugins (PluginInv).                 *)
(*                                                                         *)
(* PoolInv is inductive relative to it: an agent that has a usable pool    *)
(* has a memory manager once agents are added, so a fault needs one that   *)
(* has none.                                                               *)
(*                                                                         *)
(* FiguresInv, too: what each handler of a chain holds are the sums over   *)
(* the messages of its dispatch that it has taken, and a message that is   *)
(* not in the buffer has been offered to the whole chain.                  *)
(***************************************************************************)
EXTENDS JsonLog, Induction

-----------------------------------------------------------------------------
(* Sequences: how often a value occurs, and concatenations of many.        *)

Count(s, x) == Cardinality({i \in DOMAIN s : s[i] = x})

\* A sequence has a number of places.
LEMMA CountType ==
    ASSUME NEW T, NEW s \in Seq(T), NEW x
    PROVE  IsFiniteSet({i \in DOMAIN s : s[i] = x}) /\ Count(s, x) \in Nat
<1>1. IsFiniteSet(1..Len(s)) /\ {i \in DOMAIN s : s[i] = x} \subseteq 1..Len(s)
  BY FS_Interval
<1>2. IsFiniteSet({i \in DOMAIN s : s[i] = x})
  BY <1>1, FS_Subset, Zenon
<1> QED BY <1>2, FS_CardinalityType DEF Count

\* What does not occur has no place.
LEMMA CountAbsent ==
    ASSUME NEW s, NEW x, \A i \in DOMAIN s : s[i] # x
    PROVE  Count(s, x) = 0
<1>1. {i \in DOMAIN s : s[i] = x} = {}
  OBVIOUS
<1> QED BY <1>1, FS_EmptySet DEF Count

\* What occurs at one place only occurs once.
LEMMA CountOne ==
    ASSUME NEW s, NEW x, NEW k \in DOMAIN s, s[k] = x, \A i \in DOMAIN s : s[i] = x => i = k
    PROVE  Count(s, x) = 1
<1>1. {i \in DOMAIN s : s[i] = x} = {k}
  OBVIOUS
<1> QED BY <1>1, FS_Singleton DEF Count

\* What two sequences make when one follows the other.
LEMMA ConcatFacts ==
    ASSUME NEW T, NEW s \in Seq(T), NEW t \in Seq(T)
    PROVE  /\ s \o t \in Seq(T) /\ Len(s \o t) = Len(s) + Len(t)
           /\ \A i \in 1..Len(s) : (s \o t)[i] = s[i]
           /\ \A i \in 1..Len(t) : (s \o t)[i + Len(s)] = t[i]
OBVIOUS

\* The places of a concatenation are those of its parts.
LEMMA CountConcat ==
    ASSUME NEW T, NEW s \in Seq(T), NEW t \in Seq(T), NEW x
    PROVE  Count(s \o t, x) = Count(s, x) + Count(t, x)
<1> DEFINE P == {i \in DOMAIN s : s[i] = x}
           Q == {i \in DOMAIN t : t[i] = x}
           R == {i \in DOMAIN (s \o t) : (s \o t)[i] = x}
           U == {i + Len(s) : i \in Q}
           shift == [i \in Q |-> i + Len(s)]
<1>1. Len(s) \in Nat /\ Len(t) \in Nat /\ DOMAIN s = 1..Len(s) /\ DOMAIN t = 1..Len(t)
  OBVIOUS
<1>2. /\ DOMAIN (s \o t) = 1..(Len(s) + Len(t))
      /\ \A i \in 1..Len(s) : (s \o t)[i] = s[i]
      /\ \A i \in 1..Len(t) : (s \o t)[i + Len(s)] = t[i]
  OBVIOUS
<1>3. R = P \cup U
  <2>1. ASSUME NEW i \in R PROVE i \in P \cup U
    <3>1. CASE i <= Len(s)
      BY <1>1, <1>2, <3>1
    <3>2. CASE i > Len(s)
      <4>1. i - Len(s) \in 1..Len(t) /\ (i - Len(s)) + Len(s) = i
        BY <1>1, <1>2, <3>2
      <4>2. i - Len(s) \in Q
        BY <1>1, <1>2, <4>1
      <4> QED BY <4>1, <4>2
    <3> QED BY <1>1, <1>2, <3>1, <3>2
  <2>2. P \subseteq R
    BY <1>1, <1>2
  <2>3. ASSUME NEW i \in Q PROVE i + Len(s) \in R
    BY <1>1, <1>2
  <2> QED BY <2>1, <2>2, <2>3
<1>4. P \cap U = {}
  BY <1>1
<1>5. IsFiniteSet(P) /\ IsFiniteSet(Q)
  BY CountType
<1>6. Cardinality(U) = Cardinality(Q) /\ IsFiniteSet(U)
  <2>1. shift \in Bijection(Q, U)
    <3>1. shift \in [Q -> U] /\ \A i, j \in Q : shift[i] = shift[j] => i = j
      BY <1>1
    <3>2. \A u \in U : \E i \in Q : shift[i] = u
      OBVIOUS
    <3> HIDE DEF shift, U, Q
    <3> QED BY <3>1, <3>2 DEF Bijection, Injection, Surjection, IsInjective
  <2>2. ExistsBijection(Q, U)
    BY <2>1 DEF ExistsBijection
  <2> HIDE DEF shift, U, Q
  <2> QED BY <1>5, <2>2, FS_Bijection
<1> HIDE DEF P, Q, R, U
<1>7. Cardinality(P \cup U) = Cardinality(P) + Cardinality(U)
  <2>1. Cardinality(P \cup U) = Cardinality(P) + Cardinality(U) - Cardinality(P \cap U)
    BY <1>5, <1>6, FS_Union
  <2>2. Cardinality(P \cap U) = 0 /\ Cardinality(P) \in Nat /\ Cardinality(U) \in Nat
    BY <1>4, <1>5, <1>6, FS_EmptySet, FS_CardinalityType
  <2> QED BY <2>1, <2>2
<1> QED BY <1>3, <1>6, <1>7 DEF Count, P, Q, R

\* FlattenSeq appends one sequence after the other.
Appends(f, seqs, T) ==
    /\ f \in [1..Len(seqs) -> Seq(T)] /\ f[1] = seqs[1]
    /\ \A i \in 2..Len(seqs) : f[i] = f[i - 1] \o seqs[i]

\* FlattenSeq appends the sequences one after the other.
LEMMA Flattens ==
    ASSUME NEW T, NEW seqs \in Seq(Seq(T)), seqs # << >>
    PROVE  \E f : Appends(f, seqs, T) /\ FlattenSeq(seqs) = f[Len(seqs)]
<1> DEFINE n == Len(seqs)
           body(f) == [i \in 1..n |-> IF i = 1 THEN seqs[i] ELSE f[i - 1] \o seqs[i]]
           step == [i \in Nat |-> [s \in Seq(T) |-> IF i \in 1..n THEN s \o seqs[i] ELSE s]]
           g == CHOOSE f : f = body(f)
<1>1. n \in Nat /\ 1 <= n /\ 1 \in Nat /\ seqs[1] \in Seq(T) /\ \A i \in 1..n : seqs[i] \in Seq(T)
  OBVIOUS
<1>2. step \in [Nat -> [Seq(T) -> Seq(T)]]
  BY <1>1
<1>3. PICK f \in [1..n -> Seq(T)] : /\ f[1] = seqs[1]
                                    /\ \A i \in 1..n : i # 1 => f[i] = step[i][f[i - 1]]
  <2>1. \E f : Recursion(f, Seq(T), seqs[1], 1, n, step)
    <3> HIDE DEF n, step
    <3> QED BY <1>1, <1>2, RecursionExists
  <2> QED BY <2>1 DEF Recursion
<1>4. f = body(f)
  <2>1. ASSUME NEW i \in 1..n, i # 1 PROVE f[i] = f[i - 1] \o seqs[i]
    <3>1. i - 1 \in 1..n /\ i \in Nat
      BY <2>1
    <3>2. f[i - 1] \in Seq(T)
      BY <3>1
    <3> QED BY <1>3, <2>1, <3>1, <3>2
  <2> QED BY <1>3, <2>1
<1>5. g = body(g)
  BY <1>4
<1>6. FlattenSeq(seqs) = g[n]
  BY <1>1 DEF FlattenSeq
<1> HIDE DEF g
<1>7. DOMAIN g = 1..n /\ g[1] = seqs[1] /\ \A i \in 2..n : g[i] = g[i - 1] \o seqs[i]
  <2>1. DOMAIN g = 1..n
    BY <1>5
  <2>2. \A i \in 1..n : g[i] = IF i = 1 THEN seqs[i] ELSE g[i - 1] \o seqs[i]
    BY <1>5, Zenon
  <2> HIDE DEF n
  <2>3. \A i \in 2..n : i \in 1..n /\ i # 1
    BY <1>1
  <2>4. 1 \in 1..n
    BY <1>1
  <2> QED BY <2>1, <2>2, <2>3, <2>4, Zenon
<1>8. \A i \in 1..n : g[i] \in Seq(T)
  <2> DEFINE G == {i \in 1..n : g[i] \in Seq(T)}
  <2>1. 1 \in G
    BY <1>1, <1>7
  <2>2. ASSUME NEW i \in (1 + 1)..n, i - 1 \in G PROVE i \in G
    <3>1. i \in 1..n /\ i \in 2..n /\ g[i - 1] \in Seq(T) /\ seqs[i] \in Seq(T)
      BY <1>1, <2>2
    <3>2. g[i] = g[i - 1] \o seqs[i]
      BY <1>7, <3>1
    <3>3. g[i - 1] \o seqs[i] \in Seq(T)
      BY <3>1
    <3> QED BY <3>1, <3>2, <3>3
  <2> HIDE DEF G, n
  <2>3. \A i \in 1..n : i \in G
    BY <1>1, <2>1, <2>2, UpTo
  <2> QED BY <2>3 DEF G
<1>9. g = [i \in 1..n |-> g[i]]
  BY <1>5
<1> QED BY <1>6, <1>7, <1>8, <1>9 DEF Appends

\* It is a sequence of the same elements, empty if there are none.
LEMMA FlattenType ==
    ASSUME NEW T, NEW seqs \in Seq(Seq(T))
    PROVE  FlattenSeq(seqs) \in Seq(T) /\ (seqs = << >> => FlattenSeq(seqs) = << >>)
<1>1. CASE seqs = << >>
  BY <1>1 DEF FlattenSeq
<1>2. CASE seqs # << >>
  <2>1. PICK f : Appends(f, seqs, T) /\ FlattenSeq(seqs) = f[Len(seqs)]
    BY <1>2, Flattens
  <2>2. Len(seqs) \in 1..Len(seqs)
    BY <1>2
  <2> QED BY <1>2, <2>1, <2>2 DEF Appends
<1> QED BY <1>1, <1>2

\* One sequence is itself.
LEMMA FlattenSingle ==
    ASSUME NEW T, NEW s \in Seq(T)
    PROVE  FlattenSeq(<<s>>) = s
<1> DEFINE seqs == <<s>>
<1>1. seqs \in Seq(Seq(T)) /\ seqs # << >> /\ Len(seqs) = 1 /\ seqs[1] = s
  OBVIOUS
<1> HIDE DEF seqs
<1>2. PICK f : Appends(f, seqs, T) /\ FlattenSeq(seqs) = f[Len(seqs)]
  BY <1>1, Flattens
<1>3. FlattenSeq(seqs) = s
  BY <1>1, <1>2 DEF Appends
<1> QED BY <1>3 DEF seqs

\* Only empty ones are empty together.
LEMMA FlattenEmpty ==
    ASSUME NEW T, NEW seqs \in Seq(Seq(T)), \A i \in DOMAIN seqs : seqs[i] = << >>
    PROVE  FlattenSeq(seqs) = << >>
<1>1. CASE seqs = << >>
  BY <1>1, FlattenType
<1>2. CASE seqs # << >>
  <2> DEFINE n == Len(seqs)
  <2>1. PICK f : Appends(f, seqs, T) /\ FlattenSeq(seqs) = f[n]
    BY <1>2, Flattens
  <2>2. n \in Nat /\ n \in 1..n /\ 1 \in 1..n /\ DOMAIN seqs = 1..n
    BY <1>2
  <2> DEFINE G == {i \in 1..n : f[i] = << >>}
  <2>3. 1 \in G
    BY <2>1, <2>2 DEF Appends
  <2>4. ASSUME NEW i \in (1 + 1)..n, i - 1 \in G PROVE i \in G
    <3>1. i \in 1..n /\ i \in 2..n /\ f[i - 1] = << >>
      BY <2>2, <2>4
    <3>2. f[i] = f[i - 1] \o seqs[i] /\ seqs[i] = << >>
      BY <2>1, <2>2, <3>1 DEF Appends
    <3>3. << >> \o << >> = << >>
      OBVIOUS
    <3> QED BY <3>1, <3>2, <3>3
  <2> HIDE DEF G, n
  <2>5. \A i \in 1..n : i \in G
    BY <2>2, <2>3, <2>4, UpTo
  <2> QED BY <2>1, <2>2, <2>5 DEF G
<1> QED BY <1>1, <1>2

\* What only the one at p has is there as often as there.
LEMMA FlattenCountAt ==
    ASSUME NEW T, NEW seqs \in Seq(Seq(T)), NEW x, NEW p \in DOMAIN seqs,
           \A i \in DOMAIN seqs : i # p => Count(seqs[i], x) = 0
    PROVE  Count(FlattenSeq(seqs), x) = Count(seqs[p], x)
<1> DEFINE n == Len(seqs)
           c(i) == IF p <= i THEN Count(seqs[p], x) ELSE 0
<1>1. PICK f : Appends(f, seqs, T) /\ FlattenSeq(seqs) = f[n]
  BY Flattens
<1>2. n \in Nat /\ n \in 1..n /\ 1 \in 1..n /\ DOMAIN seqs = 1..n /\ p \in 1..n
  OBVIOUS
<1>3. \A i \in 1..n : seqs[i] \in Seq(T) /\ f[i] \in Seq(T) /\ Count(seqs[i], x) \in Nat
  <2>1. ASSUME NEW i \in 1..n PROVE seqs[i] \in Seq(T) /\ f[i] \in Seq(T)
    <3>1. f \in [1..n -> Seq(T)]
      BY <1>1 DEF Appends
    <3>2. f[i] \in Seq(T)
      BY <3>1
    <3>3. seqs[i] \in Seq(T)
      OBVIOUS
    <3> QED BY <3>2, <3>3
  <2> QED BY <2>1, CountType
<1> DEFINE G == {i \in 1..n : Count(f[i], x) = c(i)}
<1>4. 1 \in G
  <2>1. f[1] = seqs[1]
    BY <1>1 DEF Appends
  <2> QED BY <1>2, <2>1
<1>5. ASSUME NEW i \in (1 + 1)..n, i - 1 \in G PROVE i \in G
  <2>1. i \in 1..n /\ i \in 2..n /\ i - 1 \in 1..n /\ Count(f[i - 1], x) = c(i - 1)
    BY <1>2, <1>5
  <2>2. f[i] = f[i - 1] \o seqs[i] /\ f[i - 1] \in Seq(T) /\ seqs[i] \in Seq(T)
    BY <1>1, <1>3, <2>1 DEF Appends
  <2>3. Count(f[i], x) = Count(f[i - 1], x) + Count(seqs[i], x)
    BY <2>2, CountConcat
  <2>4. Count(seqs[i], x) \in Nat /\ Count(seqs[p], x) \in Nat
    BY <1>2, <1>3, <2>1
  <2>5. i # p => Count(seqs[i], x) = 0
    BY <1>2, <2>1
  <2>6. c(i - 1) + Count(seqs[i], x) = c(i)
    BY <1>2, <2>1, <2>4, <2>5
  <2> QED BY <2>1, <2>3, <2>6
<1> HIDE DEF G, n
<1>6. \A i \in 1..n : i \in G
  BY <1>2, <1>4, <1>5, UpTo
<1>7. Count(f[n], x) = c(n)
  BY <1>2, <1>6 DEF G
<1> QED BY <1>1, <1>2, <1>7

\* What none of them has is not there.
LEMMA FlattenCountNone ==
    ASSUME NEW T, NEW seqs \in Seq(Seq(T)), NEW x, \A i \in DOMAIN seqs : Count(seqs[i], x) = 0
    PROVE  Count(FlattenSeq(seqs), x) = 0
<1>1. CASE seqs = << >>
  <2>1. FlattenSeq(seqs) = << >>
    BY <1>1, FlattenType
  <2> QED BY <2>1, CountAbsent
<1>2. CASE seqs # << >>
  <2>1. 1 \in DOMAIN seqs
    BY <1>2
  <2> QED BY <2>1, FlattenCountAt
<1> QED BY <1>1, <1>2

-----------------------------------------------------------------------------
(* Handlers.                                                               *)

\* The states a handler may be in.
HeatmapState == [type : {"heatmap"}, page_counts_ : UNION {[P -> Nat] : P \in SUBSET Nat}]
IntervalState ==
    [type : {"time_interval"}, first_start_ : 0..UINT64_MAX, last_stop_ : 0..UINT64_MAX,
     total_time_ : 0..UINT64_MAX, no_intervals_ : Nat]
Database == {"no_database", "no_kernel", "kernel"}
Handler ==
    HeatmapState \cup IntervalState \cup {message_logger_t, memory_analysis_handler_t}
    \cup {basic_block_analysis(kdb) : kdb \in Database}

\* Every kind of handler has a type of its own.
LEMMA HandlerTypes ==
    ASSUME NEW h \in Handler
    PROVE  /\ h.type = "heatmap" <=> h \in HeatmapState
           /\ h.type = "time_interval" <=> h \in IntervalState
           /\ h.type = "logger" <=> h = message_logger_t
           /\ h.type = "memory_analysis" <=> h = memory_analysis_handler_t
           /\ h.type = "basic_block" <=> \E kdb \in Database : h = basic_block_analysis(kdb)
           /\ h.type \in {"heatmap", "time_interval", "logger", "memory_analysis", "basic_block"}
BY DEF Handler, HeatmapState, IntervalState, message_logger_t, memory_analysis_handler_t,
       basic_block_analysis

\* The handlers of the plugins.
LEMMA NewHandlers ==
    /\ memory_heatmap_t \in HeatmapState /\ time_interval_handler_t \in IntervalState
    /\ {memory_heatmap_t, time_interval_handler_t, message_logger_t, memory_analysis_handler_t}
          \subseteq Handler
    /\ \A kdb \in Database : basic_block_analysis(kdb) \in Handler
<1>1. UINT64_MAX \in Nat
  BY HandlersAssumption
<1>2. EmptyMap \in [{} -> Nat] /\ {} \in SUBSET Nat
  BY DEF EmptyMap
<1>3. memory_heatmap_t \in HeatmapState
  BY <1>2 DEF HeatmapState, memory_heatmap_t
<1>4. time_interval_handler_t \in IntervalState
  BY <1>1 DEF IntervalState, time_interval_handler_t
<1> QED BY <1>3, <1>4 DEF Handler

\* A page is a number.
LEMMA PageType == ASSUME NEW address \in Nat PROVE Page(address) \in Nat
<1>1. page_size \in Nat \ {0}
  BY HandlersAssumption
<1>2. address \div page_size \in Nat
  BY <1>1
<1> QED BY <1>1, <1>2 DEF Page

\* An address adds one to the count of its page.
LEMMA CountPageType ==
    ASSUME NEW h \in HeatmapState, NEW address \in Nat
    PROVE  /\ CountPage(h, address) \in HeatmapState
           /\ CountPage(h, address).page_counts_ =
                 Put(h.page_counts_, Page(address), At(h.page_counts_, Page(address), 0) + 1)
<1> DEFINE f == h.page_counts_
           p == Page(address)
           g == Put(f, p, At(f, p, 0) + 1)
<1>1. PICK P \in SUBSET Nat : f \in [P -> Nat]
  BY DEF HeatmapState
<1>2. p \in Nat
  BY PageType
<1> HIDE DEF p, f
<1>3. At(f, p, 0) + 1 \in Nat
  <2>1. At(f, p, 0) \in Nat
    BY <1>1 DEF At
  <2> QED BY <2>1
<1>4. g \in [P \cup {p} -> Nat] /\ P \cup {p} \in SUBSET Nat
  BY <1>1, <1>2, <1>3 DEF Put
<1>5. CountPage(h, address) = [type |-> "heatmap", page_counts_ |-> g]
  BY DEF CountPage, HeatmapState, f, p
<1> HIDE DEF g
<1>6. CountPage(h, address) \in HeatmapState
  BY <1>4, <1>5 DEF HeatmapState
<1>7. CountPage(h, address).page_counts_ = g
  BY <1>5
<1> QED BY <1>6, <1>7 DEF g, f, p

\* An interval moves the first start and last stop, and adds to the total.
LEMMA AddIntervalType ==
    ASSUME NEW h \in IntervalState, NEW ti \in Interval
    PROVE  LET g == AddInterval(h, ti)
           IN  /\ g \in IntervalState
               /\ g.first_start_ = IF ti.start < h.first_start_ THEN ti.start ELSE h.first_start_
               /\ g.last_stop_ = IF ti.stop > h.last_stop_ THEN ti.stop ELSE h.last_stop_
               /\ g.total_time_ = (h.total_time_ + (ti.stop - ti.start)) % (UINT64_MAX + 1)
               /\ g.no_intervals_ = h.no_intervals_ + 1
<1> DEFINE first == IF ti.start < h.first_start_ THEN ti.start ELSE h.first_start_
           last == IF ti.stop > h.last_stop_ THEN ti.stop ELSE h.last_stop_
           sum == h.total_time_ + (ti.stop - ti.start)
           M == UINT64_MAX + 1
           total == sum % M
           number == h.no_intervals_ + 1
           g == [h EXCEPT !.first_start_ = first, !.last_stop_ = last, !.total_time_ = total,
                          !.no_intervals_ = number]
<1>1. /\ UINT64_MAX \in Nat /\ ti.start \in 0..UINT64_MAX /\ ti.stop \in 0..UINT64_MAX
      /\ h.total_time_ \in 0..UINT64_MAX
  BY HandlersAssumption DEF Interval, IntervalState
<1>2. total \in 0..UINT64_MAX
  <2>1. sum \in Int /\ M \in Nat /\ M > 0 /\ M - 1 = UINT64_MAX
    BY <1>1
  <2> HIDE DEF sum, M
  <2>2. sum % M \in 0..(M - 1)
    BY <2>1
  <2> QED BY <2>1, <2>2
<1>3. first \in 0..UINT64_MAX /\ last \in 0..UINT64_MAX /\ number \in Nat
  BY <1>1 DEF IntervalState
<1>4. AddInterval(h, ti) = g
  BY DEF AddInterval
<1>5. /\ g \in IntervalState
      /\ g.first_start_ = first /\ g.last_stop_ = last /\ g.total_time_ = total
      /\ g.no_intervals_ = number
  <2> HIDE DEF first, last, total, number
  <2> QED BY <1>2, <1>3 DEF IntervalState
<1> HIDE DEF g
<1> QED BY <1>4, <1>5

\* f is the handler h after each of the items: counted, added.
Counts(f, h, items) ==
    /\ f \in [0..Len(items) -> HeatmapState] /\ f[0] = h
    /\ \A n \in 1..Len(items) : f[n] = CountPage(f[n - 1], items[n])

Adds(f, h, items) ==
    /\ f \in [0..Len(items) -> IntervalState] /\ f[0] = h
    /\ \A n \in 1..Len(items) : f[n] = AddInterval(f[n - 1], items[n])

\* The heatmap keeps the pages of the addresses, one after the other.
LEMMA KeptCounts ==
    ASSUME NEW h \in HeatmapState, NEW m, m.items \in Seq(Nat)
    PROVE  \E f : Counts(f, h, m.items) /\ Kept(h, m) = f[Len(m.items)]
<1> DEFINE items == m.items
           n == Len(items)
           body(f) == [i \in 0..n |-> IF i = 0 THEN h ELSE CountPage(f[i - 1], items[i])]
           step == [i \in Nat |-> [x \in HeatmapState |->
                       IF i \in 1..n THEN CountPage(x, items[i]) ELSE x]]
           g == CHOOSE f : f = body(f)
<1>1. n \in Nat /\ 0 <= n /\ 0 \in Nat /\ \A i \in 1..n : items[i] \in Nat
  OBVIOUS
<1>2. step \in [Nat -> [HeatmapState -> HeatmapState]]
  <2>1. ASSUME NEW i \in Nat, NEW x \in HeatmapState
        PROVE  (IF i \in 1..n THEN CountPage(x, items[i]) ELSE x) \in HeatmapState
    BY <1>1, CountPageType
  <2> QED BY <2>1
<1>3. PICK f \in [0..n -> HeatmapState] : /\ f[0] = h
                                         /\ \A i \in 0..n : i # 0 => f[i] = step[i][f[i - 1]]
  <2>1. \E f : Recursion(f, HeatmapState, h, 0, n, step)
    <3> HIDE DEF n, step
    <3> QED BY <1>1, <1>2, RecursionExists
  <2> QED BY <2>1 DEF Recursion
<1>4. \A i \in 0..n : i # 0 => f[i] = CountPage(f[i - 1], items[i])
  <2> SUFFICES ASSUME NEW i \in 0..n, i # 0 PROVE f[i] = CountPage(f[i - 1], items[i])
    OBVIOUS
  <2>1. i \in Nat /\ i \in 1..n /\ i - 1 \in 0..n
    OBVIOUS
  <2>2. f[i - 1] \in HeatmapState
    BY <2>1
  <2> QED BY <1>3, <2>1, <2>2
<1>5. f = body(f)
  BY <1>3, <1>4
<1>6. g = body(g)
  BY <1>5
<1>7. Kept(h, m) = g[n]
  <2>1. h.type = "heatmap"
    BY DEF HeatmapState
  <2> QED BY <2>1 DEF Kept
<1> HIDE DEF g
<1>8. DOMAIN g = 0..n /\ \A i \in 0..n : g[i] = IF i = 0 THEN h ELSE CountPage(g[i - 1], items[i])
  <2>1. DOMAIN g = 0..n
    BY <1>6
  <2>2. \A i \in 0..n : g[i] = IF i = 0 THEN h ELSE CountPage(g[i - 1], items[i])
    BY <1>6, Zenon
  <2> QED BY <2>1, <2>2
<1>9. \A i \in 0..n : g[i] \in HeatmapState
  <2> DEFINE G == {i \in 0..n : g[i] \in HeatmapState}
  <2>1. 0 \in G
    BY <1>1, <1>8
  <2>2. ASSUME NEW i \in (0 + 1)..n, i - 1 \in G PROVE i \in G
    <3>1. i \in 0..n /\ i # 0 /\ items[i] \in Nat /\ g[i - 1] \in HeatmapState
      BY <1>1, <2>2
    <3>2. g[i] = CountPage(g[i - 1], items[i])
      BY <1>8, <3>1
    <3> QED BY <3>1, <3>2, CountPageType
  <2> HIDE DEF G, n
  <2>3. \A i \in 0..n : i \in G
    BY <1>1, <2>1, <2>2, UpTo
  <2> QED BY <2>3 DEF G
<1>10. g \in [0..n -> HeatmapState]
  <2>1. g = [i \in 0..n |-> g[i]]
    BY <1>6
  <2> QED BY <1>9, <2>1
<1>11. Counts(g, h, items)
  <2>1. \A i \in 1..n : i \in 0..n /\ i # 0
    BY <1>1
  <2>2. 0 \in 0..n
    BY <1>1
  <2> QED BY <1>8, <1>10, <2>1, <2>2 DEF Counts
<1> QED BY <1>7, <1>11

\* The intervals are added one after the other.
LEMMA KeptAdds ==
    ASSUME NEW h \in IntervalState, NEW m, m.items \in Seq(Interval)
    PROVE  \E f : Adds(f, h, m.items) /\ Kept(h, m) = f[Len(m.items)]
<1> DEFINE items == m.items
           n == Len(items)
           body(f) == [i \in 0..n |-> IF i = 0 THEN h ELSE AddInterval(f[i - 1], items[i])]
           step == [i \in Nat |-> [x \in IntervalState |->
                       IF i \in 1..n THEN AddInterval(x, items[i]) ELSE x]]
           g == CHOOSE f : f = body(f)
<1>1. n \in Nat /\ 0 <= n /\ 0 \in Nat /\ \A i \in 1..n : items[i] \in Interval
  OBVIOUS
<1>2. step \in [Nat -> [IntervalState -> IntervalState]]
  <2>1. ASSUME NEW i \in Nat, NEW x \in IntervalState
        PROVE  (IF i \in 1..n THEN AddInterval(x, items[i]) ELSE x) \in IntervalState
    BY <1>1, AddIntervalType
  <2> QED BY <2>1
<1>3. PICK f \in [0..n -> IntervalState] : /\ f[0] = h
                                         /\ \A i \in 0..n : i # 0 => f[i] = step[i][f[i - 1]]
  <2>1. \E f : Recursion(f, IntervalState, h, 0, n, step)
    <3> HIDE DEF n, step
    <3> QED BY <1>1, <1>2, RecursionExists
  <2> QED BY <2>1 DEF Recursion
<1>4. \A i \in 0..n : i # 0 => f[i] = AddInterval(f[i - 1], items[i])
  <2> SUFFICES ASSUME NEW i \in 0..n, i # 0 PROVE f[i] = AddInterval(f[i - 1], items[i])
    OBVIOUS
  <2>1. i \in Nat /\ i \in 1..n /\ i - 1 \in 0..n
    OBVIOUS
  <2>2. f[i - 1] \in IntervalState
    BY <2>1
  <2> QED BY <1>3, <2>1, <2>2
<1>5. f = body(f)
  BY <1>3, <1>4
<1>6. g = body(g)
  BY <1>5
<1>7. Kept(h, m) = g[n]
  <2>1. h.type = "time_interval"
    BY DEF IntervalState
  <2> QED BY <2>1 DEF Kept
<1> HIDE DEF g
<1>8. DOMAIN g = 0..n /\ \A i \in 0..n : g[i] = IF i = 0 THEN h ELSE AddInterval(g[i - 1], items[i])
  <2>1. DOMAIN g = 0..n
    BY <1>6
  <2>2. \A i \in 0..n : g[i] = IF i = 0 THEN h ELSE AddInterval(g[i - 1], items[i])
    BY <1>6, Zenon
  <2> QED BY <2>1, <2>2
<1>9. \A i \in 0..n : g[i] \in IntervalState
  <2> DEFINE G == {i \in 0..n : g[i] \in IntervalState}
  <2>1. 0 \in G
    BY <1>1, <1>8
  <2>2. ASSUME NEW i \in (0 + 1)..n, i - 1 \in G PROVE i \in G
    <3>1. i \in 0..n /\ i # 0 /\ items[i] \in Interval /\ g[i - 1] \in IntervalState
      BY <1>1, <2>2
    <3>2. g[i] = AddInterval(g[i - 1], items[i])
      BY <1>8, <3>1
    <3> QED BY <3>1, <3>2, AddIntervalType
  <2> HIDE DEF G, n
  <2>3. \A i \in 0..n : i \in G
    BY <1>1, <2>1, <2>2, UpTo
  <2> QED BY <2>3 DEF G
<1>10. g \in [0..n -> IntervalState]
  <2>1. g = [i \in 0..n |-> g[i]]
    BY <1>6
  <2> QED BY <1>9, <2>1
<1>11. Adds(g, h, items)
  <2>1. \A i \in 1..n : i \in 0..n /\ i # 0
    BY <1>1
  <2>2. 0 \in 0..n
    BY <1>1
  <2> QED BY <1>8, <1>10, <2>1, <2>2 DEF Adds
<1> QED BY <1>7, <1>11

\* A later state of a handler: only heatmaps and intervals have any.
Later(g, h) == g.type = h.type /\ (h.type \notin {"heatmap", "time_interval"} => g = h)

\* A later state takes the same messages.
LEMMA LaterTakes ==
    ASSUME NEW g \in Handler, NEW h \in Handler, Later(g, h), NEW m
    PROVE  Takes(g, m) <=> Takes(h, m)
<1>1. CASE h.type \notin {"heatmap", "time_interval"}
  BY <1>1 DEF Later
<1>2. CASE h.type = "heatmap"
  BY <1>2 DEF Later, Takes
<1>3. CASE h.type = "time_interval"
  BY <1>3 DEF Later, Takes
<1> QED BY <1>1, <1>2, <1>3

\* handle leaves a handler of the same type.
LEMMA KeptType ==
    ASSUME NEW h \in Handler, NEW m \in Message, Takes(h, m)
    PROVE  Kept(h, m) \in Handler /\ Later(Kept(h, m), h)
<1>1. CASE h.type = "heatmap"
  <2>1. m.items \in Seq(Nat) /\ h \in HeatmapState
    BY <1>1, HandlerTypes DEF Takes, Message
  <2>2. PICK f : Counts(f, h, m.items) /\ Kept(h, m) = f[Len(m.items)]
    BY <2>1, KeptCounts
  <2>3. Len(m.items) \in 0..Len(m.items)
    BY <2>1
  <2>4. Kept(h, m) \in HeatmapState
    BY <2>2, <2>3 DEF Counts
  <2> QED BY <1>1, <2>4 DEF Handler, HeatmapState, Later
<1>2. CASE h.type = "time_interval"
  <2>1. m.items \in Seq(Interval) /\ h \in IntervalState
    BY <1>2, HandlerTypes DEF Takes, Message
  <2>2. PICK f : Adds(f, h, m.items) /\ Kept(h, m) = f[Len(m.items)]
    BY <2>1, KeptAdds
  <2>3. Len(m.items) \in 0..Len(m.items)
    BY <2>1
  <2>4. Kept(h, m) \in IntervalState
    BY <2>2, <2>3 DEF Adds
  <2> QED BY <1>2, <2>4 DEF Handler, IntervalState, Later
<1>3. CASE h.type \notin {"heatmap", "time_interval"}
  <2>1. Kept(h, m) = h
    BY <1>3 DEF Kept
  <2> QED BY <2>1 DEF Later
<1> QED BY <1>1, <1>2, <1>3

-----------------------------------------------------------------------------
(* Chains of handlers.                                                     *)

LaterChain(gs, hs) ==
    gs \in Seq(Handler) /\ Len(gs) = Len(hs) /\ \A i \in 1..Len(hs) : Later(gs[i], hs[i])

\* A message leaves a chain of the same handlers.
LEMMA PassedType ==
    ASSUME NEW hs \in Seq(Handler), NEW m \in Message
    PROVE  Passed(hs, m) \in Seq(Handler) /\ LaterChain(Passed(hs, m), hs)
<1>1. ASSUME NEW i \in 1..Len(hs)
      PROVE  LET h == IF i \in Takers(hs, m) THEN Kept(hs[i], m) ELSE hs[i]
             IN  h \in Handler /\ Later(h, hs[i])
  <2>1. CASE i \in Takers(hs, m)
    <3>1. hs[i] \in Handler /\ Takes(hs[i], m)
      BY <2>1 DEF Takers
    <3> QED BY <2>1, <3>1, KeptType
  <2>2. CASE i \notin Takers(hs, m)
    BY <2>2 DEF Later
  <2> QED BY <2>1, <2>2
<1>2. DOMAIN hs = 1..Len(hs) /\ Len(hs) \in Nat
  OBVIOUS
<1>3. /\ Passed(hs, m) \in [1..Len(hs) -> Handler]
      /\ \A i \in 1..Len(hs) : Later(Passed(hs, m)[i], hs[i])
  BY <1>1, <1>2 DEF Passed
<1>4. Passed(hs, m) \in Seq(Handler) /\ Len(Passed(hs, m)) = Len(hs)
  BY <1>2, <1>3
<1> QED BY <1>3, <1>4 DEF LaterChain

\* A chain after some messages and then others.
LEMMA LaterTransitive ==
    ASSUME NEW fs, NEW gs, NEW hs, LaterChain(gs, fs), LaterChain(hs, gs)
    PROVE  LaterChain(hs, fs)
BY DEF LaterChain, Later

\* f is the chain hs after each message of buffer.
Drains(f, hs, buffer) ==
    /\ f \in [0..Len(buffer) -> Seq(Handler)] /\ f[0] = hs
    /\ \A n \in 1..Len(buffer) : f[n] = Passed(f[n - 1], buffer[n])

\* stop() passes the messages on one after the other; what is written is what
\* is written on each.
LEMMA StoppedDrains ==
    ASSUME NEW obj, obj.handlers \in Seq(Handler), obj.buffer \in Seq(Message), NEW d
    PROVE  \E f : /\ Drains(f, obj.handlers, obj.buffer)
                 /\ Stopped(obj, d).handlers = f[Len(obj.buffer)]
                 /\ Stopped(obj, d).text =
                       FlattenSeq([n \in DOMAIN obj.buffer |-> TextOf(f[n - 1], obj.buffer[n], d)])
<1> DEFINE buffer == obj.buffer
           hs == obj.handlers
           n == Len(buffer)
           body(f) == [i \in 0..n |-> IF i = 0 THEN hs ELSE Passed(f[i - 1], buffer[i])]
           step == [i \in Nat |-> [x \in Seq(Handler) |->
                       IF i \in 1..n THEN Passed(x, buffer[i]) ELSE x]]
           g == CHOOSE f : f = body(f)
<1>1. n \in Nat /\ 0 <= n /\ 0 \in Nat /\ \A i \in 1..n : buffer[i] \in Message
  OBVIOUS
<1>2. step \in [Nat -> [Seq(Handler) -> Seq(Handler)]]
  <2>1. ASSUME NEW i \in Nat, NEW x \in Seq(Handler)
        PROVE  (IF i \in 1..n THEN Passed(x, buffer[i]) ELSE x) \in Seq(Handler)
    BY <1>1, PassedType
  <2> QED BY <2>1
<1>3. PICK f \in [0..n -> Seq(Handler)] : /\ f[0] = hs
                                         /\ \A i \in 0..n : i # 0 => f[i] = step[i][f[i - 1]]
  <2>1. \E f : Recursion(f, Seq(Handler), hs, 0, n, step)
    <3> HIDE DEF n, step
    <3> QED BY <1>1, <1>2, RecursionExists
  <2> QED BY <2>1 DEF Recursion
<1>4. \A i \in 0..n : i # 0 => f[i] = Passed(f[i - 1], buffer[i])
  <2> SUFFICES ASSUME NEW i \in 0..n, i # 0 PROVE f[i] = Passed(f[i - 1], buffer[i])
    OBVIOUS
  <2>1. i \in Nat /\ i \in 1..n /\ i - 1 \in 0..n
    OBVIOUS
  <2>2. f[i - 1] \in Seq(Handler)
    BY <2>1
  <2> QED BY <1>3, <2>1, <2>2
<1>5. f = body(f)
  BY <1>3, <1>4
<1>6. g = body(g)
  BY <1>5
<1>7. /\ Stopped(obj, d).handlers = g[n]
      /\ Stopped(obj, d).text = FlattenSeq([i \in DOMAIN buffer |-> TextOf(g[i - 1], buffer[i], d)])
  BY DEF Stopped
<1> HIDE DEF g
<1>8. DOMAIN g = 0..n /\ \A i \in 0..n : g[i] = IF i = 0 THEN hs ELSE Passed(g[i - 1], buffer[i])
  <2>1. DOMAIN g = 0..n
    BY <1>6
  <2>2. \A i \in 0..n : g[i] = IF i = 0 THEN hs ELSE Passed(g[i - 1], buffer[i])
    BY <1>6, Zenon
  <2> QED BY <2>1, <2>2
<1>9. \A i \in 0..n : g[i] \in Seq(Handler)
  <2> DEFINE G == {i \in 0..n : g[i] \in Seq(Handler)}
  <2>1. 0 \in G
    BY <1>1, <1>8
  <2>2. ASSUME NEW i \in (0 + 1)..n, i - 1 \in G PROVE i \in G
    <3>1. i \in 0..n /\ i # 0 /\ buffer[i] \in Message /\ g[i - 1] \in Seq(Handler)
      BY <1>1, <2>2
    <3>2. g[i] = Passed(g[i - 1], buffer[i])
      BY <1>8, <3>1
    <3> QED BY <3>1, <3>2, PassedType
  <2> HIDE DEF G, n
  <2>3. \A i \in 0..n : i \in G
    BY <1>1, <2>1, <2>2, UpTo
  <2> QED BY <2>3 DEF G
<1>10. g \in [0..n -> Seq(Handler)]
  <2>1. g = [i \in 0..n |-> g[i]]
    BY <1>6
  <2> QED BY <1>9, <2>1
<1>11. Drains(g, hs, buffer)
  <2>1. \A i \in 1..n : i \in 0..n /\ i # 0
    BY <1>1
  <2>2. 0 \in 0..n
    BY <1>1
  <2> QED BY <1>8, <1>10, <2>1, <2>2 DEF Drains
<1> QED BY <1>7, <1>11

\* Each of these chains has the same handlers.
LEMMA DrainsLater ==
    ASSUME NEW hs \in Seq(Handler), NEW buffer \in Seq(Message), NEW f, Drains(f, hs, buffer)
    PROVE  \A n \in 0..Len(buffer) : LaterChain(f[n], hs)
<1> DEFINE G == {n \in 0..Len(buffer) : LaterChain(f[n], hs)}
<1>1. 0 \in G
  BY DEF Drains, LaterChain, Later
<1>2. ASSUME NEW n \in (0 + 1)..Len(buffer), n - 1 \in G PROVE n \in G
  <2>1. /\ n \in 1..Len(buffer) /\ n \in 0..Len(buffer) /\ n - 1 \in 0..Len(buffer)
        /\ LaterChain(f[n - 1], hs) /\ buffer[n] \in Message
    BY <1>2
  <2>2. f[n] = Passed(f[n - 1], buffer[n]) /\ f[n - 1] \in Seq(Handler)
    BY <2>1 DEF Drains
  <2>3. LaterChain(f[n], f[n - 1])
    BY <2>1, <2>2, PassedType
  <2> QED BY <2>1, <2>3, LaterTransitive
<1>3. Len(buffer) \in Nat
  OBVIOUS
<1> HIDE DEF G
<1>4. \A n \in 0..Len(buffer) : n \in G
  BY <1>1, <1>2, <1>3, UpTo
<1> QED BY <1>4 DEF G

-----------------------------------------------------------------------------
(* What the handlers write.                                                *)

Kinds == {"open", "comma", "close", "object", "record", "text"}
LogToken == [kind : Kinds, id : Nat]
PlainToken == [kind : {"text", "record"}, id : Nat]
ObjectOf(id) == [kind |-> "object", id |-> id]
TextLine(id) == [kind |-> "text", id |-> id]

\* A token is a piece of log of length one.
LEMMA TokenType ==
    ASSUME NEW kind \in Kinds, NEW id \in Nat
    PROVE  /\ Token(kind, id) \in Seq(LogToken) /\ Len(Token(kind, id)) = 1
           /\ Token(kind, id)[1] = [kind |-> kind, id |-> id]
           /\ kind \in {"text", "record"} => Token(kind, id) \in Seq(PlainToken)
BY DEF Token, LogToken, PlainToken

\* How often a token is there that was written once.
LEMMA TokenCount ==
    ASSUME NEW kind \in Kinds, NEW id \in Nat, NEW x
    PROVE  Count(Token(kind, id), x) = IF x = [kind |-> kind, id |-> id] THEN 1 ELSE 0
<1> DEFINE t == Token(kind, id)
           r == [kind |-> kind, id |-> id]
<1>1. DOMAIN t = {1} /\ t[1] = r
  BY DEF Token
<1> HIDE DEF t, r
<1>2. ASSUME x = r PROVE Count(t, x) = 1
  <2>1. 1 \in DOMAIN t /\ t[1] = x /\ \A i \in DOMAIN t : t[i] = x => i = 1
    BY <1>1, <1>2
  <2> QED BY <1>2, <2>1, CountOne
<1>3. ASSUME x # r PROVE Count(t, x) = 0
  <2>1. \A i \in DOMAIN t : t[i] # x
    BY <1>1, <1>3
  <2> QED BY <1>3, <2>1, CountAbsent
<1> QED BY <1>2, <1>3 DEF t, r

\* Plain text is text of the log without a report of the memory analysis.
LEMMA PlainText ==
    ASSUME NEW t \in Seq(PlainToken)
    PROVE  t \in Seq(LogToken) /\ \A id : Count(t, ObjectOf(id)) = 0
<1>1. \A i \in DOMAIN t : t[i] \in PlainToken
  OBVIOUS
<1>2. PlainToken \subseteq LogToken
  BY DEF PlainToken, LogToken, Kinds
<1>3. t \in Seq(LogToken)
  BY <1>1, <1>2
<1>4. ASSUME NEW id PROVE Count(t, ObjectOf(id)) = 0
  <2>1. \A i \in DOMAIN t : t[i] # ObjectOf(id)
    BY <1>1 DEF PlainToken, ObjectOf
  <2> QED BY <2>1, CountAbsent
<1> QED BY <1>3, <1>4

\* Of the handlers only the memory analysis writes anything else.
LEMMA HandlerText ==
    ASSUME NEW h \in Handler, NEW m, NEW id \in Nat, NEW js \in BOOLEAN, NEW flushed \in BOOLEAN
    PROVE  /\ WrittenFirst(h, id, js) \in Seq(PlainToken)
           /\ WrittenOn(h, m, id, js) \in Seq(PlainToken)
           /\ h.type # "memory_analysis" => WrittenLast(h, id, js, flushed) \in Seq(PlainToken)
<1>1. /\ << >> \in Seq(PlainToken) /\ Token("text", id) \in Seq(PlainToken)
      /\ Token("record", id) \in Seq(PlainToken)
  <2>1. "text" \in Kinds /\ "record" \in Kinds
    BY DEF Kinds
  <2>2. << >> \in Seq(PlainToken)
    OBVIOUS
  <2> QED BY <2>1, <2>2, TokenType, Zenon
<1>2. /\ Token("text", id) \o Token("record", id) \in Seq(PlainToken)
      /\ Token("record", id) \o Token("text", id) \in Seq(PlainToken)
  BY <1>1
<1> DEFINE both == Token("text", id) \o Token("record", id)
           htob == Token("record", id) \o Token("text", id)
<1>3. WrittenFirst(h, id, js) \in Seq(PlainToken)
  BY <1>1 DEF WrittenFirst
<1>4. WrittenOn(h, m, id, js) \in {<< >>, Token("record", id), both}
  <2> HIDE DEF both
  <2>1. WrittenOn(h, m, id, js) =
          CASE h.type = "logger" /\ m.kind = "address" /\ ~js -> both
            [] h.type = "logger" /\ m.kind = "address" /\ js -> Token("record", id)
            [] h.type = "logger" /\ m.kind = "header" -> Token("record", id)
            [] OTHER -> << >>
    BY DEF WrittenOn, both
  <2>2. CASE h.type = "logger" /\ m.kind = "address" /\ ~js
    BY <2>1, <2>2
  <2>3. CASE h.type = "logger" /\ m.kind = "address" /\ js
    BY <2>1, <2>3
  <2>4. CASE h.type = "logger" /\ m.kind = "header"
    BY <2>1, <2>4
  <2>5. CASE h.type # "logger" \/ m.kind \notin {"address", "header"}
    BY <2>1, <2>5
  <2> QED BY <2>2, <2>3, <2>4, <2>5
<1>5. h.type # "memory_analysis" =>
        WrittenLast(h, id, js, flushed) \in {<< >>, Token("record", id), Token("text", id), htob}
  <2> SUFFICES ASSUME h.type # "memory_analysis"
               PROVE  WrittenLast(h, id, js, flushed)
                        \in {<< >>, Token("record", id), Token("text", id), htob}
    OBVIOUS
  <2>1. CASE h.type = "heatmap"
    BY <2>1 DEF WrittenLast, HeatmapReport
  <2>2. CASE h.type = "time_interval"
    BY <2>2 DEF WrittenLast, IntervalReport
  <2>3. CASE h.type = "basic_block"
    BY <2>3 DEF WrittenLast, BlockReport
  <2>4. CASE h.type = "logger"
    BY <2>4 DEF WrittenLast
  <2> QED BY <2>1, <2>2, <2>3, <2>4, HandlerTypes
<1> QED BY <1>1, <1>2, <1>3, <1>4, <1>5

\* Likewise as a chain is made and on each message.
LEMMA ChainText ==
    ASSUME NEW hs \in Seq(Handler), NEW m, NEW id \in Nat
    PROVE  /\ FlattenSeq([i \in DOMAIN hs |-> WrittenFirst(hs[i], id, json)]) \in Seq(PlainToken)
           /\ TextOf(hs, m, id) \in Seq(PlainToken)
<1> DEFINE first == [i \in DOMAIN hs |-> WrittenFirst(hs[i], id, json)]
           on == [i \in DOMAIN hs |->
                    IF i \in Takers(hs, m) THEN WrittenOn(hs[i], m, id, json) ELSE << >>]
<1>1. DOMAIN hs = 1..Len(hs) /\ Len(hs) \in Nat /\ json \in BOOLEAN /\ FALSE \in BOOLEAN
  BY DEF json
<1>2. \A i \in 1..Len(hs) : /\ WrittenFirst(hs[i], id, json) \in Seq(PlainToken)
                            /\ WrittenOn(hs[i], m, id, json) \in Seq(PlainToken)
  <2>1. \A i \in 1..Len(hs) : hs[i] \in Handler
    OBVIOUS
  <2> QED BY <1>1, <2>1, HandlerText
<1>3. << >> \in Seq(PlainToken)
  OBVIOUS
<1>4. first \in [1..Len(hs) -> Seq(PlainToken)] /\ on \in [1..Len(hs) -> Seq(PlainToken)]
  BY <1>1, <1>2, <1>3
<1>5. first \in Seq(Seq(PlainToken)) /\ on \in Seq(Seq(PlainToken))
  <2> HIDE DEF first, on
  <2> QED BY <1>1, <1>4
<1>6. FlattenSeq(first) \in Seq(PlainToken) /\ FlattenSeq(on) \in Seq(PlainToken)
  <2> HIDE DEF first, on
  <2> QED BY <1>5, FlattenType
<1> QED BY <1>6 DEF TextOf

\* stop() leaves the same handlers, and writes plain text.
LEMMA StoppedType ==
    ASSUME NEW obj, obj.handlers \in Seq(Handler), obj.buffer \in Seq(Message), NEW d \in Nat
    PROVE  /\ LaterChain(Stopped(obj, d).handlers, obj.handlers)
           /\ Stopped(obj, d).text \in Seq(PlainToken)
<1> DEFINE hs == obj.handlers
           buffer == obj.buffer
<1>1. PICK f : /\ Drains(f, hs, buffer)
               /\ Stopped(obj, d).handlers = f[Len(buffer)]
               /\ Stopped(obj, d).text =
                     FlattenSeq([n \in DOMAIN buffer |-> TextOf(f[n - 1], buffer[n], d)])
  BY StoppedDrains
<1> DEFINE on == [n \in DOMAIN buffer |-> TextOf(f[n - 1], buffer[n], d)]
<1>2. hs \in Seq(Handler) /\ buffer \in Seq(Message)
  OBVIOUS
<1> HIDE DEF hs, buffer
<1>3. DOMAIN buffer = 1..Len(buffer) /\ Len(buffer) \in Nat /\ Len(buffer) \in 0..Len(buffer)
  BY <1>2
<1>4. LaterChain(f[Len(buffer)], hs)
  BY <1>1, <1>2, <1>3, DrainsLater
<1>5. ASSUME NEW n \in 1..Len(buffer) PROVE TextOf(f[n - 1], buffer[n], d) \in Seq(PlainToken)
  <2>1. n - 1 \in 0..Len(buffer)
    BY <1>3
  <2>2. f[n - 1] \in Seq(Handler)
    BY <1>1, <2>1 DEF Drains
  <2> QED BY <2>2, ChainText
<1>6. on \in [1..Len(buffer) -> Seq(PlainToken)]
  BY <1>3, <1>5
<1> HIDE DEF on
<1>7. on \in Seq(Seq(PlainToken))
  BY <1>3, <1>6
<1>8. FlattenSeq(on) \in Seq(PlainToken)
  BY <1>7, FlattenType
<1> QED BY <1>1, <1>4, <1>8 DEF on, hs

\* A chain has at most one memory analysis.
OneAnalysis(hs) ==
    \A i, j \in 1..Len(hs) :
        hs[i].type = "memory_analysis" /\ hs[j].type = "memory_analysis" => i = j

\* report_json writes one object, of its own dispatch.
LEMMA AnalysisText ==
    ASSUME NEW d \in Nat, NEW js \in BOOLEAN, NEW flushed \in BOOLEAN
    PROVE  LET t == AnalysisReport(d, js, flushed)
           IN  /\ t \in Seq(LogToken)
               /\ \A id : Count(t, ObjectOf(id)) = IF id = d /\ js /\ flushed THEN 1 ELSE 0
               /\ js /\ flushed => Len(t) = 2 /\ t[1] = Opening(d)[1] /\ t[2] = ObjectOf(d)
<1> DEFINE open == Opening(d)
           object == Token("object", d)
<1>1. \E kind \in {"open", "comma"} : open = Token(kind, 0)
  BY DEF Opening
<1>2. PICK kind \in {"open", "comma"} : open = Token(kind, 0)
  BY <1>1
<1>3. kind \in Kinds /\ "object" \in Kinds /\ 0 \in Nat
  BY DEF Kinds
<1>4. open \in Seq(LogToken) /\ object \in Seq(LogToken)
  BY <1>2, <1>3, TokenType
<1>5. ASSUME NEW id
      PROVE  Count(open, ObjectOf(id)) = 0 /\ Count(object, ObjectOf(id)) = IF id = d THEN 1 ELSE 0
  <2>1. Count(open, ObjectOf(id)) = 0
    <3>1. ObjectOf(id) # [kind |-> kind, id |-> 0]
      BY DEF ObjectOf
    <3> QED BY <1>2, <1>3, <3>1, TokenCount
  <2>2. Count(object, ObjectOf(id)) = IF id = d THEN 1 ELSE 0
    <3>1. ObjectOf(id) = [kind |-> "object", id |-> d] <=> id = d
      BY DEF ObjectOf
    <3> HIDE DEF object
    <3>2. Count(object, ObjectOf(id)) = IF ObjectOf(id) = [kind |-> "object", id |-> d] THEN 1 ELSE 0
      BY <1>3, TokenCount, Zenon DEF object
    <3> QED BY <3>1, <3>2
  <2> QED BY <2>1, <2>2
<1>6. Len(open) = 1 /\ Len(object) = 1 /\ object[1] = ObjectOf(d)
  BY <1>2 DEF Token, ObjectOf
<1>7. CASE js /\ flushed
  <2>1. AnalysisReport(d, js, flushed) = open \o object
    BY <1>7 DEF AnalysisReport
  <2> HIDE DEF open, object
  <2>2. open \o object \in Seq(LogToken)
    BY <1>4
  <2>3. ASSUME NEW id PROVE Count(open \o object, ObjectOf(id)) = IF id = d THEN 1 ELSE 0
    <3>1. Count(open \o object, ObjectOf(id)) = Count(open, ObjectOf(id)) + Count(object, ObjectOf(id))
      BY <1>4, CountConcat
    <3> QED BY <1>5, <3>1
  <2>4. Len(open \o object) = 2 /\ (open \o object)[1] = open[1] /\ (open \o object)[2] = ObjectOf(d)
    <3> DEFINE u == open
               v == object
    <3>1. u \in Seq(LogToken) /\ v \in Seq(LogToken) /\ Len(u) = 1 /\ Len(v) = 1
      BY <1>4, <1>6
    <3> HIDE DEF u, v
    <3>2. Len(u \o v) = 2 /\ (u \o v)[1] = u[1] /\ (u \o v)[2] = v[1]
      <4>1. /\ Len(u \o v) = Len(u) + Len(v)
            /\ \A i \in 1..Len(u) : (u \o v)[i] = u[i]
            /\ \A i \in 1..Len(v) : (u \o v)[i + Len(u)] = v[i]
        BY <3>1, ConcatFacts
      <4>2. (u \o v)[1 + 1] = v[1]
        BY <3>1, <4>1
      <4> QED BY <3>1, <4>1, <4>2
    <3> QED BY <1>6, <3>2 DEF u, v
  <2> QED BY <1>7, <2>1, <2>2, <2>3, <2>4 DEF open
<1>8. CASE ~(js /\ flushed)
  <2>1. AnalysisReport(d, js, flushed) = << >>
    BY <1>8 DEF AnalysisReport
  <2>2. \A id : Count(<< >>, ObjectOf(id)) = 0
    BY CountAbsent
  <2>3. << >> \in Seq(LogToken)
    OBVIOUS
  <2> QED BY <1>8, <2>1, <2>2, <2>3
<1> QED BY <1>7, <1>8

\* What the first n handlers of a chain write in their reports.
LastText(hs, n, d, js, flushed) == FlattenSeq([i \in 1..n |-> WrittenLast(hs[i], d, js, flushed)])

\* t has the object of a memory analysis among these handlers, and no other.
Analysed(t, hs, n, d, js, flushed) ==
    /\ t \in Seq(LogToken)
    /\ \A id : Count(t, ObjectOf(id)) =
          IF /\ id = d /\ js /\ flushed
             /\ \E i \in 1..n : hs[i].type = "memory_analysis"
          THEN 1 ELSE 0

\* The reports of the first n handlers hold the object of their dispatch once
\* if the memory analysis is one of them and was written through.
LEMMA ReportText ==
    ASSUME NEW hs \in Seq(Handler), OneAnalysis(hs), NEW n \in 0..Len(hs), NEW d \in Nat,
           NEW js \in BOOLEAN, NEW flushed \in BOOLEAN
    PROVE  Analysed(LastText(hs, n, d, js, flushed), hs, n, d, js, flushed)
<1> DEFINE last == [i \in 1..n |-> WrittenLast(hs[i], d, js, flushed)]
<1>1. n \in Nat /\ \A i \in 1..n : i \in 1..Len(hs) /\ hs[i] \in Handler
  OBVIOUS
<1>2. ASSUME NEW i \in 1..n, hs[i].type # "memory_analysis"
      PROVE  last[i] \in Seq(LogToken) /\ \A id : Count(last[i], ObjectOf(id)) = 0
  <2>1. last[i] \in Seq(PlainToken)
    BY <1>1, <1>2, HandlerText
  <2> HIDE DEF last
  <2> QED BY <2>1, PlainText
<1>3. ASSUME NEW i \in 1..n, hs[i].type = "memory_analysis"
      PROVE  /\ last[i] \in Seq(LogToken)
             /\ \A id : Count(last[i], ObjectOf(id)) = IF id = d /\ js /\ flushed THEN 1 ELSE 0
  <2>1. last[i] = AnalysisReport(d, js, flushed)
    BY <1>3 DEF WrittenLast
  <2> HIDE DEF last
  <2>2. /\ AnalysisReport(d, js, flushed) \in Seq(LogToken)
        /\ \A id : Count(AnalysisReport(d, js, flushed), ObjectOf(id)) =
                     IF id = d /\ js /\ flushed THEN 1 ELSE 0
    BY AnalysisText
  <2> QED BY <2>1, <2>2
<1>4. DOMAIN last = 1..n /\ last = [i \in 1..n |-> last[i]]
  OBVIOUS
<1> HIDE DEF last
<1>5. \A i \in 1..n : last[i] \in Seq(LogToken)
  BY <1>2, <1>3
<1>6. last \in Seq(Seq(LogToken))
  <2>1. last \in [1..n -> Seq(LogToken)]
    BY <1>4, <1>5
  <2> QED BY <1>1, <2>1
<1>7. FlattenSeq(last) \in Seq(LogToken)
  BY <1>6, FlattenType
<1>8. ASSUME NEW id
      PROVE  Count(FlattenSeq(last), ObjectOf(id)) =
                IF id = d /\ js /\ flushed /\ \E i \in 1..n : hs[i].type = "memory_analysis"
                THEN 1 ELSE 0
  <2>1. CASE \E i \in 1..n : hs[i].type = "memory_analysis"
    <3>1. PICK p \in 1..n : hs[p].type = "memory_analysis"
      BY <2>1
    <3>2. \A i \in DOMAIN last : i # p => Count(last[i], ObjectOf(id)) = 0
      <4>1. \A i \in 1..n : i # p => hs[i].type # "memory_analysis"
        BY <1>1, <3>1 DEF OneAnalysis
      <4> QED BY <1>2, <1>4, <4>1
    <3>3. Count(FlattenSeq(last), ObjectOf(id)) = Count(last[p], ObjectOf(id))
      BY <1>4, <1>6, <3>1, <3>2, FlattenCountAt
    <3> QED BY <1>3, <2>1, <3>1, <3>3
  <2>2. CASE \A i \in 1..n : hs[i].type # "memory_analysis"
    <3>1. \A i \in DOMAIN last : Count(last[i], ObjectOf(id)) = 0
      BY <1>2, <1>4, <2>2
    <3>2. Count(FlattenSeq(last), ObjectOf(id)) = 0
      BY <1>6, <3>1, FlattenCountNone
    <3> QED BY <2>2, <3>2
  <2> QED BY <2>1, <2>2
<1> QED BY <1>7, <1>8 DEF last, LastText, Analysed

-----------------------------------------------------------------------------
(* The log.                                                                *)

\* lg has the object of each dispatch of wr once and no other; a line of text
\* for each dispatch that is done.
Filed(lg, wr) ==
    \A id \in Nat \ {0} :
        Count(lg, ObjectOf(id)) = IF \E i \in 1..Len(wr) : wr[i] = id THEN 1 ELSE 0

Lined(lg, done) ==
    \A id \in Nat \ {0} : Count(lg, TextLine(id)) = IF id \in done THEN 1 ELSE 0

\* An empty log and that of an earlier session have neither.
LEMMA LogBegins ==
    ASSUME NEW lg, lg \in {<< >>, EarlierLog}
    PROVE  lg \in Seq(LogToken) /\ Filed(lg, << >>) /\ Lined(lg, {})
<1>1. /\ {"open", "object", "close"} \subseteq Kinds /\ 0 \in Nat
      /\ Token("open", 0) \in Seq(LogToken) /\ Token("object", 0) \in Seq(LogToken)
      /\ Token("close", 0) \in Seq(LogToken)
  BY TokenType DEF Kinds
<1>2. lg \in Seq(LogToken)
  <2>1. << >> \in Seq(LogToken)
    OBVIOUS
  <2>2. Token("open", 0) \o Token("object", 0) \in Seq(LogToken)
    BY <1>1
  <2>3. (Token("open", 0) \o Token("object", 0)) \o Token("close", 0) \in Seq(LogToken)
    BY <1>1, <2>2, ConcatFacts
  <2> QED BY <2>1, <2>3 DEF EarlierLog
<1>3. ASSUME NEW x, NEW id \in Nat \ {0}, x \in {ObjectOf(id), TextLine(id)}
      PROVE  Count(lg, x) = 0
  <2>1. CASE lg = << >>
    BY <2>1, CountAbsent
  <2>2. CASE lg = EarlierLog
    <3>1. /\ x # [kind |-> "open", id |-> 0] /\ x # [kind |-> "object", id |-> 0]
          /\ x # [kind |-> "close", id |-> 0]
      BY <1>3 DEF ObjectOf, TextLine
    <3>2. /\ Count(Token("open", 0), x) = 0 /\ Count(Token("object", 0), x) = 0
          /\ Count(Token("close", 0), x) = 0
      BY <1>1, <3>1, TokenCount
    <3>3. Count(Token("open", 0) \o Token("object", 0), x) = 0
      BY <1>1, <3>2, CountConcat
    <3>4. Token("open", 0) \o Token("object", 0) \in Seq(LogToken)
      BY <1>1
    <3> DEFINE u == Token("open", 0) \o Token("object", 0)
               v == Token("close", 0)
    <3>5. Count(u \o v, x) = Count(u, x) + Count(v, x)
      <4> HIDE DEF u, v
      <4> QED BY <1>1, <3>4, CountConcat DEF u, v
    <3>6. Count(u \o v, x) = 0
      BY <3>2, <3>3, <3>5
    <3> QED BY <2>2, <3>6 DEF EarlierLog
  <2> QED BY <2>1, <2>2
<1>4. Filed(lg, << >>)
  BY <1>3 DEF Filed
<1>5. Lined(lg, {})
  BY <1>3 DEF Lined
<1> QED BY <1>2, <1>4, <1>5

\* What has no object changes nothing of the first, one without lines
\* nothing of the second.
LEMMA LogPlain ==
    ASSUME NEW lg \in Seq(LogToken), NEW t \in Seq(LogToken), NEW wr, Filed(lg, wr),
           \A id : Count(t, ObjectOf(id)) = 0
    PROVE  lg \o t \in Seq(LogToken) /\ Filed(lg \o t, wr)
<1>1. lg \o t \in Seq(LogToken)
  OBVIOUS
<1>2. ASSUME NEW id \in Nat \ {0} PROVE Count(lg \o t, ObjectOf(id)) = Count(lg, ObjectOf(id))
  <2>1. Count(lg \o t, ObjectOf(id)) = Count(lg, ObjectOf(id)) + Count(t, ObjectOf(id))
    BY CountConcat
  <2>2. Count(lg, ObjectOf(id)) \in Nat
    BY CountType
  <2> QED BY <2>1, <2>2
<1> QED BY <1>1, <1>2 DEF Filed

\* A report that is written for the first time.
LEMMA LogReport ==
    ASSUME NEW lg \in Seq(LogToken), NEW t \in Seq(LogToken), NEW D, NEW wr \in Seq(D), NEW d \in Nat,
           Filed(lg, wr), \A i \in 1..Len(wr) : wr[i] # d,
           \A id : Count(t, ObjectOf(id)) = IF id = d THEN 1 ELSE 0
    PROVE  lg \o t \in Seq(LogToken) /\ Filed(lg \o t, Append(wr, d))
<1>1. lg \o t \in Seq(LogToken)
  OBVIOUS
<1> DEFINE after == Append(wr, d)
<1>2. /\ Len(after) = Len(wr) + 1 /\ after[Len(wr) + 1] = d /\ Len(wr) \in Nat
      /\ \A i \in 1..Len(wr) : after[i] = wr[i]
  OBVIOUS
<1> HIDE DEF after
<1>3. ASSUME NEW id \in Nat \ {0}
      PROVE  Count(lg \o t, ObjectOf(id)) = IF \E i \in 1..Len(after) : after[i] = id THEN 1 ELSE 0
  <2>1. Count(lg \o t, ObjectOf(id)) = Count(lg, ObjectOf(id)) + Count(t, ObjectOf(id))
    BY CountConcat
  <2>2. Count(lg, ObjectOf(id)) = IF \E i \in 1..Len(wr) : wr[i] = id THEN 1 ELSE 0
    BY DEF Filed
  <2>3. CASE id = d
    <3>1. Count(lg, ObjectOf(id)) = 0 /\ Count(t, ObjectOf(id)) = 1
      BY <2>2, <2>3
    <3>2. Len(wr) + 1 \in 1..Len(after) /\ after[Len(wr) + 1] = id
      BY <1>2, <2>3
    <3> QED BY <2>1, <3>1, <3>2
  <2>4. CASE id # d
    <3>1. Count(t, ObjectOf(id)) = 0
      BY <2>4
    <3>2. Count(lg \o t, ObjectOf(id)) = IF \E i \in 1..Len(wr) : wr[i] = id THEN 1 ELSE 0
      BY <2>1, <2>2, <3>1
    <3>3. (\E i \in 1..Len(after) : after[i] = id) <=> \E i \in 1..Len(wr) : wr[i] = id
      <4>1. 1..Len(after) = (1..Len(wr)) \cup {Len(wr) + 1}
        BY <1>2
      <4> QED BY <1>2, <2>4, <4>1, Zenon
    <3> QED BY <3>2, <3>3, Zenon
  <2> QED BY <2>3, <2>4
<1> QED BY <1>1, <1>3 DEF Filed, after

\* A line of text, of the dispatch d, or of none.
LEMMA LogLine ==
    ASSUME NEW lg \in Seq(LogToken), NEW d \in Nat, NEW done, Lined(lg, done), d \notin done
    PROVE  Lined(lg \o Token("text", d), done \cup {d}) /\ (d = 0 => Lined(lg \o Token("text", d), done))
<1>1. "text" \in Kinds /\ Token("text", d) \in Seq(LogToken)
  BY TokenType DEF Kinds
<1>2. ASSUME NEW id \in Nat \ {0}
      PROVE  Count(lg \o Token("text", d), TextLine(id)) =
                Count(lg, TextLine(id)) + (IF id = d THEN 1 ELSE 0)
  <2>1. Count(lg \o Token("text", d), TextLine(id)) =
            Count(lg, TextLine(id)) + Count(Token("text", d), TextLine(id))
    BY <1>1, CountConcat
  <2>2. Count(Token("text", d), TextLine(id)) =
            IF TextLine(id) = [kind |-> "text", id |-> d] THEN 1 ELSE 0
    BY <1>1, TokenCount, Zenon
  <2>3. TextLine(id) = [kind |-> "text", id |-> d] <=> id = d
    BY DEF TextLine
  <2> QED BY <2>1, <2>2, <2>3
<1>3. \A id \in Nat \ {0} : Count(lg, TextLine(id)) = IF id \in done THEN 1 ELSE 0
  BY DEF Lined
<1> HIDE DEF Count
<1> QED BY <1>2, <1>3 DEF Lined

\* finalize_json_output adds brackets, if anything.
LEMMA ClosedText ==
    ASSUME NEW lg \in Seq(LogToken)
    PROVE  /\ Closed(lg) \in Seq(LogToken)
           /\ lg # << >> /\ Head(lg).kind = "open" => Closed(lg) = lg \o Token("close", 0)
           /\ \A id \in Nat \ {0} : /\ Count(Closed(lg), ObjectOf(id)) = Count(lg, ObjectOf(id))
                                    /\ Count(Closed(lg), TextLine(id)) = Count(lg, TextLine(id))
<1> DEFINE open == Token("open", 0)
           close == Token("close", 0)
           whole == (open \o lg) \o close
<1>1. "open" \in Kinds /\ "close" \in Kinds /\ 0 \in Nat /\ open \in Seq(LogToken) /\ close \in Seq(LogToken)
  BY TokenType DEF Kinds
<1>2. Closed(lg) \in {lg, lg \o close, whole}
  BY DEF Closed
<1>3. lg # << >> /\ Head(lg).kind = "open" => Closed(lg) = lg \o close
  BY DEF Closed
<1>4. ASSUME NEW id \in Nat \ {0}, NEW x \in {ObjectOf(id), TextLine(id)}
      PROVE  Count(open, x) = 0 /\ Count(close, x) = 0
  <2>1. x # [kind |-> "open", id |-> 0] /\ x # [kind |-> "close", id |-> 0]
    BY DEF ObjectOf, TextLine
  <2> QED BY <1>1, <2>1, TokenCount
<1> HIDE DEF open, close
<1>5. open \o lg \in Seq(LogToken) /\ lg \o close \in Seq(LogToken) /\ whole \in Seq(LogToken)
  <2>1. open \o lg \in Seq(LogToken) /\ lg \o close \in Seq(LogToken)
    BY <1>1, ConcatFacts
  <2> QED BY <1>1, <2>1, ConcatFacts
<1>6. ASSUME NEW id \in Nat \ {0}, NEW x \in {ObjectOf(id), TextLine(id)}
      PROVE  Count(Closed(lg), x) = Count(lg, x)
  <2>1. Count(open, x) = 0 /\ Count(close, x) = 0 /\ Count(lg, x) \in Nat
    BY <1>4, CountType
  <2>2. Count(lg \o close, x) = Count(lg, x) + Count(close, x)
    BY <1>1, CountConcat
  <2>3. Count(open \o lg, x) = Count(open, x) + Count(lg, x)
    BY <1>1, CountConcat
  <2>4. Count(whole, x) = Count(open \o lg, x) + Count(close, x)
    BY <1>1, <1>5, CountConcat
  <2>5. Count(lg \o close, x) = Count(lg, x) /\ Count(whole, x) = Count(lg, x)
    BY <2>1, <2>2, <2>3, <2>4
  <2> HIDE DEF whole
  <2> QED BY <1>2, <2>5
<1> HIDE DEF whole
<1>7. Closed(lg) \in Seq(LogToken)
  BY <1>2, <1>5
<1> QED BY <1>3, <1>6, <1>7 DEF close

\* It changes neither reports nor lines.
LEMMA ClosedFiled ==
    ASSUME NEW lg \in Seq(LogToken), NEW wr, NEW done
    PROVE  /\ Filed(lg, wr) => Filed(Closed(lg), wr)
           /\ Lined(lg, done) => Lined(Closed(lg), done)
BY ClosedText DEF Filed, Lined

\* Logs one after the other.
LEMMA LogConcat ==
    \A s, t \in Seq(LogToken) :
        /\ s \o t \in Seq(LogToken) /\ Len(s \o t) = Len(s) + Len(t)
        /\ \A i \in 1..Len(s) : (s \o t)[i] = s[i]
        /\ \A i \in 1..Len(t) : (s \o t)[i + Len(s)] = t[i]
OBVIOUS

\* An odd number is one more than an even one.
LEMMA OddHalf == ASSUME NEW i \in Nat, i % 2 # 0 PROVE \E k \in Nat : i = 2 * k + 1
<1>1. i \div 2 \in Int /\ i % 2 \in 0..(2 - 1) /\ i = 2 * (i \div 2) + (i % 2)
  <2>1. i \in Int /\ 2 \in Nat \ {0}
    OBVIOUS
  <2> QED BY <2>1, Division, Zenon
<1>2. i % 2 = 1
  BY <1>1
<1>3. i \div 2 \in Nat /\ i = 2 * (i \div 2) + 1
  BY <1>1, <1>2
<1> QED BY <1>3

\* The reports of wr, each after its opening.
Interleaved(lg, wr) ==
    /\ Len(lg) = 2 * Len(wr)
    /\ \A j \in 1..Len(wr) : lg[2 * j - 1] = Opening(wr[j])[1] /\ lg[2 * j] = ObjectOf(wr[j])

\* Another report after them.
LEMMA InterleavedMore ==
    ASSUME NEW lg \in Seq(LogToken), NEW t \in Seq(LogToken), NEW D, NEW wr \in Seq(D), NEW d,
           Interleaved(lg, wr), Len(t) = 2, t[1] = Opening(d)[1], t[2] = ObjectOf(d)
    PROVE  Interleaved(lg \o t, Append(wr, d))
<1> DEFINE after == Append(wr, d)
           n == Len(wr)
           u == lg \o t
<1>1. /\ n \in Nat /\ Len(after) = n + 1 /\ after[n + 1] = d
      /\ \A i \in 1..n : after[i] = wr[i]
  OBVIOUS
<1>2. /\ Len(u) = Len(lg) + Len(t) /\ Len(lg) = 2 * n
      /\ \A i \in 1..Len(lg) : u[i] = lg[i]
      /\ \A i \in 1..Len(t) : u[i + Len(lg)] = t[i]
  <2>1. Len(lg) = 2 * n
    BY DEF Interleaved
  <2>2. /\ Len(u) = Len(lg) + Len(t)
        /\ \A i \in 1..Len(lg) : u[i] = lg[i]
        /\ \A i \in 1..Len(t) : u[i + Len(lg)] = t[i]
    BY LogConcat
  <2> QED BY <2>1, <2>2
<1>3. \A j \in 1..n : lg[2 * j - 1] = Opening(wr[j])[1] /\ lg[2 * j] = ObjectOf(wr[j])
  BY DEF Interleaved
<1> HIDE DEF after, n, u
<1>4. Len(u) = 2 * Len(after)
  BY <1>1, <1>2
<1>5. ASSUME NEW j \in 1..Len(after)
      PROVE  u[2 * j - 1] = Opening(after[j])[1] /\ u[2 * j] = ObjectOf(after[j])
  <2>1. CASE j = n + 1
    <3>1. u[1 + 2 * n] = t[1] /\ u[2 + 2 * n] = t[2]
      BY <1>1, <1>2
    <3>2. 2 * j - 1 = 1 + 2 * n /\ 2 * j = 2 + 2 * n
      BY <1>1, <2>1
    <3> QED BY <1>1, <2>1, <3>1, <3>2
  <2>2. CASE j # n + 1
    <3>1. j \in 1..n /\ 2 * j - 1 \in 1..Len(lg) /\ 2 * j \in 1..Len(lg)
      BY <1>1, <1>2, <2>2
    <3> QED BY <1>1, <1>2, <1>3, <3>1
  <2> QED BY <2>1, <2>2
<1> QED BY <1>4, <1>5 DEF Interleaved, after, u

\* If the first of them is that of dispatch 1, closing them makes an array.
LEMMA InterleavedArray ==
    ASSUME NEW lg \in Seq(LogToken), NEW D, NEW wr \in Seq(D), Interleaved(lg, wr),
           wr # << >>, wr[1] = 1, \A i, j \in 1..Len(wr) : wr[i] = wr[j] => i = j
    PROVE  IsArray(Closed(lg))
<1> DEFINE n == Len(wr)
           close == Token("close", 0)
           t == lg \o close
<1>1. n \in Nat /\ n >= 1 /\ Len(lg) = 2 * n
  BY DEF Interleaved
<1>2. \A j \in 1..n : lg[2 * j - 1] = Opening(wr[j])[1] /\ lg[2 * j] = ObjectOf(wr[j])
  BY DEF Interleaved
<1>3. lg[1].kind = "open"
  <2>1. lg[2 * 1 - 1] = Opening(1)[1]
    BY <1>1, <1>2
  <2> QED BY <2>1 DEF Opening, Token
<1>4. Closed(lg) = t
  <2>1. lg # << >> /\ Head(lg) = lg[1]
    BY <1>1
  <2> QED BY <1>3, <2>1, ClosedText
<1>5. /\ t \in Seq(LogToken) /\ Len(t) = 2 * n + 1
      /\ \A i \in 1..(2 * n) : t[i] = lg[i]
      /\ t[2 * n + 1] = [kind |-> "close", id |-> 0]
  <2>1. "close" \in Kinds /\ 0 \in Nat
    BY DEF Kinds
  <2>2. close \in Seq(LogToken) /\ Len(close) = 1 /\ close[1] = [kind |-> "close", id |-> 0]
    BY <2>1, TokenType
  <2> HIDE DEF close
  <2>3. /\ t \in Seq(LogToken) /\ Len(t) = Len(lg) + Len(close)
        /\ \A i \in 1..Len(lg) : t[i] = lg[i]
        /\ \A i \in 1..Len(close) : t[i + Len(lg)] = close[i]
    BY <2>2, LogConcat
  <2> HIDE DEF n, t
  <2>4. t[1 + 2 * n] = close[1]
    BY <1>1, <2>2, <2>3
  <2> QED BY <1>1, <2>2, <2>3, <2>4
<1> HIDE DEF n, t
<1>6. ASSUME NEW i \in 2..(Len(t) - 1)
      PROVE  IF i % 2 = 0 THEN t[i].kind \in {"object", "record"} ELSE t[i].kind = "comma"
  <2>1. i \in 1..(2 * n) /\ t[i] = lg[i]
    BY <1>1, <1>5
  <2>2. CASE i % 2 = 0
    <3>1. PICK j \in 1..n : i = 2 * j
      <4>1. i \div 2 \in 1..n /\ i = 2 * (i \div 2)
        BY <1>1, <2>1, <2>2
      <4> QED BY <4>1
    <3>2. lg[i] = ObjectOf(wr[j])
      BY <1>2, <3>1
    <3> QED BY <2>1, <2>2, <3>2 DEF ObjectOf
  <2>3. CASE i % 2 # 0
    <3>1. PICK j \in 2..n : i = 2 * j - 1
      <4>1. i \in Nat /\ 2 <= i /\ i <= 2 * n /\ n \in Nat
        BY <1>1, <2>1
      <4>2. PICK k \in Nat : i = 2 * k + 1
        BY <2>3, <4>1, OddHalf
      <4>3. k + 1 \in 2..n /\ i = 2 * (k + 1) - 1
        BY <4>1, <4>2
      <4> QED BY <4>3
    <3>2. lg[i] = Opening(wr[j])[1]
      <4>1. j \in 1..n
        BY <1>1, <3>1
      <4> QED BY <1>2, <3>1, <4>1
    <3>3. wr[j] # 1
      BY <1>1, <3>1 DEF n
    <3> QED BY <2>1, <2>3, <3>2, <3>3 DEF Opening, Token
  <2> QED BY <2>2, <2>3
<1>7. Len(t) % 2 = 1 /\ Len(t) >= 3
  BY <1>1, <1>5
<1>8. Head(t).kind = "open" /\ Last(t).kind = "close"
  <2>1. 1 \in 1..(2 * n) /\ t # << >> /\ Head(t) = t[1] /\ t[1] = lg[1]
    BY <1>1, <1>5
  <2>2. Last(t) = t[2 * n + 1]
    BY <1>5 DEF Last
  <2> QED BY <1>3, <1>5, <2>1, <2>2
<1> QED BY <1>4, <1>6, <1>7, <1>8 DEF IsArray

-----------------------------------------------------------------------------
(* The chain of a dispatch.                                                *)

\* What occurs once at most occurs at one place.
LEMMA CountUnique ==
    ASSUME NEW T, NEW s \in Seq(T), NEW x, Count(s, x) <= 1,
           NEW i \in DOMAIN s, NEW j \in DOMAIN s, s[i] = x, s[j] = x
    PROVE  i = j
<1> DEFINE P == {k \in DOMAIN s : s[k] = x}
<1> SUFFICES ASSUME i # j PROVE FALSE
  OBVIOUS
<1>1. IsFiniteSet(P) /\ Cardinality(P) <= 1 /\ {i, j} \subseteq P
  BY CountType DEF Count
<1> DEFINE I == {i}
<1>2. IsFiniteSet(I) /\ Cardinality(I) = 1 /\ j \notin I
  BY FS_Singleton
<1>3. Cardinality(I \cup {j}) = 2
  <2> HIDE DEF I
  <2>1. Cardinality(I \cup {j}) = Cardinality(I) + 1
    BY <1>2, FS_AddElement
  <2> QED BY <1>2, <2>1
<1> DEFINE J == I \cup {j}
<1>4. J \subseteq P
  BY <1>1
<1> HIDE DEF P, J
<1>5. Cardinality(J) <= Cardinality(P) /\ Cardinality(P) \in Nat
  BY <1>1, <1>4, FS_Subset, FS_CardinalityType
<1>6. Cardinality(J) = 2
  BY <1>3 DEF J
<1> QED BY <1>1, <1>5, <1>6

MemAnalysis == "libMemAnalysis64.so"

\* What each library makes.
LEMMA PluginType ==
    ASSUME NEW kdb \in Database, NEW lib \in Exporting
    PROVE  /\ Plugin(kdb)[lib] \in Seq(Handler)
           /\ lib = MemAnalysis => Plugin(kdb)[lib] = <<memory_analysis_handler_t>>
           /\ Count(Plugin(kdb)[lib], memory_analysis_handler_t) = IF lib = MemAnalysis THEN 1 ELSE 0
<1> DEFINE hs == Plugin(kdb)[lib]
           ma == memory_analysis_handler_t
<1>1. lib \in {"libdefaultMessageHandlers64.so", "libMemAnalysis64.so", "libLogMessages64.so", "libBasicBlocks64.so"}
  BY DEF Exporting, Plugin
<1>2. /\ time_interval_handler_t \in Handler /\ memory_heatmap_t \in Handler /\ ma \in Handler
      /\ message_logger_t \in Handler /\ basic_block_analysis(kdb) \in Handler
  BY NewHandlers
<1>3. /\ time_interval_handler_t # ma /\ memory_heatmap_t # ma
      /\ message_logger_t # ma /\ basic_block_analysis(kdb) # ma
  BY DEF time_interval_handler_t, memory_heatmap_t, message_logger_t, basic_block_analysis,
         memory_analysis_handler_t
<1> HIDE DEF ma
<1>4. CASE lib = "libdefaultMessageHandlers64.so"
  <2>1. hs = <<time_interval_handler_t, memory_heatmap_t>>
    BY <1>4 DEF Plugin
  <2>2. hs \in Seq(Handler) /\ \A i \in DOMAIN hs : hs[i] # ma
    BY <1>2, <1>3, <2>1
  <2>3. Count(hs, ma) = 0
    <3> HIDE DEF hs
    <3> QED BY <2>2, CountAbsent
  <2> QED BY <1>4, <2>2, <2>3 DEF MemAnalysis, ma
<1>5. CASE lib = "libMemAnalysis64.so"
  <2>1. hs = <<ma>>
    BY <1>5 DEF Plugin, ma
  <2>2. hs \in Seq(Handler) /\ 1 \in DOMAIN hs /\ hs[1] = ma /\ \A i \in DOMAIN hs : hs[i] = ma => i = 1
    BY <1>2, <2>1
  <2>3. Count(hs, ma) = 1
    <3> HIDE DEF hs
    <3> QED BY <2>2, CountOne
  <2> QED BY <1>5, <2>1, <2>2, <2>3 DEF MemAnalysis, ma
<1>6. CASE lib = "libLogMessages64.so"
  <2>1. hs = <<message_logger_t>>
    BY <1>6 DEF Plugin
  <2>2. hs \in Seq(Handler) /\ \A i \in DOMAIN hs : hs[i] # ma
    BY <1>2, <1>3, <2>1
  <2>3. Count(hs, ma) = 0
    <3> HIDE DEF hs
    <3> QED BY <2>2, CountAbsent
  <2> QED BY <1>6, <2>2, <2>3 DEF MemAnalysis, ma
<1>7. CASE lib = "libBasicBlocks64.so"
  <2>1. hs = <<basic_block_analysis(kdb)>>
    BY <1>7 DEF Plugin
  <2>2. hs \in Seq(Handler) /\ \A i \in DOMAIN hs : hs[i] # ma
    BY <1>2, <1>3, <2>1
  <2>3. Count(hs, ma) = 0
    <3> HIDE DEF hs
    <3> QED BY <2>2, CountAbsent
  <2> QED BY <1>7, <2>2, <2>3 DEF MemAnalysis, ma
<1> QED BY <1>1, <1>4, <1>5, <1>6, <1>7

\* The plugins are distinct libraries.
Distinct(libs) ==
    libs \in Seq(Exporting) /\ \A i, j \in 1..Len(libs) : libs[i] = libs[j] => i = j

\* The chain of a dispatch: at most one memory analysis, none without plugins.
LEMMA ChainType ==
    ASSUME Distinct(plugins_), NEW kdb \in Database
    PROVE  /\ Chain(kdb) \in Seq(Handler) /\ OneAnalysis(Chain(kdb))
           /\ plugins_ = << >> => \A i \in 1..Len(Chain(kdb)) : Chain(kdb)[i].type # "memory_analysis"
           /\ plugins_ = <<MemAnalysis>> =>
                 Len(Chain(kdb)) = 1 /\ Chain(kdb)[1].type = "memory_analysis"
<1> DEFINE seqs == [i \in DOMAIN plugins_ |-> Plugin(kdb)[plugins_[i]]]
           hs == FlattenSeq(seqs)
           ma == memory_analysis_handler_t
<1>1. CASE plugins_ = << >>
  <2>1. Chain(kdb) = <<memory_heatmap_t, time_interval_handler_t>>
    BY <1>1 DEF Chain
  <2>2. /\ memory_heatmap_t \in Handler /\ time_interval_handler_t \in Handler
        /\ memory_heatmap_t.type = "heatmap" /\ time_interval_handler_t.type = "time_interval"
    BY NewHandlers DEF memory_heatmap_t, time_interval_handler_t
  <2>3. Chain(kdb) \in Seq(Handler) /\ \A i \in 1..Len(Chain(kdb)) : Chain(kdb)[i].type # "memory_analysis"
    BY <2>1, <2>2
  <2>4. plugins_ # <<MemAnalysis>>
    BY <1>1
  <2> QED BY <2>3, <2>4 DEF OneAnalysis
<1>2. CASE plugins_ # << >>
  <2>1. Chain(kdb) = hs
    BY <1>2 DEF Chain, getMessageHandlers
  <2>2. /\ plugins_ \in Seq(Exporting) /\ DOMAIN plugins_ = 1..Len(plugins_) /\ Len(plugins_) \in Nat
        /\ \A i \in 1..Len(plugins_) : plugins_[i] \in Exporting
    BY DEF Distinct
  <2>3. /\ seqs \in Seq(Seq(Handler)) /\ DOMAIN seqs = 1..Len(plugins_)
        /\ \A i \in DOMAIN seqs : Count(seqs[i], ma) = IF plugins_[i] = MemAnalysis THEN 1 ELSE 0
    <3>1. \A i \in 1..Len(plugins_) :
             /\ Plugin(kdb)[plugins_[i]] \in Seq(Handler)
             /\ Count(Plugin(kdb)[plugins_[i]], ma) = IF plugins_[i] = MemAnalysis THEN 1 ELSE 0
      BY <2>2, PluginType
    <3>2. seqs \in [1..Len(plugins_) -> Seq(Handler)]
      BY <2>2, <3>1
    <3>3. seqs \in Seq(Seq(Handler))
      <4> HIDE DEF seqs
      <4> QED BY <2>2, <3>2
    <3> QED BY <2>2, <3>1, <3>3
  <2>4. hs \in Seq(Handler)
    <3> HIDE DEF seqs
    <3> QED BY <2>3, FlattenType
  <2>5. Count(hs, ma) <= 1
    <3> HIDE DEF seqs
    <3>1. CASE \E p \in 1..Len(plugins_) : plugins_[p] = MemAnalysis
      <4>1. PICK p \in 1..Len(plugins_) : plugins_[p] = MemAnalysis
        BY <3>1
      <4>2. \A i \in DOMAIN seqs : i # p => Count(seqs[i], ma) = 0
        BY <2>3, <4>1 DEF Distinct
      <4>3. Count(hs, ma) = Count(seqs[p], ma)
        BY <2>3, <4>2, FlattenCountAt
      <4>4. Count(seqs[p], ma) = 1
        BY <2>3, <4>1
      <4> QED BY <4>3, <4>4
    <3>2. CASE \A p \in 1..Len(plugins_) : plugins_[p] # MemAnalysis
      <4>1. \A i \in DOMAIN seqs : Count(seqs[i], ma) = 0
        BY <2>3, <3>2
      <4>2. Count(hs, ma) = 0
        BY <2>3, <4>1, FlattenCountNone
      <4> QED BY <4>2
    <3> QED BY <3>1, <3>2
  <2>6. OneAnalysis(hs)
    <3> HIDE DEF hs
    <3> SUFFICES ASSUME NEW i \in 1..Len(hs), NEW j \in 1..Len(hs),
                        hs[i].type = "memory_analysis", hs[j].type = "memory_analysis"
                 PROVE  i = j
      BY DEF OneAnalysis
    <3>1. i \in DOMAIN hs /\ j \in DOMAIN hs /\ hs[i] \in Handler /\ hs[j] \in Handler
      BY <2>4
    <3>2. hs[i] = ma /\ hs[j] = ma
      BY <3>1, HandlerTypes
    <3> QED BY <2>4, <2>5, <3>1, <3>2, CountUnique
  <2>7. ASSUME plugins_ = <<MemAnalysis>> PROVE Len(hs) = 1 /\ hs[1].type = "memory_analysis"
    <3>1. DOMAIN plugins_ = {1} /\ plugins_[1] = MemAnalysis /\ MemAnalysis \in Exporting
      BY <2>2, <2>7
    <3>2. seqs = <<(<<ma>>)>>
      <4>1. Plugin(kdb)[plugins_[1]] = <<ma>>
        BY <3>1, PluginType
      <4>2. seqs = [i \in {1} |-> <<ma>>]
        BY <3>1, <4>1
      <4> QED BY <4>2
    <3>3. <<ma>> \in Seq(Handler)
      BY NewHandlers
    <3>4. hs = <<ma>>
      <4> HIDE DEF seqs, ma
      <4> QED BY <3>2, <3>3, FlattenSingle
    <3> QED BY <3>4 DEF memory_analysis_handler_t
  <2> HIDE DEF hs
  <2> QED BY <1>2, <2>1, <2>4, <2>6, <2>7
<1> QED BY <1>1, <1>2

-----------------------------------------------------------------------------
(* The invariant of a session.                                             *)

CommsObject == [agent : Agents, handlers : Seq(Handler), buffer : Seq(Message)]

\* Nothing has happened yet.
Beginning ==
    /\ dispatch_count_ = 0
    /\ objects = EmptyMap
    /\ written = << >>
    /\ log = IF fresh THEN << >> ELSE EarlierLog

SessionType ==
    /\ state \in {"setup", "loading", "running", "ended", "interrupted", "finalized"}
    /\ state \in {"setup", "loading"} => Beginning
    /\ fresh \in BOOLEAN
    /\ dispatch_count_ \in Nat
    /\ timed \subseteq 1..dispatch_count_
    /\ objects \in [DOMAIN objects -> CommsObject]
    /\ DOMAIN objects \subseteq 1..dispatch_count_
    /\ log \in Seq(LogToken)
    /\ written \in Seq(Nat)
    /\ \A i \in 1..Len(written) : written[i] \in 1..dispatch_count_

MemoryAnalysisOnly == handlers = <<"libMemAnalysis64.so">>

\* While the session runs its plugins are distinct libraries.
PluginInv ==
    state = "running" => Distinct(plugins_) /\ (MemoryAnalysisOnly => plugins_ = <<MemAnalysis>>)

\* Each chain is one these plugins make.
ChainInv ==
    \A d \in DOMAIN objects :
        LET hs == objects[d].handlers
        IN  /\ OneAnalysis(hs)
            /\ state = "running" /\ plugins_ = << >> =>
                  \A i \in 1..Len(hs) : hs[i].type # "memory_analysis"
            /\ state = "running" /\ MemoryAnalysisOnly =>
                  Len(hs) = 1 /\ hs[1].type = "memory_analysis"

\* The log has the reports that were written, and no dispatch that may still
\* report is among them; without instrumentation it has the lines of the
\* dispatches that have completed.
OnceInv ==
    /\ \A i, j \in 1..Len(written) : written[i] = written[j] => i = j
    /\ \A d \in DOMAIN objects \ leaked : \A i \in 1..Len(written) : written[i] # d
    /\ IF run_instrumented_ THEN timed = {} ELSE DOMAIN objects = {}
    /\ Filed(log, written)
    /\ ~run_instrumented_ /\ location = "file" => Lined(log, (1..dispatch_count_) \ timed)

\* A log in JSON of the memory analysis alone, that was empty.
AnalysisLog ==
    fresh /\ run_instrumented_ /\ location = "file" /\ log_format = "json" /\ MemoryAnalysisOnly

ArrayInv ==
    AnalysisLog =>
        /\ state # "finalized" => Interleaved(log, written)
        /\ state = "finalized" /\ written # << >> /\ written[1] = 1 => IsArray(log)

SessionInv == SessionType /\ PluginInv /\ ChainInv /\ OnceInv /\ ArrayInv

\* What does not change when the session ends.
kept == <<environment, log, timed, objects, leaked, handlers, fresh, written>>

\* At the beginning there is nothing to show.
LEMMA BeginningInv ==
    ASSUME NEW lg, NEW fr \in BOOLEAN, lg = IF fr THEN << >> ELSE EarlierLog
    PROVE  /\ lg \in Seq(LogToken) /\ Filed(lg, << >>) /\ Lined(lg, {})
           /\ fr => Interleaved(lg, << >>)
<1>1. lg \in {<< >>, EarlierLog}
  OBVIOUS
<1>2. fr => Interleaved(<< >>, << >>)
  BY DEF Interleaved
<1> QED BY <1>1, <1>2, LogBegins

\* The session ends, or is over; a dispatch that ends it has been counted.
LEMMA EndInv ==
    ASSUME SessionInv, UNCHANGED kept, state # "finalized", state' \in {"ended", "interrupted"},
           \/ dispatch_count_' = dispatch_count_
           \/ run_instrumented_ /\ dispatch_count_' = dispatch_count_ + 1
    PROVE  SessionInv'
<1> USE DEF kept, environment
<1>0. /\ dispatch_count_ \in Nat /\ dispatch_count_' \in Nat
      /\ 1..dispatch_count_ \subseteq 1..dispatch_count_'
      /\ run_instrumented_' = run_instrumented_
  BY DEF SessionInv, SessionType, run_instrumented_
<1>1. SessionType'
  BY <1>0 DEF SessionInv, SessionType, Beginning
<1>2. PluginInv'
  BY DEF PluginInv
<1>3. ChainInv'
  BY DEF SessionInv, ChainInv
<1>4. OnceInv'
  BY <1>0 DEF SessionInv, OnceInv
<1>5. ArrayInv'
  BY <1>0 DEF SessionInv, ArrayInv, AnalysisLog, MemoryAnalysisOnly
<1> QED BY <1>1, <1>2, <1>3, <1>4, <1>5 DEF SessionInv

\* Nothing happens.
LEMMA StutterInv == ASSUME SessionInv, UNCHANGED vars PROVE SessionInv'
<1> USE DEF vars, sessionVars, environment, commsVars, dispatchVars, scriptVars
<1>1. SessionType'
  BY DEF SessionInv, SessionType, Beginning
<1>2. PluginInv'
  BY DEF SessionInv, PluginInv, MemoryAnalysisOnly
<1>3. ChainInv'
  BY DEF SessionInv, ChainInv, MemoryAnalysisOnly
<1>4. OnceInv'
  BY DEF SessionInv, OnceInv, run_instrumented_
<1>5. ArrayInv'
  BY DEF SessionInv, ArrayInv, AnalysisLog, MemoryAnalysisOnly, run_instrumented_
<1> QED BY <1>1, <1>2, <1>3, <1>4, <1>5 DEF SessionInv

\* The script makes the environment.
LEMMA SetupInv ==
    ASSUME SessionInv, NEW parms, setup_env(parms)
    PROVE  SessionInv'
<1>0. /\ state = "setup" /\ state' = "loading"
      /\ UNCHANGED <<log, dispatch_count_, timed, objects, leaked, fresh, written>>
  BY DEF setup_env, dispatchVars
<1>1. Beginning /\ Beginning' /\ state' = "loading"
  BY <1>0 DEF SessionInv, SessionType, Beginning
<1>2. log \in Seq(LogToken) /\ Filed(log, << >>) /\ Lined(log, {}) /\ (fresh => Interleaved(log, << >>))
  BY <1>1, BeginningInv DEF Beginning, SessionInv, SessionType
<1>3. /\ timed' = {} /\ (1..dispatch_count_') \ timed' = {} /\ DOMAIN objects' = {}
      /\ written' = << >> /\ Len(written') = 0 /\ log' = log
  <2>1. dispatch_count_ = 0 /\ objects = EmptyMap /\ timed \subseteq 1..0 /\ written = << >>
    BY <1>1 DEF SessionInv, SessionType, Beginning
  <2>2. 1..0 = {}
    OBVIOUS
  <2>3. DOMAIN EmptyMap = {}
    BY DEF EmptyMap
  <2> QED BY <1>0, <2>1, <2>2, <2>3
<1>4. SessionType'
  BY <1>0, <1>1, <1>2, <1>3 DEF SessionInv, SessionType
<1>5. PluginInv' /\ ChainInv'
  BY <1>1, <1>3 DEF PluginInv, ChainInv
<1>6. OnceInv'
  <2>1. Filed(log, written)' /\ Lined(log', (1..dispatch_count_') \ timed')
    BY <1>2, <1>3
  <2>2. \A i \in 1..Len(written') : FALSE
    BY <1>3
  <2>3. (\A i, j \in 1..Len(written) : written[i] = written[j] => i = j)'
    BY <2>2
  <2>4. (\A d \in DOMAIN objects \ leaked : \A i \in 1..Len(written) : written[i] # d)'
    BY <1>3
  <2> QED BY <1>3, <2>1, <2>3, <2>4 DEF OnceInv
<1>7. ArrayInv'
  BY <1>0, <1>1, <1>2, <1>3 DEF ArrayInv, AnalysisLog
<1> QED BY <1>4, <1>5, <1>6, <1>7 DEF SessionInv

\* The interceptor is loaded.
LEMMA LoadInv ==
    ASSUME SessionInv, Load(handlers), UNCHANGED <<scriptVars, written>>
    PROVE  SessionInv'
<1>0. /\ state = "loading" /\ UNCHANGED <<environment, dispatch_count_, timed, objects, leaked>>
      /\ UNCHANGED <<handlers, fresh, written>>
  BY DEF Load, dispatchVars, scriptVars
<1>1. CASE state' = "ended" /\ UNCHANGED log
  <2>1. UNCHANGED kept
    BY <1>0, <1>1 DEF kept
  <2> QED BY <1>0, <1>1, <2>1, EndInv
<1>2. CASE /\ setHandlers(handlers)
           /\ log' = IF run_instrumented_ THEN log ELSE LoggedDuration(0)
           /\ state' = "running"
  <2>1. Beginning
    BY <1>0 DEF SessionInv, SessionType
  <2>2. log \in Seq(LogToken) /\ Filed(log, << >>) /\ Lined(log, {}) /\ (fresh => Interleaved(log, << >>))
    BY <2>1, BeginningInv DEF Beginning, SessionInv, SessionType
  <2>3. /\ (1..dispatch_count_') \ timed' = {} /\ DOMAIN objects' = {}
        /\ written' = << >> /\ Len(written') = 0 /\ timed' = {} /\ dispatch_count_' = dispatch_count_
    <3>1. dispatch_count_ = 0 /\ objects = EmptyMap /\ timed \subseteq 1..0 /\ written = << >>
      BY <2>1 DEF SessionInv, SessionType, Beginning
    <3>2. 1..0 = {}
      OBVIOUS
    <3>3. DOMAIN EmptyMap = {}
      BY DEF EmptyMap
    <3> QED BY <1>0, <3>1, <3>2, <3>3
  <2>4. /\ log' \in Seq(LogToken) /\ Filed(log', << >>)
        /\ ~run_instrumented_ => Lined(log', {})
        /\ run_instrumented_ => log' = log
    <3>1. CASE log' = log
      BY <2>2, <3>1
    <3>2. CASE ~run_instrumented_ /\ log' = log \o Token("text", 0)
      <4>1. "text" \in Kinds /\ 0 \in Nat /\ 0 \notin {}
        BY DEF Kinds
      <4>2. Token("text", 0) \in Seq(LogToken) /\ \A id : Count(Token("text", 0), ObjectOf(id)) = 0
        <5>1. Token("text", 0) \in Seq(PlainToken)
          BY <4>1, TokenType
        <5> QED BY <5>1, PlainText
      <4>3. log' \in Seq(LogToken) /\ Filed(log', << >>)
        BY <2>2, <3>2, <4>2, LogPlain
      <4>4. Lined(log', {})
        BY <2>2, <3>2, <4>1, LogLine
      <4> QED BY <3>2, <4>3, <4>4
    <3> QED BY <1>2, <3>1, <3>2 DEF LoggedDuration
  <2>5. PluginInv'
    <3> DEFINE S == Range(handlers) \cap Exporting
               libs == plugins_'
    <3>1. libs \in SetToSeqs(S)
      BY <1>2 DEF setHandlers
    <3>2. IsFiniteSet(S)
      <4>1. IsFiniteSet(Exporting)
        <5>1. Exporting = {"libdefaultMessageHandlers64.so"} \cup {"libMemAnalysis64.so"}
                           \cup {"libLogMessages64.so"} \cup {"libBasicBlocks64.so"}
          BY DEF Exporting, Plugin
        <5> QED BY <5>1, FS_Singleton, FS_Union
      <4> QED BY <4>1, FS_Subset, Zenon
    <3>3. Cardinality(S) \in Nat
      BY <3>2, FS_CardinalityType
    <3> HIDE DEF S, libs
    <3>4. libs \in [1..Cardinality(S) -> S] /\ \A i, j \in 1..Cardinality(S) : i # j => libs[i] # libs[j]
      BY <3>1 DEF SetToSeqs
    <3>5. libs \in Seq(S) /\ Len(libs) = Cardinality(S)
      BY <3>3, <3>4
    <3>6. Distinct(libs)
      <4>1. S \subseteq Exporting
        BY DEF S
      <4>2. libs \in Seq(Exporting)
        BY <3>5, <4>1
      <4> QED BY <3>4, <3>5, <4>2 DEF Distinct
    <3>7. ASSUME MemoryAnalysisOnly PROVE libs = <<MemAnalysis>>
      <4>1. S = {MemAnalysis}
        <5>1. Range(handlers) = {MemAnalysis}
          BY <3>7 DEF MemoryAnalysisOnly, MemAnalysis, Range
        <5>2. MemAnalysis \in Exporting
          BY DEF Exporting, Plugin, MemAnalysis
        <5> QED BY <5>1, <5>2 DEF S
      <4>2. Cardinality(S) = 1
        BY <4>1, FS_Singleton
      <4>3. Len(libs) = 1 /\ libs[1] = MemAnalysis
        BY <3>4, <3>5, <4>1, <4>2
      <4> QED BY <3>5, <4>3
    <3> QED BY <1>0, <3>6, <3>7 DEF PluginInv, MemoryAnalysisOnly, libs
  <2>6. SessionType'
    BY <1>0, <1>2, <2>3, <2>4 DEF SessionInv, SessionType
  <2>7. ChainInv'
    BY <2>3 DEF ChainInv
  <2>8. OnceInv'
    <3>1. Filed(log', written') /\ (~run_instrumented_ => Lined(log', (1..dispatch_count_') \ timed'))
      BY <2>3, <2>4
    <3>2. run_instrumented_' = run_instrumented_
      BY <1>0 DEF environment, run_instrumented_
    <3>3. \A i \in 1..Len(written') : FALSE
      BY <2>3
    <3>4. (\A i, j \in 1..Len(written) : written[i] = written[j] => i = j)'
      BY <3>3
    <3>5. (\A d \in DOMAIN objects \ leaked : \A i \in 1..Len(written) : written[i] # d)'
      BY <2>3
    <3> QED BY <2>3, <3>1, <3>2, <3>4, <3>5 DEF OnceInv
  <2>9. ArrayInv'
    BY <1>0, <1>2, <2>2, <2>3, <2>4 DEF ArrayInv, AnalysisLog, environment, run_instrumented_
  <2> QED BY <2>5, <2>6, <2>7, <2>8, <2>9 DEF SessionInv
<1> QED BY <1>1, <1>2 DEF Load

\* A step of a running session that reports no memory analysis.
LEMMA RunningInv ==
    ASSUME SessionInv, state = "running", state' = "running",
           UNCHANGED <<environment, plugins_, handlers, fresh, written>>,
           dispatch_count_' \in Nat, dispatch_count_ <= dispatch_count_',
           timed' \subseteq 1..dispatch_count_',
           objects' \in [DOMAIN objects' -> CommsObject],
           DOMAIN objects' \subseteq 1..dispatch_count_',
           \A d \in DOMAIN objects' \ leaked' :
              d \in DOMAIN objects \ leaked \/ d \notin 1..dispatch_count_,
           IF run_instrumented_ THEN timed' = {} ELSE DOMAIN objects' = {},
           ChainInv',
           log' \in Seq(LogToken), Filed(log', written),
           ~run_instrumented_ /\ location = "file" => Lined(log', (1..dispatch_count_') \ timed'),
           AnalysisLog => log' = log
    PROVE  SessionInv'
<1>0. /\ run_instrumented_' = run_instrumented_ /\ location' = location
      /\ AnalysisLog' = AnalysisLog /\ MemoryAnalysisOnly' = MemoryAnalysisOnly
  BY DEF environment, run_instrumented_, AnalysisLog, MemoryAnalysisOnly
<1>1. SessionType'
  BY DEF SessionInv, SessionType
<1>2. PluginInv'
  BY <1>0 DEF SessionInv, PluginInv
<1>3. OnceInv'
  <2>1. (\A i, j \in 1..Len(written) : written[i] = written[j] => i = j)'
    BY DEF SessionInv, OnceInv
  <2>2. (\A d \in DOMAIN objects \ leaked : \A i \in 1..Len(written) : written[i] # d)'
    BY DEF SessionInv, OnceInv, SessionType
  <2>3. Filed(log, written)'
    OBVIOUS
  <2> QED BY <1>0, <2>1, <2>2, <2>3 DEF OnceInv
<1>4. ArrayInv'
  BY <1>0 DEF SessionInv, ArrayInv
<1> QED BY <1>1, <1>2, <1>3, <1>4 DEF SessionInv

\* A dispatch that is not instrumented.
LEMMA DispatchOriginalInv ==
    ASSUME SessionInv, DispatchOriginal, UNCHANGED <<scriptVars, written>>
    PROVE  SessionInv'
<1>0. /\ state = "running" /\ state' = "running"
      /\ UNCHANGED <<environment, plugins_, handlers, fresh, written, log, objects, leaked>>
      /\ dispatch_count_' = dispatch_count_ + 1
      /\ timed' = IF run_instrumented_ THEN timed ELSE timed \cup {dispatch_count_ + 1}
  BY DEF DispatchOriginal, sessionVars, commsVars, scriptVars
<1>1. dispatch_count_ \in Nat /\ timed \subseteq 1..dispatch_count_
  BY DEF SessionInv, SessionType
<1>2. /\ timed' \subseteq 1..dispatch_count_'
      /\ ~run_instrumented_ => (1..dispatch_count_') \ timed' = (1..dispatch_count_) \ timed
  BY <1>0, <1>1
<1>3. ChainInv'
  BY <1>0 DEF SessionInv, ChainInv, MemoryAnalysisOnly
<1>4. /\ objects' \in [DOMAIN objects' -> CommsObject] /\ DOMAIN objects' \subseteq 1..dispatch_count_'
      /\ log' \in Seq(LogToken)
  BY <1>0, <1>1 DEF SessionInv, SessionType
<1>5. /\ IF run_instrumented_ THEN timed' = {} ELSE DOMAIN objects' = {}
      /\ Filed(log', written)
      /\ ~run_instrumented_ /\ location = "file" => Lined(log', (1..dispatch_count_') \ timed')
  BY <1>0, <1>2 DEF SessionInv, OnceInv
<1>6. dispatch_count_' \in Nat /\ dispatch_count_ <= dispatch_count_'
  BY <1>0, <1>1
<1> QED BY <1>0, <1>2, <1>3, <1>4, <1>5, <1>6, RunningInv

\* The duration of a dispatch is logged.
LEMMA SignalCompletedInv ==
    ASSUME SessionInv, NEW d \in timed, signalCompleted(d), UNCHANGED <<scriptVars, written>>
    PROVE  SessionInv'
<1>0. /\ state = "running" /\ state' = "running"
      /\ UNCHANGED <<environment, plugins_, handlers, fresh, written, objects, leaked, dispatch_count_>>
      /\ timed' = timed \ {d}
      /\ log' = IF location = "file" THEN log \o Token("text", d) ELSE log
  BY DEF signalCompleted, sessionVars, commsVars, scriptVars, LoggedDuration
<1>1. dispatch_count_ \in Nat /\ d \in 1..dispatch_count_ /\ d \in Nat /\ timed' \subseteq 1..dispatch_count_'
  BY <1>0 DEF SessionInv, SessionType
<1>2. ~run_instrumented_ /\ DOMAIN objects' = {}
  BY <1>0 DEF SessionInv, OnceInv
<1>3. (1..dispatch_count_') \ timed' = ((1..dispatch_count_) \ timed) \cup {d}
  BY <1>0, <1>1
<1>4. log \in Seq(LogToken) /\ Filed(log, written)
  BY DEF SessionInv, SessionType, OnceInv
<1>5. log' \in Seq(LogToken) /\ Filed(log', written)
  <2>1. Token("text", d) \in Seq(LogToken) /\ \A id : Count(Token("text", d), ObjectOf(id)) = 0
    <3>1. "text" \in Kinds
      BY DEF Kinds
    <3>2. Token("text", d) \in Seq(PlainToken)
      BY <1>1, <3>1, TokenType
    <3> QED BY <3>2, PlainText
  <2>2. log \o Token("text", d) \in Seq(LogToken) /\ Filed(log \o Token("text", d), written)
    BY <1>4, <2>1, LogPlain
  <2> QED BY <1>0, <1>4, <2>2
<1>6. location = "file" => Lined(log', (1..dispatch_count_') \ timed')
  <2> SUFFICES ASSUME location = "file" PROVE Lined(log', (1..dispatch_count_') \ timed')
    OBVIOUS
  <2>1. Lined(log, (1..dispatch_count_) \ timed)
    BY <1>2 DEF SessionInv, OnceInv
  <2>2. Lined(log \o Token("text", d), ((1..dispatch_count_) \ timed) \cup {d})
    BY <1>1, <1>4, <2>1, LogLine
  <2> QED BY <1>0, <1>3, <2>2
<1>7. ChainInv'
  BY <1>2 DEF ChainInv
<1>8. objects' \in [DOMAIN objects' -> CommsObject] /\ DOMAIN objects' \subseteq 1..dispatch_count_'
  BY <1>0 DEF SessionInv, SessionType
<1>9. AnalysisLog => log' = log
  BY <1>2 DEF AnalysisLog
<1>10. dispatch_count_' \in Nat /\ dispatch_count_ <= dispatch_count_'
  BY <1>0, <1>1
<1> QED BY <1>0, <1>1, <1>2, <1>5, <1>6, <1>7, <1>8, <1>9, <1>10, RunningInv

\* An instrumented dispatch gets its comms object, or ends the program.
LEMMA CheckoutInv ==
    ASSUME SessionInv, NEW a \in Agents, NEW kdb \in Database, checkoutCommsObject(a, kdb),
           UNCHANGED <<scriptVars, written>>
    PROVE  SessionInv'
<1> DEFINE id == dispatch_count_ + 1
           hs == Chain(kdb)
           obj == [agent |-> a, handlers |-> hs, buffer |-> << >>]
           text == FlattenSeq([i \in DOMAIN hs |-> WrittenFirst(hs[i], id, json)])
<1>0. /\ state = "running" /\ run_instrumented_ /\ dispatch_count_' = id
      /\ UNCHANGED <<environment, plugins_, handlers, fresh, written, timed, leaked>>
      /\ \/ objects' = Put(objects, id, obj) /\ log' = Logged(text) /\ state' = state
         \/ state' = "ended" /\ UNCHANGED <<objects, log>>
  BY DEF checkoutCommsObject, scriptVars, commsVars
<1>1. dispatch_count_ \in Nat /\ id \in Nat /\ dispatch_count_ <= id
  BY DEF SessionInv, SessionType
<1>2. CASE state' = "ended" /\ UNCHANGED <<objects, log>>
  <2>1. UNCHANGED kept
    BY <1>0, <1>2 DEF kept
  <2> QED BY <1>0, <1>2, <2>1, EndInv
<1>3. CASE objects' = Put(objects, id, obj) /\ log' = Logged(text) /\ state' = "running"
  <2>1. /\ hs \in Seq(Handler) /\ OneAnalysis(hs)
        /\ plugins_ = << >> => \A i \in 1..Len(hs) : hs[i].type # "memory_analysis"
        /\ MemoryAnalysisOnly => Len(hs) = 1 /\ hs[1].type = "memory_analysis"
    <3>1. Distinct(plugins_) /\ (MemoryAnalysisOnly => plugins_ = <<MemAnalysis>>)
      BY <1>0 DEF SessionInv, PluginInv
    <3> QED BY <3>1, ChainType
  <2> HIDE DEF hs
  <2>2. obj \in CommsObject /\ obj.handlers = hs
    <3>1. << >> \in Seq(Message)
      OBVIOUS
    <3> QED BY <2>1, <3>1 DEF CommsObject
  <2> HIDE DEF obj
  <2>3. /\ objects' \in [DOMAIN objects' -> CommsObject] /\ DOMAIN objects' = DOMAIN objects \cup {id}
        /\ objects'[id] = obj /\ \A d \in DOMAIN objects : d # id => objects'[d] = objects[d]
    BY <1>3, <2>2 DEF Put, SessionInv, SessionType
  <2>4. DOMAIN objects \subseteq 1..dispatch_count_ /\ timed \subseteq 1..dispatch_count_
    BY DEF SessionInv, SessionType
  <2>5. DOMAIN objects' \subseteq 1..dispatch_count_' /\ timed' \subseteq 1..dispatch_count_'
    BY <1>0, <1>1, <2>3, <2>4
  <2>6. \A d \in DOMAIN objects' \ leaked' : d \in DOMAIN objects \ leaked \/ d \notin 1..dispatch_count_
    BY <1>0, <1>1, <2>3
  <2>7. ChainInv'
    <3>1. ASSUME NEW d \in DOMAIN objects'
          PROVE  LET gs == objects'[d].handlers
                 IN  /\ OneAnalysis(gs)
                     /\ plugins_ = << >> => \A i \in 1..Len(gs) : gs[i].type # "memory_analysis"
                     /\ MemoryAnalysisOnly => Len(gs) = 1 /\ gs[1].type = "memory_analysis"
      <4>1. CASE d = id
        BY <2>1, <2>2, <2>3, <4>1
      <4>2. CASE d # id
        BY <1>0, <2>3, <4>2 DEF SessionInv, ChainInv
      <4> QED BY <4>1, <4>2
    <3>2. MemoryAnalysisOnly' = MemoryAnalysisOnly /\ plugins_' = plugins_
      BY <1>0 DEF MemoryAnalysisOnly
    <3> QED BY <3>1, <3>2 DEF ChainInv
  <2>8. log \in Seq(LogToken) /\ Filed(log, written)
    BY DEF SessionInv, SessionType, OnceInv
  <2>9. text \in Seq(LogToken) /\ \A x : Count(text, ObjectOf(x)) = 0
    <3>1. text \in Seq(PlainToken)
      BY <1>1, <2>1, ChainText
    <3> HIDE DEF text
    <3> QED BY <3>1, PlainText
  <2>10. log' \in Seq(LogToken) /\ Filed(log', written)
    <3> HIDE DEF text
    <3>1. log \o text \in Seq(LogToken) /\ Filed(log \o text, written)
      BY <2>8, <2>9, LogPlain
    <3> QED BY <1>3, <2>8, <3>1 DEF Logged
  <2>11. AnalysisLog => log' = log
    <3> SUFFICES ASSUME AnalysisLog PROVE log' = log
      OBVIOUS
    <3>1. Len(hs) = 1 /\ hs[1].type = "memory_analysis" /\ DOMAIN hs = {1} /\ DOMAIN hs = 1..1
      BY <2>1 DEF AnalysisLog
    <3> DEFINE seqs == [i \in DOMAIN hs |-> WrittenFirst(hs[i], id, json)]
    <3>2. \A i \in DOMAIN hs : seqs[i] = << >>
      BY <3>1 DEF WrittenFirst
    <3>3. seqs \in Seq(Seq(LogToken)) /\ DOMAIN seqs = DOMAIN hs
      <4>1. << >> \in Seq(LogToken)
        OBVIOUS
      <4>2. seqs \in [1..1 -> Seq(LogToken)]
        BY <3>1, <3>2, <4>1
      <4> QED BY <4>2
    <3> HIDE DEF seqs
    <3>4. FlattenSeq(seqs) = << >>
      BY <3>2, <3>3, FlattenEmpty
    <3>5. log' = log \/ log' = log \o << >>
      BY <1>3, <3>4 DEF Logged, seqs
    <3>6. log \o << >> = log
      BY <2>8
    <3> QED BY <3>5, <3>6
  <2>12. timed' = {}
    BY <1>0 DEF SessionInv, OnceInv
  <2> QED BY <1>0, <1>1, <1>3, <2>3, <2>5, <2>6, <2>7, <2>10, <2>11, <2>12, RunningInv
<1> QED BY <1>0, <1>2, <1>3

\* What stays true of an object's chain as messages are passed on.
LEMMA LaterFits ==
    ASSUME ChainInv, NEW d \in DOMAIN objects, state = "running", NEW gs,
           objects[d].handlers \in Seq(Handler), LaterChain(gs, objects[d].handlers)
    PROVE  /\ gs \in Seq(Handler) /\ OneAnalysis(gs)
           /\ plugins_ = << >> => \A i \in 1..Len(gs) : gs[i].type # "memory_analysis"
           /\ MemoryAnalysisOnly => Len(gs) = 1 /\ gs[1].type = "memory_analysis"
<1> DEFINE hs == objects[d].handlers
<1>1. /\ OneAnalysis(hs)
      /\ plugins_ = << >> => \A i \in 1..Len(hs) : hs[i].type # "memory_analysis"
      /\ MemoryAnalysisOnly => Len(hs) = 1 /\ hs[1].type = "memory_analysis"
  BY DEF ChainInv
<1> HIDE DEF hs
<1>2. gs \in Seq(Handler) /\ Len(gs) = Len(hs) /\ \A i \in 1..Len(hs) : gs[i].type = hs[i].type
  BY DEF LaterChain, Later, hs
<1> QED BY <1>1, <1>2 DEF OneAnalysis

\* A step of an object's own that writes plain text, which is none with the
\* memory analysis alone.
LEMMA ObjectInv ==
    ASSUME SessionInv, state = "running", NEW d \in DOMAIN objects, NEW obj \in CommsObject,
           objects' = [objects EXCEPT ![d] = obj], LaterChain(obj.handlers, objects[d].handlers),
           UNCHANGED <<state, environment, plugins_, handlers, fresh, written, dispatch_count_, timed>>,
           leaked \subseteq leaked',
           NEW text \in Seq(PlainToken), log' = Logged(text), MemoryAnalysisOnly => text = << >>
    PROVE  SessionInv'
<1>1. /\ dispatch_count_ \in Nat /\ objects \in [DOMAIN objects -> CommsObject]
      /\ DOMAIN objects \subseteq 1..dispatch_count_ /\ timed \subseteq 1..dispatch_count_
      /\ log \in Seq(LogToken) /\ Filed(log, written)
  BY DEF SessionInv, SessionType, OnceInv
<1>2. /\ objects' \in [DOMAIN objects' -> CommsObject] /\ DOMAIN objects' = DOMAIN objects
      /\ objects'[d] = obj /\ \A e \in DOMAIN objects : e # d => objects'[e] = objects[e]
  BY <1>1
<1>3. run_instrumented_ /\ timed' = {}
  BY DEF SessionInv, OnceInv
<1>4. ChainInv'
  <2>1. objects[d].handlers \in Seq(Handler)
    BY <1>1 DEF CommsObject
  <2>2. ASSUME NEW e \in DOMAIN objects'
        PROVE  LET gs == objects'[e].handlers
               IN  /\ OneAnalysis(gs)
                   /\ plugins_ = << >> => \A i \in 1..Len(gs) : gs[i].type # "memory_analysis"
                   /\ MemoryAnalysisOnly => Len(gs) = 1 /\ gs[1].type = "memory_analysis"
    <3>1. CASE e = d
      BY <1>2, <2>1, <3>1, LaterFits DEF SessionInv
    <3>2. CASE e # d
      BY <1>2, <3>2 DEF SessionInv, ChainInv
    <3> QED BY <3>1, <3>2
  <2>3. MemoryAnalysisOnly' = MemoryAnalysisOnly /\ plugins_' = plugins_
    BY DEF MemoryAnalysisOnly
  <2> QED BY <2>2, <2>3 DEF ChainInv
<1>5. log' \in Seq(LogToken) /\ Filed(log', written)
  <2>1. text \in Seq(LogToken) /\ \A x : Count(text, ObjectOf(x)) = 0
    BY PlainText
  <2>2. log \o text \in Seq(LogToken) /\ Filed(log \o text, written)
    BY <1>1, <2>1, LogPlain
  <2> QED BY <1>1, <2>2 DEF Logged
<1>6. AnalysisLog => log' = log
  <2>1. log \o << >> = log
    BY <1>1
  <2> QED BY <2>1 DEF Logged, AnalysisLog
<1>7. DOMAIN objects' \subseteq 1..dispatch_count_' /\ timed' \subseteq 1..dispatch_count_'
      /\ dispatch_count_' \in Nat /\ dispatch_count_ <= dispatch_count_'
  BY <1>1, <1>2
<1>8. \A e \in DOMAIN objects' \ leaked' : e \in DOMAIN objects \ leaked \/ e \notin 1..dispatch_count_
  BY <1>2
<1> QED BY <1>2, <1>3, <1>4, <1>5, <1>6, <1>7, <1>8, RunningInv

\* A chain is as late as itself.
LEMMA LaterSelf == ASSUME NEW hs \in Seq(Handler) PROVE LaterChain(hs, hs)
BY DEF LaterChain, Later

\* The memory analysis writes nothing when it takes a message.
LEMMA SilentAnalysis ==
    ASSUME NEW hs \in Seq(Handler), Len(hs) = 1, hs[1].type = "memory_analysis", NEW m, NEW d
    PROVE  TextOf(hs, m, d) = << >>
<1> DEFINE seqs == [i \in DOMAIN hs |-> IF i \in Takers(hs, m) THEN WrittenOn(hs[i], m, d, json) ELSE << >>]
<1>1. DOMAIN hs = {1} /\ DOMAIN hs = 1..1
  OBVIOUS
<1>2. WrittenOn(hs[1], m, d, json) = << >>
  BY DEF WrittenOn
<1>3. DOMAIN seqs = 1..1 /\ \A i \in DOMAIN seqs : seqs[i] = << >>
  BY <1>1, <1>2
<1>4. seqs \in Seq(Seq(LogToken))
  <2>1. << >> \in Seq(LogToken)
    OBVIOUS
  <2>2. seqs \in [1..1 -> Seq(LogToken)]
    BY <1>3, <2>1
  <2> QED BY <2>2
<1> HIDE DEF seqs
<1>5. FlattenSeq(seqs) = << >>
  BY <1>3, <1>4, FlattenEmpty
<1> QED BY <1>5 DEF TextOf, seqs

\* The kernel sends a message.
LEMMA SubmitInv ==
    ASSUME SessionInv, NEW d \in DOMAIN objects, NEW m \in Messages, Submit(d, m),
           UNCHANGED <<scriptVars, written>>
    PROVE  SessionInv'
<1> DEFINE obj == [objects[d] EXCEPT !.buffer = Append(@, m)]
<1>0. /\ state = "running" /\ objects' = [objects EXCEPT ![d] = obj]
      /\ UNCHANGED <<state, environment, plugins_, handlers, fresh, written, dispatch_count_, timed, leaked, log>>
  BY DEF Submit, sessionVars, commsVars, scriptVars
<1>1. objects[d] \in CommsObject /\ objects[d].handlers \in Seq(Handler)
  BY DEF SessionInv, SessionType, CommsObject
<1>2. obj \in CommsObject /\ obj.handlers = objects[d].handlers
  <2>1. m \in Message
    BY CommsAssumption
  <2> QED BY <1>1, <2>1 DEF CommsObject
<1>3. LaterChain(obj.handlers, objects[d].handlers)
  BY <1>1, <1>2, LaterSelf
<1>4. << >> \in Seq(PlainToken) /\ log' = Logged(<< >>)
  <2>1. log \o << >> = log
    BY DEF SessionInv, SessionType
  <2> QED BY <1>0, <2>1 DEF Logged
<1> HIDE DEF obj
<1> QED BY <1>0, <1>2, <1>3, <1>4, ObjectInv

\* The object's thread passes a message on.
LEMMA ProcessInv ==
    ASSUME SessionInv, NEW d \in DOMAIN objects, Process(d), UNCHANGED <<scriptVars, written>>
    PROVE  SessionInv'
<1> DEFINE hs == objects[d].handlers
           m == Head(objects[d].buffer)
           obj == [objects[d] EXCEPT !.handlers = Passed(@, m), !.buffer = Tail(@)]
           text == TextOf(hs, m, d)
<1>0. /\ state = "running" /\ objects' = [objects EXCEPT ![d] = obj] /\ objects[d].buffer # << >>
      /\ log' = Logged(text)
      /\ UNCHANGED <<state, environment, plugins_, handlers, fresh, written, dispatch_count_, timed, leaked>>
  <2>1. objects' = [objects EXCEPT ![d] = obj]
    BY Zenon DEF Process
  <2>2. state = "running" /\ objects[d].buffer # << >> /\ log' = Logged(text)
    BY Zenon DEF Process
  <2>3. UNCHANGED <<state, environment, plugins_, handlers, fresh, written, dispatch_count_, timed, leaked>>
    BY DEF Process, sessionVars, commsVars, scriptVars
  <2> QED BY <2>1, <2>2, <2>3
<1>1. /\ objects[d] \in CommsObject /\ hs \in Seq(Handler) /\ objects[d].buffer \in Seq(Message)
      /\ d \in Nat
  BY DEF SessionInv, SessionType, CommsObject
<1>2. m \in Message /\ Tail(objects[d].buffer) \in Seq(Message)
  BY <1>0, <1>1
<1>3. Passed(hs, m) \in Seq(Handler) /\ LaterChain(Passed(hs, m), hs)
  BY <1>1, <1>2, PassedType
<1>4. obj \in CommsObject /\ obj.handlers = Passed(hs, m)
  BY <1>1, <1>2, <1>3 DEF CommsObject
<1>5. text \in Seq(PlainToken)
  BY <1>1, ChainText
<1>6. MemoryAnalysisOnly => text = << >>
  BY <1>0, <1>1, SilentAnalysis DEF SessionInv, ChainInv
<1> HIDE DEF obj, text, m
<1> QED BY <1>0, <1>3, <1>4, <1>5, <1>6, ObjectInv

\* With the memory analysis alone, stop() has nothing written, and the report
\* is the analysis.
LEMMA SilentStop ==
    ASSUME NEW obj \in CommsObject, Len(obj.handlers) = 1, obj.handlers[1].type = "memory_analysis",
           NEW d
    PROVE  Stopped(obj, d).text = << >>
<1>1. obj.handlers \in Seq(Handler) /\ obj.buffer \in Seq(Message)
  BY DEF CommsObject
<1>2. PICK f : /\ Drains(f, obj.handlers, obj.buffer)
               /\ Stopped(obj, d).text =
                     FlattenSeq([n \in DOMAIN obj.buffer |-> TextOf(f[n - 1], obj.buffer[n], d)])
  BY <1>1, StoppedDrains
<1> DEFINE seqs == [n \in DOMAIN obj.buffer |-> TextOf(f[n - 1], obj.buffer[n], d)]
<1>3. ASSUME NEW n \in DOMAIN obj.buffer PROVE TextOf(f[n - 1], obj.buffer[n], d) = << >>
  <2>1. n - 1 \in 0..Len(obj.buffer)
    BY <1>1
  <2>2. LaterChain(f[n - 1], obj.handlers)
    BY <1>1, <1>2, <2>1, DrainsLater
  <2>3. f[n - 1] \in Seq(Handler) /\ Len(f[n - 1]) = 1 /\ f[n - 1][1].type = "memory_analysis"
    BY <2>2 DEF LaterChain, Later
  <2> QED BY <2>3, SilentAnalysis
<1>4. seqs \in Seq(Seq(LogToken)) /\ \A n \in DOMAIN seqs : seqs[n] = << >>
  <2>1. << >> \in Seq(LogToken)
    OBVIOUS
  <2>2. DOMAIN seqs = 1..Len(obj.buffer) /\ Len(obj.buffer) \in Nat
    BY <1>1
  <2>3. \A n \in DOMAIN seqs : seqs[n] = << >>
    BY <1>3
  <2>4. seqs \in [1..Len(obj.buffer) -> Seq(LogToken)]
    BY <2>1, <2>2, <2>3
  <2> HIDE DEF seqs
  <2>5. seqs \in Seq(Seq(LogToken))
    BY <2>2, <2>4
  <2> QED BY <2>3, <2>5
<1> HIDE DEF seqs
<1>5. FlattenSeq(seqs) = << >>
  BY <1>4, FlattenEmpty
<1> QED BY <1>2, <1>5 DEF seqs

\* A memory analysis that is alone writes its report and nothing else.
LEMMA AnalysisAlone ==
    ASSUME NEW hs \in Seq(Handler), Len(hs) = 1, hs[1].type = "memory_analysis", NEW n \in 0..1,
           NEW d \in Nat, NEW js \in BOOLEAN, NEW flushed \in BOOLEAN
    PROVE  LastText(hs, n, d, js, flushed) =
              IF n = 1 THEN AnalysisReport(d, js, flushed) ELSE << >>
<1> DEFINE t == AnalysisReport(d, js, flushed)
           seqs == [i \in 1..n |-> WrittenLast(hs[i], d, js, flushed)]
<1>1. t \in Seq(LogToken)
  BY AnalysisText
<1>2. WrittenLast(hs[1], d, js, flushed) = t
  BY DEF WrittenLast
<1> HIDE DEF t
<1>3. CASE n = 1
  <2>1. seqs = [i \in 1..1 |-> t]
    BY <1>2, <1>3
  <2>2. seqs = <<t>>
    BY <2>1
  <2> HIDE DEF seqs
  <2>3. FlattenSeq(seqs) = t
    BY <1>1, <2>2, FlattenSingle
  <2> QED BY <1>3, <2>3 DEF seqs, t, LastText
<1>4. CASE n = 0
  <2>1. DOMAIN seqs = {} /\ seqs \in Seq(Seq(LogToken))
    BY <1>4
  <2> HIDE DEF seqs
  <2>2. FlattenSeq(seqs) = << >>
    BY <2>1, FlattenEmpty
  <2> QED BY <1>4, <2>2 DEF seqs, LastText
<1> QED BY <1>3, <1>4

\* What checkinCommsObject writes: the text of stop(), the reports, and what
\* one that throws has written.
LEMMA CheckinText ==
    ASSUME NEW st \in Seq(PlainToken), NEW rep \in Seq(LogToken), NEW rec \in Seq(PlainToken)
    PROVE  /\ st \o rep \o rec \in Seq(LogToken)
           /\ \A x : Count(st \o rep \o rec, ObjectOf(x)) = Count(rep, ObjectOf(x))
<1>1. st \in Seq(LogToken) /\ rec \in Seq(LogToken)
  BY PlainText
<1>2. st \o rep \in Seq(LogToken) /\ st \o rep \o rec \in Seq(LogToken)
  BY <1>1, LogConcat
<1>3. ASSUME NEW x PROVE Count(st \o rep \o rec, ObjectOf(x)) = Count(rep, ObjectOf(x))
  <2>1. Count(st \o rep \o rec, ObjectOf(x)) = Count(st \o rep, ObjectOf(x)) + Count(rec, ObjectOf(x))
    BY <1>1, <1>2, CountConcat
  <2>2. Count(st \o rep, ObjectOf(x)) = Count(st, ObjectOf(x)) + Count(rep, ObjectOf(x))
    BY <1>1, CountConcat
  <2>3. Count(st, ObjectOf(x)) = 0 /\ Count(rec, ObjectOf(x)) = 0
    BY PlainText
  <2>4. Count(rep, ObjectOf(x)) \in Nat
    BY CountType
  <2> QED BY <2>1, <2>2, <2>3, <2>4
<1> QED BY <1>2, <1>3

\* A memory analysis is among the first n handlers, and its report reaches the
\* file.
WrittenThrough(d, n, flushed) ==
    /\ location = "file" /\ json /\ flushed
    /\ \E i \in 1..n : objects[d].handlers[i].type = "memory_analysis"

\* A dispatch gives its object back: its report is filed if it was written
\* through.
LEMMA CheckinLog ==
    ASSUME SessionInv, NEW d \in DOMAIN objects, NEW flushed \in BOOLEAN,
           NEW n \in 0..Len(objects[d].handlers), checkinCommsObject(d, n, flushed),
           NEW wr, wr = IF WrittenThrough(d, n, flushed) THEN Append(written, d) ELSE written
    PROVE  /\ log' \in Seq(LogToken) /\ Filed(log', wr)
           /\ AnalysisLog => Interleaved(log', wr)
<1> DEFINE hs == objects[d].handlers
           gs == Stopped(objects[d], d).handlers
           st == Stopped(objects[d], d).text
           rep == LastText(gs, n, d, json, flushed)
           throws == n < Len(gs) /\ MayThrow(gs[n + 1])
           rec == IF throws /\ flushed THEN Token("record", d) ELSE << >>
           text == st \o rep \o rec
<1>0. state = "running" /\ d \notin leaked /\ log' = Logged(text)
  BY Zenon DEF checkinCommsObject, LastText
<1>1. /\ objects[d] \in CommsObject /\ hs \in Seq(Handler) /\ objects[d].buffer \in Seq(Message)
      /\ d \in Nat /\ json \in BOOLEAN /\ log \in Seq(LogToken) /\ Filed(log, written)
      /\ written \in Seq(Nat)
  BY DEF SessionInv, SessionType, CommsObject, json, OnceInv
<1>2. LaterChain(gs, hs) /\ st \in Seq(PlainToken)
  BY <1>1, StoppedType
<1>3. /\ gs \in Seq(Handler) /\ OneAnalysis(gs)
      /\ plugins_ = << >> => \A i \in 1..Len(gs) : gs[i].type # "memory_analysis"
      /\ MemoryAnalysisOnly => Len(gs) = 1 /\ gs[1].type = "memory_analysis"
  <2> HIDE DEF gs
  <2> QED BY <1>0, <1>1, <1>2, LaterFits DEF SessionInv
<1>4. n \in 0..Len(gs) /\ \A i \in 1..n : gs[i].type = hs[i].type
  <2> HIDE DEF gs
  <2> QED BY <1>1, <1>2 DEF LaterChain, Later
<1>5. /\ rep \in Seq(LogToken)
      /\ \A x : Count(rep, ObjectOf(x)) =
            IF /\ x = d /\ json /\ flushed
               /\ \E i \in 1..n : gs[i].type = "memory_analysis"
            THEN 1 ELSE 0
  <2>1. flushed \in BOOLEAN
    OBVIOUS
  <2> HIDE DEF gs
  <2>2. Analysed(rep, gs, n, d, json, flushed)
    BY <1>1, <1>3, <1>4, <2>1, ReportText, Zenon
  <2> HIDE DEF rep
  <2> QED BY <2>2, Zenon DEF Analysed
<1>6. rec \in Seq(PlainToken)
  <2>1. "record" \in Kinds /\ << >> \in Seq(PlainToken)
    BY DEF Kinds
  <2>2. Token("record", d) \in Seq(PlainToken)
    BY <1>1, <2>1, TokenType
  <2> QED BY <2>1, <2>2
<1> HIDE DEF gs, st, rep, rec, throws
<1>7. text \in Seq(LogToken) /\ \A x : Count(text, ObjectOf(x)) = Count(rep, ObjectOf(x))
  BY <1>2, <1>5, <1>6, CheckinText
<1> HIDE DEF text
<1>8. log' \in Seq(LogToken) /\ Filed(log', wr)
  <2>1. CASE WrittenThrough(d, n, flushed)
    <3>1. plugins_ # << >> /\ log' = log \o text /\ wr = Append(written, d)
      <4>1. wr = Append(written, d) /\ location = "file"
        BY <2>1 DEF WrittenThrough
      <4>2. PICK i \in 1..n : hs[i].type = "memory_analysis"
        BY <2>1 DEF WrittenThrough
      <4>3. i \in 1..Len(gs) /\ gs[i].type = "memory_analysis"
        BY <1>4, <4>2
      <4>4. plugins_ # << >>
        BY <1>3, <4>3
      <4> QED BY <1>0, <4>1, <4>4 DEF Logged
    <3>2. \A x : Count(text, ObjectOf(x)) = IF x = d THEN 1 ELSE 0
      BY <1>4, <1>5, <1>7, <2>1 DEF WrittenThrough
    <3>3. \A i \in 1..Len(written) : written[i] # d
      BY <1>0 DEF SessionInv, OnceInv
    <3>4. log \o text \in Seq(LogToken) /\ Filed(log \o text, Append(written, d))
      BY <1>1, <1>7, <3>2, <3>3, LogReport
    <3> QED BY <3>1, <3>4
  <2>2. CASE ~WrittenThrough(d, n, flushed)
    <3>1. CASE log' = log
      BY <1>1, <2>2, <3>1
    <3>2. CASE location = "file" /\ log' = log \o text
      <4>1. \A x : Count(text, ObjectOf(x)) = 0
        BY <1>4, <1>5, <1>7, <2>2, <3>2 DEF WrittenThrough
      <4>2. log \o text \in Seq(LogToken) /\ Filed(log \o text, written)
        BY <1>1, <1>7, <4>1, LogPlain
      <4> QED BY <2>2, <3>2, <4>2
    <3> QED BY <1>0, <3>1, <3>2 DEF Logged
  <2> QED BY <2>1, <2>2
<1>9. ASSUME AnalysisLog PROVE Interleaved(log', wr)
  <2>1. /\ location = "file" /\ json /\ MemoryAnalysisOnly /\ Interleaved(log, written)
        /\ plugins_ # << >> /\ Len(gs) = 1 /\ gs[1].type = "memory_analysis" /\ n \in 0..1
        /\ Len(hs) = 1 /\ hs[1].type = "memory_analysis"
    <3>1. location = "file" /\ json /\ MemoryAnalysisOnly /\ Interleaved(log, written)
      BY <1>0, <1>9 DEF AnalysisLog, json, SessionInv, ArrayInv
    <3>2. Len(gs) = 1 /\ gs[1].type = "memory_analysis" /\ 1 \in 1..1
      BY <1>3, <3>1
    <3>3. plugins_ # << >>
      BY <1>3, <3>2
    <3>4. Len(hs) = 1 /\ hs[1].type = "memory_analysis"
      BY <1>0, <3>1 DEF SessionInv, ChainInv
    <3> QED BY <1>4, <3>1, <3>2, <3>3, <3>4
  <2>2. st = << >>
    BY <1>1, <2>1, SilentStop DEF st
  <2>3. rep = IF n = 1 THEN AnalysisReport(d, json, flushed) ELSE << >>
    <3>1. flushed \in BOOLEAN /\ n \in 0..1
      BY <2>1
    <3>2. gs \in Seq(Handler) /\ Len(gs) = 1 /\ gs[1].type = "memory_analysis" /\ d \in Nat
          /\ json \in BOOLEAN
      BY <1>1, <1>3, <2>1
    <3>3. LastText(gs, n, d, json, flushed) = IF n = 1 THEN AnalysisReport(d, json, flushed) ELSE << >>
      BY <3>1, <3>2, AnalysisAlone, Zenon
    <3> QED BY <3>3 DEF rep
  <2>4. rec = << >>
    <3>1. ~throws
      BY <2>1 DEF throws, MayThrow
    <3> QED BY <3>1 DEF rec
  <2>5. log' = log \o rep
    <3>1. text = rep
      BY <1>5, <2>2, <2>4 DEF text
    <3> QED BY <1>0, <2>1, <3>1 DEF Logged
  <2>6. WrittenThrough(d, n, flushed) <=> n = 1 /\ flushed
    BY <2>1 DEF WrittenThrough
  <2>7. CASE n = 1 /\ flushed
    <3>1. rep = AnalysisReport(d, json, flushed) /\ wr = Append(written, d)
      BY <2>3, <2>6, <2>7
    <3>2. Len(rep) = 2 /\ rep[1] = Opening(d)[1] /\ rep[2] = ObjectOf(d)
      BY <1>1, <2>1, <2>7, <3>1, AnalysisText
    <3>3. Interleaved(log \o rep, Append(written, d))
      BY <1>1, <1>5, <2>1, <3>2, InterleavedMore
    <3> QED BY <2>5, <3>1, <3>3
  <2>8. CASE ~(n = 1 /\ flushed)
    <3>1. rep = << >>
      BY <2>3, <2>8 DEF AnalysisReport
    <3>2. log' = log /\ wr = written
      BY <1>1, <2>5, <2>6, <2>8, <3>1
    <3> QED BY <2>1, <3>2
  <2> QED BY <2>7, <2>8
<1> QED BY <1>8, <1>9

\* The whole of checkinCommsObject.
LEMMA CheckinInv ==
    ASSUME SessionInv, NEW d \in DOMAIN objects, NEW flushed \in BOOLEAN,
           NEW n \in 0..Len(objects[d].handlers), Checkin(d, n, flushed)
    PROVE  SessionInv'
<1>0. /\ state = "running" /\ d \notin leaked
      /\ UNCHANGED <<state, environment, plugins_, handlers, fresh, dispatch_count_, timed>>
      /\ written' = IF WrittenThrough(d, n, flushed) THEN Append(written, d) ELSE written
      /\ checkinCommsObject(d, n, flushed)
  BY DEF Checkin, checkinCommsObject, sessionVars, commsVars, scriptVars, WrittenThrough
<1>1. /\ DOMAIN objects' \subseteq DOMAIN objects /\ \A e \in DOMAIN objects' : objects'[e] = objects[e]
      /\ leaked \subseteq leaked' /\ d \notin DOMAIN objects' \ leaked'
      /\ objects' = [e \in DOMAIN objects' |-> objects'[e]]
  <2>1. \/ objects' = Restrict(objects, DOMAIN objects \ {d}) /\ leaked' = leaked
        \/ objects' = objects /\ leaked' = leaked \cup {d}
    BY <1>0, Zenon DEF checkinCommsObject
  <2> QED BY <2>1 DEF Restrict, SessionInv, SessionType
<1>2. /\ run_instrumented_' = run_instrumented_ /\ location' = location
      /\ AnalysisLog' = AnalysisLog /\ MemoryAnalysisOnly' = MemoryAnalysisOnly
  BY <1>0 DEF environment, run_instrumented_, AnalysisLog, MemoryAnalysisOnly
<1>3. log' \in Seq(LogToken) /\ Filed(log', written') /\ (AnalysisLog => Interleaved(log', written'))
  BY <1>0, CheckinLog
<1>4. /\ d \in 1..dispatch_count_ /\ written \in Seq(Nat) /\ dispatch_count_ \in Nat
      /\ \A i \in 1..Len(written) : written[i] # d /\ written[i] \in 1..dispatch_count_
      /\ \A i, j \in 1..Len(written) : written[i] = written[j] => i = j
      /\ run_instrumented_
  BY <1>0 DEF SessionInv, SessionType, OnceInv
<1>5. /\ written' \in Seq(Nat)
      /\ \A i \in 1..Len(written') : written'[i] \in 1..dispatch_count_
      /\ \A i, j \in 1..Len(written') : written'[i] = written'[j] => i = j
      /\ \A i \in 1..Len(written') :
            written'[i] = d \/ \E j \in 1..Len(written) : written'[i] = written[j]
  <2>1. CASE written' = written
    BY <1>4, <2>1
  <2>2. CASE written' = Append(written, d)
    <3>1. /\ Len(written') = Len(written) + 1 /\ written'[Len(written) + 1] = d
          /\ \A i \in 1..Len(written) : written'[i] = written[i]
          /\ written' \in Seq(Nat)
      BY <1>4, <2>2
    <3>2. \A i \in 1..Len(written') : i = Len(written) + 1 \/ i \in 1..Len(written)
      BY <1>4, <3>1
    <3> QED BY <1>4, <3>1, <3>2
  <2> QED BY <1>0, <2>1, <2>2
<1>6. SessionType'
  <2>1. objects' \in [DOMAIN objects' -> CommsObject]
    BY <1>1 DEF SessionInv, SessionType
  <2> QED BY <1>0, <1>1, <1>3, <1>5, <2>1 DEF SessionInv, SessionType
<1>7. PluginInv'
  BY <1>0, <1>2 DEF SessionInv, PluginInv
<1>8. ChainInv'
  BY <1>0, <1>1, <1>2 DEF SessionInv, ChainInv
<1>9. OnceInv'
  <2>1. (\A e \in DOMAIN objects \ leaked : \A i \in 1..Len(written) : written[i] # e)'
    BY <1>1, <1>5 DEF SessionInv, OnceInv
  <2>2. timed' = {}
    BY <1>0, <1>4 DEF SessionInv, OnceInv
  <2> QED BY <1>2, <1>3, <1>4, <1>5, <2>1, <2>2 DEF OnceInv
<1>10. ArrayInv'
  BY <1>0, <1>2, <1>3 DEF ArrayInv
<1> QED BY <1>6, <1>7, <1>8, <1>9, <1>10 DEF SessionInv

\* The script closes the array.
LEMMA FinalizeInv ==
    ASSUME SessionInv, finalize_json_output
    PROVE  SessionInv'
<1>0. /\ state = "ended" /\ state' = "finalized"
      /\ UNCHANGED <<environment, handlers, fresh, written, dispatch_count_, timed, objects, leaked>>
      /\ log' = log \/ log' = Closed(log)
      /\ location = "file" /\ Contains(handlers, MemAnalysis) /\ log_format = "json" => log' = Closed(log)
  BY DEF finalize_json_output, dispatchVars, scriptVars, MemAnalysis
<1>1. /\ log \in Seq(LogToken) /\ Filed(log, written) /\ written \in Seq(Nat)
      /\ \A i, j \in 1..Len(written) : written[i] = written[j] => i = j
  BY DEF SessionInv, SessionType, OnceInv
<1>2. /\ run_instrumented_' = run_instrumented_ /\ location' = location
      /\ AnalysisLog' = AnalysisLog
  BY <1>0 DEF environment, run_instrumented_, AnalysisLog, MemoryAnalysisOnly
<1>3. log' \in Seq(LogToken) /\ Filed(log', written)
      /\ \A done : Lined(log, done) => Lined(log', done)
  BY <1>0, <1>1, ClosedText, ClosedFiled
<1>4. SessionType'
  BY <1>0, <1>3 DEF SessionInv, SessionType
<1>5. PluginInv' /\ ChainInv'
  BY <1>0 DEF SessionInv, PluginInv, ChainInv
<1>6. OnceInv'
  BY <1>0, <1>2, <1>3 DEF SessionInv, OnceInv
<1>7. ArrayInv'
  <2> SUFFICES ASSUME AnalysisLog, written # << >>, written[1] = 1 PROVE IsArray(log')
    BY <1>0, <1>2 DEF ArrayInv
  <2>1. Contains(handlers, MemAnalysis)
    BY DEF AnalysisLog, MemoryAnalysisOnly, MemAnalysis, Contains
  <2>2. log' = Closed(log) /\ Interleaved(log, written)
    BY <1>0, <2>1 DEF AnalysisLog, SessionInv, ArrayInv
  <2> QED BY <1>1, <2>2, InterleavedArray
<1> QED BY <1>4, <1>5, <1>6, <1>7 DEF SessionInv

\* Every step of the session keeps the invariant.
THEOREM SessionInductive ==
    /\ Init => SessionInv
    /\ SessionInv /\ [Next]_vars => SessionInv'
<1>1. ASSUME Init PROVE SessionInv
  <2>1. /\ state = "setup" /\ dispatch_count_ = 0 /\ timed = {} /\ objects = EmptyMap
        /\ written = << >> /\ fresh \in BOOLEAN /\ log = IF fresh THEN << >> ELSE EarlierLog
    BY <1>1, JsonLogAssumption DEF Init, CommsInit
  <2>2. log \in Seq(LogToken) /\ Filed(log, << >>) /\ Lined(log, {}) /\ (fresh => Interleaved(log, << >>))
    BY <2>1, BeginningInv
  <2>3. /\ DOMAIN objects = {} /\ objects \in [DOMAIN objects -> CommsObject]
        /\ (1..dispatch_count_) \ timed = {}
        /\ Len(written) = 0 /\ written \in Seq(Nat) /\ \A i \in 1..Len(written) : FALSE
    BY <2>1 DEF EmptyMap
  <2>4. SessionType
    BY <2>1, <2>2, <2>3 DEF SessionType, Beginning
  <2>5. PluginInv /\ ChainInv
    BY <2>1, <2>3 DEF PluginInv, ChainInv
  <2>6. OnceInv
    <3>1. Filed(log, written) /\ Lined(log, (1..dispatch_count_) \ timed)
      BY <2>1, <2>2, <2>3
    <3> QED BY <2>1, <2>3, <3>1 DEF OnceInv
  <2>7. ArrayInv
    BY <2>1, <2>2 DEF ArrayInv, AnalysisLog
  <2> QED BY <2>4, <2>5, <2>6, <2>7 DEF SessionInv
<1>2. ASSUME SessionInv, [Next]_vars PROVE SessionInv'
  <2> USE <1>2
  <2>1. ASSUME NEW parms \in CommandLines, setup_env(parms) PROVE SessionInv'
    BY <2>1, SetupInv
  <2>2. CASE Load(handlers) /\ UNCHANGED <<scriptVars, written>>
    BY <2>2, LoadInv
  <2>3. CASE CommsNext /\ UNCHANGED <<scriptVars, written>>
    <3> USE <2>3
    <3>1. CASE Unload
      <4>1. /\ state = "running" /\ state' = "ended" /\ UNCHANGED kept
            /\ dispatch_count_' = dispatch_count_
        BY <3>1 DEF Unload, kept, dispatchVars, scriptVars
      <4> QED BY <4>1, EndInv
    <3>2. CASE DispatchOriginal
      BY <3>2, DispatchOriginalInv
    <3>3. ASSUME NEW d \in timed, signalCompleted(d) PROVE SessionInv'
      BY <3>3, SignalCompletedInv
    <3>4. ASSUME NEW a \in Agents, NEW kdb \in {"no_database", "no_kernel", "kernel"},
                 checkoutCommsObject(a, kdb)
          PROVE  SessionInv'
      <4>1. kdb \in Database
        BY DEF Database
      <4> QED BY <3>4, <4>1, CheckoutInv
    <3>5. ASSUME NEW d \in DOMAIN objects, NEW m \in Messages, Submit(d, m) PROVE SessionInv'
      BY <3>5, SubmitInv
    <3>6. ASSUME NEW d \in DOMAIN objects, Process(d) PROVE SessionInv'
      BY <3>6, ProcessInv
    <3> QED BY <3>1, <3>2, <3>3, <3>4, <3>5, <3>6 DEF CommsNext
  <2>4. ASSUME NEW d \in DOMAIN objects, NEW flushed \in BOOLEAN,
               NEW n \in 0..Len(objects[d].handlers), Checkin(d, n, flushed)
        PROVE  SessionInv'
    BY <2>4, CheckinInv
  <2>5. CASE ApplicationEnds \/ KeyboardInterrupt
    <3>1. /\ state \in {"loading", "running"} /\ state' \in {"ended", "interrupted"} /\ UNCHANGED kept
          /\ dispatch_count_' = dispatch_count_
      BY <2>5 DEF ApplicationEnds, KeyboardInterrupt, kept, dispatchVars, scriptVars
    <3> QED BY <3>1, EndInv
  <2>6. CASE finalize_json_output
    BY <2>6, FinalizeInv
  <2>7. CASE UNCHANGED vars
    BY <2>7, StutterInv
  <2> QED BY <2>1, <2>2, <2>3, <2>4, <2>5, <2>6, <2>7 DEF Next
<1> QED BY <1>1, <1>2

\* The session's invariant holds throughout.
THEOREM SessionInvariance == Spec => []SessionInv
<1>1. Init => SessionInv
  BY SessionInductive
<1>2. SessionInv /\ [Next]_vars => SessionInv'
  BY SessionInductive
<1> QED BY <1>1, <1>2, PTL DEF Spec

\* Each memory analysis that was written through is in the log once, whatever
\* the plugins and the order in which kernels complete; without
\* instrumentation, one line for each dispatch that has completed
\* (report_json, finalize_json_output, logDuration).
THEOREM ReportsOnce == Spec => []EveryReportOnce
<1>1. ASSUME SessionInv PROVE EveryReportOnce
  <2> SUFFICES ASSUME NEW id \in 1..dispatch_count_
               PROVE  /\ Cardinality({i \in DOMAIN log : log[i] = Token("object", id)[1]}) =
                            IF id \in Range(written) THEN 1 ELSE 0
                      /\ ~run_instrumented_ /\ location = "file" =>
                            Cardinality({i \in DOMAIN log : log[i] = Token("text", id)[1]}) =
                               IF id \in timed THEN 0 ELSE 1
    BY DEF EveryReportOnce
  <2>1. id \in Nat \ {0} /\ written \in Seq(Nat) /\ log \in Seq(LogToken)
    BY <1>1 DEF SessionInv, SessionType
  <2>2. Token("object", id)[1] = ObjectOf(id) /\ Token("text", id)[1] = TextLine(id)
    BY DEF Token, ObjectOf, TextLine
  <2>3. id \in Range(written) <=> \E i \in 1..Len(written) : written[i] = id
    BY <2>1 DEF Range
  <2>4. Count(log, ObjectOf(id)) = IF \E i \in 1..Len(written) : written[i] = id THEN 1 ELSE 0
    BY <1>1, <2>1 DEF SessionInv, OnceInv, Filed
  <2>5. ~run_instrumented_ /\ location = "file" =>
            Count(log, TextLine(id)) = IF id \in timed THEN 0 ELSE 1
    BY <1>1, <2>1 DEF SessionInv, OnceInv, Lined
  <2>6. \A x : Count(log, x) = Cardinality({i \in DOMAIN log : log[i] = x})
    BY <2>1 DEF Count
  <2> QED BY <2>2, <2>3, <2>4, <2>5, <2>6
<1> QED BY <1>1, SessionInvariance, PTL

\* The log of a memory analysis alone, in a file that was new, is finalized to
\* a JSON array if the first report written through is that of dispatch 1, in
\* whatever order the others complete (report_json, finalize_json_output).
THEOREM ArrayWhenFirst == Spec => []ArrayIfFirst
<1>1. SessionInv => ArrayIfFirst
  BY DEF SessionInv, ArrayInv, AnalysisLog, MemoryAnalysisOnly, ArrayIfFirst, FinalizedIsArray
<1> QED BY <1>1, SessionInvariance, PTL

-----------------------------------------------------------------------------
(* The agents that have a pool.                                            *)

Served == {a \in Agents : \E i \in DOMAIN Pools[a] : Usable(Pools[a][i])}

\* addAgent has found a pool for all of them, and no other agent's dispatch is
\* given an object.
PoolInv ==
    /\ state = "running" => DOMAIN mem_mgrs_ = Served
    /\ faulted \subseteq Agents \ Served

\* A null object is dereferenced only for an agent that has no usable pool:
\* addAgent overlooks none (addAgent, checkoutCommsObject, fixupPacket).
THEOREM FaultsNeedPool == Spec => []FaultNeedsPool
<1>1. Init => PoolInv
  BY DEF Init, CommsInit, PoolInv
<1>2. ASSUME PoolInv, [Next]_vars PROVE PoolInv'
  <2> USE <1>2
  <2>1. ASSUME NEW parms \in CommandLines, setup_env(parms) PROVE PoolInv'
    BY <2>1 DEF PoolInv, setup_env, dispatchVars
  <2>2. CASE Load(handlers)
    <3>1. faulted' = faulted
      BY <2>2 DEF Load, dispatchVars
    <3>2. CASE addAgents
      <4>1. DOMAIN mem_mgrs_' = Served
        BY <3>2 DEF addAgents, Served
      <4> QED BY <3>1, <4>1 DEF PoolInv
    <3>3. CASE state' = "ended"
      BY <3>1, <3>3 DEF PoolInv
    <3> QED BY <2>2, <3>2, <3>3 DEF Load
  <2>3. CASE CommsNext
    <3>1. CASE Unload
      BY <3>1 DEF Unload, PoolInv, dispatchVars
    <3>2. CASE DispatchOriginal
      BY <3>2 DEF DispatchOriginal, PoolInv, sessionVars, commsVars
    <3>3. ASSUME NEW d \in timed, signalCompleted(d) PROVE PoolInv'
      BY <3>3 DEF signalCompleted, PoolInv, sessionVars, commsVars
    <3>4. ASSUME NEW a \in Agents, NEW kdb, checkoutCommsObject(a, kdb) PROVE PoolInv'
      <4>1. /\ state = "running" /\ UNCHANGED mem_mgrs_
            /\ \/ UNCHANGED <<state, faulted>>
               \/ a \notin DOMAIN mem_mgrs_ /\ faulted' = faulted \cup {a} /\ state' = "ended"
        BY <3>4 DEF checkoutCommsObject, commsVars
      <4> QED BY <4>1 DEF PoolInv
    <3>5. ASSUME NEW d \in DOMAIN objects, NEW m \in Messages, Submit(d, m) PROVE PoolInv'
      BY <3>5 DEF Submit, PoolInv, sessionVars, commsVars
    <3>6. ASSUME NEW d \in DOMAIN objects, Process(d) PROVE PoolInv'
      BY <3>6 DEF Process, PoolInv, sessionVars, commsVars
    <3> QED BY <2>3, <3>1, <3>2, <3>3, <3>4, <3>5, <3>6 DEF CommsNext
  <2>4. ASSUME NEW d \in DOMAIN objects, NEW flushed \in BOOLEAN, NEW n, Checkin(d, n, flushed)
        PROVE  PoolInv'
    BY <2>4 DEF Checkin, checkinCommsObject, PoolInv, sessionVars, commsVars
  <2>5. CASE ApplicationEnds \/ KeyboardInterrupt \/ finalize_json_output
    BY <2>5 DEF ApplicationEnds, KeyboardInterrupt, finalize_json_output, PoolInv, dispatchVars
  <2>6. CASE UNCHANGED vars
    BY <2>6 DEF vars, sessionVars, commsVars, dispatchVars, PoolInv
  <2> QED BY <2>1, <2>2, <2>3, <2>4, <2>5, <2>6 DEF Next
<1>3. PoolInv => FaultNeedsPool
  BY DEF PoolInv, Served, Usable, FaultNeedsPool
<1> QED BY <1>1, <1>2, <1>3, PTL DEF Spec

-----------------------------------------------------------------------------
(* Arithmetic.                                                             *)

\* Adding to a rest.
LEMMA ModAdd ==
    ASSUME NEW m \in Nat \ {0}, NEW a \in Int, NEW b \in Int
    PROVE  ((a % m) + b) % m = (a + b) % m
<1> DEFINE r == a % m
           q == a \div m
           c == r + b
           s == c % m
           p == c \div m
           t == (a + b) % m
           u == (a + b) \div m
<1>1. q \in Int /\ r \in 0..(m - 1) /\ a = m * q + r
  BY Division
<1>2. c \in Int
  BY <1>1
<1>3. p \in Int /\ s \in 0..(m - 1) /\ c = m * p + s
  BY <1>2, Division
<1>4. u \in Int /\ t \in 0..(m - 1) /\ a + b = m * u + t
  BY Division
<1>5. c = r + b
  OBVIOUS
<1> HIDE DEF r, q, c, s, p, t, u
<1>6. m * (q + p) + s = m * u + t
  <2>1. m * (q + p) = m * q + m * p
    BY <1>1, <1>3
  <2>2. m * q \in Int /\ m * p \in Int /\ m * u \in Int
    BY <1>1, <1>3, <1>4
  <2> QED BY <1>1, <1>3, <1>4, <1>5, <2>1, <2>2
<1>7. q + p \in Int
  BY <1>1, <1>3
<1>8. s = t
  BY <1>3, <1>4, <1>6, <1>7, RestUnique
<1> QED BY <1>8 DEF r, q, c, s, p, t, u

\* The range of a page holds the addresses of that page and no others, and
\* pages do not overlap.
LEMMA PageRange ==
    ASSUME NEW a \in Nat, NEW b \in Nat
    PROVE  /\ Page(a) = Page(b) <=> a \in Page(b)..(Page(b) + page_size - 1)
           /\ Page(a) < Page(b) => Page(a) + page_size <= Page(b)
<1> DEFINE P == page_size
           q == a \div P
           r == a % P
           p == b \div P
           s == b % P
<1>0. P \in Nat \ {0}
  BY HandlersAssumption
<1> HIDE DEF P
<1>1. q \in Int /\ r \in 0..(P - 1) /\ a = P * q + r
  BY <1>0, Division
<1>2. p \in Int /\ s \in 0..(P - 1) /\ b = P * p + s
  BY <1>0, Division
<1>3. Page(a) = P * q /\ Page(b) = P * p
  <2>1. Page(a) = q * P /\ Page(b) = p * P
    BY DEF Page, P
  <2> HIDE DEF q, p
  <2> QED BY <1>0, <1>1, <1>2, <2>1
<1> HIDE DEF q, p, r, s
<1>4. P * q \in Int /\ P * p \in Int
  BY <1>0, <1>1, <1>2
<1>5. P * q = P * p => a \in (P * p)..(P * p + P - 1)
  BY <1>0, <1>1, <1>4
<1>6. a \in (P * p)..(P * p + P - 1) => P * q = P * p
  <2> SUFFICES ASSUME a \in (P * p)..(P * p + P - 1) PROVE P * q = P * p
    OBVIOUS
  <2>1. a - P * p \in 0..(P - 1) /\ P * q + r = P * p + (a - P * p)
    BY <1>0, <1>1, <1>4
  <2> QED BY <1>0, <1>1, <1>2, <2>1, RestUnique
<1>7. P * q < P * p => P * q + P <= P * p
  <2> SUFFICES ASSUME P * q < P * p PROVE P * q + P <= P * p
    OBVIOUS
  <2>1. q < p
    BY <1>0, <1>1, <1>2
  <2>2. P * (q + 1) <= P * p
    BY <1>0, <1>1, <1>2, <2>1
  <2>3. P * (q + 1) = P * q + P
    BY <1>0, <1>1
  <2> QED BY <2>2, <2>3
<1> QED BY <1>3, <1>5, <1>6, <1>7 DEF P

-----------------------------------------------------------------------------
(* A handler's figures, item by item.                                      *)

\* The pages of the items, each with the number of its items.
HeatmapSound(h, items) ==
    /\ IsFiniteSet(DOMAIN items)
    /\ DOMAIN h.page_counts_ = {Page(items[x]) : x \in DOMAIN items}
    /\ \A p \in DOMAIN h.page_counts_ :
          h.page_counts_[p] = Cardinality({x \in DOMAIN items : Page(items[x]) = p})

\* The figures, and those of no intervals.
IntervalsSound(h, items) ==
    /\ IsFiniteSet(DOMAIN items)
    /\ IntervalsExact(h, items)
    /\ h.no_intervals_ = 0 => h.first_start_ = UINT64_MAX /\ h.last_stop_ = 0

\* more has one item more than items, at x.
OneMore(more, items, x, T) ==
    /\ x \notin DOMAIN items
    /\ DOMAIN more = DOMAIN items \cup {x}
    /\ more[x] \in T /\ \A y \in DOMAIN items : more[y] = items[y] /\ items[y] \in T

\* The heatmap counts one more address.
LEMMA HeatmapStep ==
    ASSUME NEW h \in HeatmapState, NEW items, NEW more, NEW x, OneMore(more, items, x, Nat),
           HeatmapSound(h, items)
    PROVE  HeatmapSound(CountPage(h, more[x]), more)
<1> DEFINE pc == h.page_counts_
           a == Page(more[x])
           g == CountPage(h, more[x])
           At1(p) == {y \in DOMAIN items : Page(items[y]) = p}
           At2(p) == {y \in DOMAIN more : Page(more[y]) = p}
<1>0. /\ IsFiniteSet(DOMAIN items) /\ x \notin DOMAIN items
      /\ DOMAIN more = DOMAIN items \cup {x}
      /\ more[x] \in Nat /\ \A y \in DOMAIN items : more[y] = items[y]
  BY DEF OneMore, HeatmapSound
<1>1. /\ DOMAIN pc = {Page(items[y]) : y \in DOMAIN items}
      /\ \A p \in DOMAIN pc : pc[p] = Cardinality(At1(p))
  BY DEF HeatmapSound
<1>2. g.page_counts_ = Put(pc, a, At(pc, a, 0) + 1)
  BY <1>0, CountPageType
<1>3. \A p : IsFiniteSet(At1(p)) /\ Cardinality(At1(p)) \in Nat
  <2>1. \A p : At1(p) \subseteq DOMAIN items
    OBVIOUS
  <2> HIDE DEF At1
  <2> QED BY <1>0, <2>1, FS_Subset, FS_CardinalityType
<1>4. At(pc, a, 0) = Cardinality(At1(a))
  <2>1. CASE a \in DOMAIN pc
    BY <1>1, <2>1 DEF At
  <2>2. CASE a \notin DOMAIN pc
    <3>1. At1(a) = {}
      BY <1>1, <2>2
    <3>2. Cardinality({}) = 0
      BY FS_EmptySet
    <3> QED BY <2>2, <3>1, <3>2 DEF At
  <2> QED BY <2>1, <2>2
<1>5. Cardinality(At2(a)) = Cardinality(At1(a)) + 1
  <2>1. At2(a) = At1(a) \cup {x} /\ x \notin At1(a)
    BY <1>0
  <2> HIDE DEF At1, At2
  <2> QED BY <1>3, <2>1, FS_AddElement
<1>6. \A p : p # a => At2(p) = At1(p)
  BY <1>0
<1>7. DOMAIN g.page_counts_ = {Page(more[y]) : y \in DOMAIN more}
  <2>1. DOMAIN g.page_counts_ = DOMAIN pc \cup {a}
    BY <1>2 DEF Put
  <2>2. {Page(more[y]) : y \in DOMAIN more} = {Page(items[y]) : y \in DOMAIN items} \cup {a}
    BY <1>0
  <2> QED BY <1>1, <2>1, <2>2
<1>8. ASSUME NEW p \in DOMAIN g.page_counts_ PROVE g.page_counts_[p] = Cardinality(At2(p))
  <2>1. CASE p = a
    BY <1>2, <1>4, <1>5, <2>1 DEF Put
  <2>2. CASE p # a
    <3>1. p \in DOMAIN pc /\ g.page_counts_[p] = pc[p]
      BY <1>2, <1>8, <2>2 DEF Put
    <3> QED BY <1>1, <1>6, <2>2, <3>1
  <2> QED BY <2>1, <2>2
<1>9. IsFiniteSet(DOMAIN more)
  BY <1>0, FS_AddElement
<1> HIDE DEF g
<1> QED BY <1>7, <1>8, <1>9 DEF HeatmapSound, g

\* The intervals have one more.
LEMMA IntervalsStep ==
    ASSUME NEW h \in IntervalState, NEW items, NEW more, NEW x, OneMore(more, items, x, Interval),
           IntervalsSound(h, items)
    PROVE  IntervalsSound(AddInterval(h, more[x]), more)
<1> DEFINE ti == more[x]
           g == AddInterval(h, ti)
           M == UINT64_MAX + 1
           f1 == [y \in DOMAIN items |-> items[y].stop - items[y].start]
           f2 == [y \in DOMAIN more |-> more[y].stop - more[y].start]
<1>0. /\ IsFiniteSet(DOMAIN items) /\ x \notin DOMAIN items
      /\ DOMAIN more = DOMAIN items \cup {x}
      /\ ti \in Interval /\ \A y \in DOMAIN items : more[y] = items[y] /\ items[y] \in Interval
  BY DEF OneMore, IntervalsSound
<1>1. UINT64_MAX \in Nat /\ M \in Nat \ {0}
  BY HandlersAssumption
<1>2. /\ g \in IntervalState
      /\ g.first_start_ = IF ti.start < h.first_start_ THEN ti.start ELSE h.first_start_
      /\ g.last_stop_ = IF ti.stop > h.last_stop_ THEN ti.stop ELSE h.last_stop_
      /\ g.total_time_ = (h.total_time_ + (ti.stop - ti.start)) % M
      /\ g.no_intervals_ = h.no_intervals_ + 1
  BY <1>0, AddIntervalType
<1>3. /\ h.first_start_ \in 0..UINT64_MAX /\ h.last_stop_ \in 0..UINT64_MAX
      /\ h.no_intervals_ \in Nat /\ h.total_time_ \in Nat
  BY <1>1 DEF IntervalState
<1>4. ti.start \in 0..UINT64_MAX /\ ti.stop \in 0..UINT64_MAX
  BY <1>0 DEF Interval
<1>5. /\ h.no_intervals_ = Cardinality(DOMAIN items)
      /\ h.total_time_ = SumFunction(f1) % M
      /\ h.no_intervals_ > 0 =>
            /\ \E y \in DOMAIN items : h.first_start_ = items[y].start
            /\ \E y \in DOMAIN items : h.last_stop_ = items[y].stop
            /\ \A y \in DOMAIN items : h.first_start_ <= items[y].start /\ items[y].stop <= h.last_stop_
      /\ h.no_intervals_ = 0 => h.first_start_ = UINT64_MAX /\ h.last_stop_ = 0
  BY DEF IntervalsSound, IntervalsExact
<1>6. g.no_intervals_ = Cardinality(DOMAIN more) /\ g.no_intervals_ > 0
  <2>1. Cardinality(DOMAIN items \cup {x}) = Cardinality(DOMAIN items) + 1
    BY <1>0, FS_AddElement
  <2> QED BY <1>0, <1>2, <1>3, <1>5, <2>1
<1>7. g.total_time_ = SumFunction(f2) % M
  <2>1. ExtendedAt(f1, f2, DOMAIN items, x)
    <3>1. \A y \in DOMAIN more : more[y].stop - more[y].start \in Int
      BY <1>0, <1>1 DEF Interval
    <3>2. DOMAIN f1 = DOMAIN items /\ DOMAIN f2 = DOMAIN items \cup {x}
      BY <1>0
    <3>3. f2[x] \in Int /\ \A y \in DOMAIN items : f1[y] \in Int /\ f2[y] = f1[y]
      BY <1>0, <3>1
    <3> HIDE DEF f1, f2
    <3> QED BY <1>0, <3>2, <3>3 DEF ExtendedAt
  <2>2. f2[x] = ti.stop - ti.start /\ ti.stop - ti.start \in Int
    BY <1>0, <1>1, <1>4
  <2> HIDE DEF f1, f2, M, ti, g
  <2>3. SumFunction(f2) = SumFunction(f1) + (ti.stop - ti.start) /\ SumFunction(f1) \in Int
    BY <2>1, <2>2, SumExtend
  <2>4. ((SumFunction(f1) % M) + (ti.stop - ti.start)) % M = (SumFunction(f1) + (ti.stop - ti.start)) % M
    BY <1>1, <2>2, <2>3, ModAdd
  <2> QED BY <1>2, <1>5, <2>3, <2>4
<1> HIDE DEF g, f1, f2, M
<1>8. /\ \A y \in DOMAIN more : g.first_start_ <= more[y].start /\ more[y].stop <= g.last_stop_
      /\ \E y \in DOMAIN more : g.first_start_ = more[y].start
      /\ \E y \in DOMAIN more : g.last_stop_ = more[y].stop
  <2>0. \A y \in DOMAIN items : more[y].start \in 0..UINT64_MAX /\ more[y].stop \in 0..UINT64_MAX
    BY <1>0 DEF Interval
  <2> HIDE DEF ti
  <2>1. CASE h.no_intervals_ = 0
    <3>1. DOMAIN items = {}
      BY <1>0, <1>5, <2>1, FS_EmptySet
    <3>2. DOMAIN more = {x} /\ more[x] = ti
      BY <1>0, <3>1 DEF ti
    <3>3. g.first_start_ = ti.start /\ g.last_stop_ = ti.stop
      BY <1>1, <1>2, <1>3, <1>4, <1>5, <2>1
    <3> QED BY <1>1, <1>4, <3>2, <3>3
  <2>2. CASE h.no_intervals_ > 0
    <3>1. x \in DOMAIN more /\ more[x] = ti /\ \A y \in DOMAIN items : y \in DOMAIN more
      BY <1>0 DEF ti
    <3>2. \E y \in DOMAIN more : g.first_start_ = more[y].start
      BY <1>0, <1>2, <1>5, <2>2, <3>1
    <3>3. \E y \in DOMAIN more : g.last_stop_ = more[y].stop
      BY <1>0, <1>2, <1>5, <2>2, <3>1
    <3>4. ASSUME NEW y \in DOMAIN more
          PROVE  g.first_start_ <= more[y].start /\ more[y].stop <= g.last_stop_
      <4>1. CASE y = x
        BY <1>1, <1>2, <1>3, <1>4, <3>1, <4>1
      <4>2. CASE y \in DOMAIN items
        <5>1. h.first_start_ <= more[y].start /\ more[y].stop <= h.last_stop_
          BY <1>0, <1>5, <2>2, <4>2
        <5> QED BY <1>1, <1>2, <1>3, <1>4, <2>0, <4>2, <5>1
      <4> QED BY <1>0, <4>1, <4>2
    <3> QED BY <3>2, <3>3, <3>4
  <2> QED BY <1>3, <2>1, <2>2
<1>9. IntervalsExact(g, more)
  BY <1>6, <1>7, <1>8 DEF IntervalsExact, f2, M
<1>10. IsFiniteSet(DOMAIN more)
  BY <1>0, FS_AddElement
<1> QED BY <1>1, <1>6, <1>9, <1>10 DEF IntervalsSound, g

-----------------------------------------------------------------------------
(* A message at a time.                                                    *)

\* The items of the messages took, and the first n of message k.
Part(ms, took, k, n) ==
    [x \in DOMAIN ItemsOf(ms, took) \cup {<<k, j>> : j \in 1..n} |-> ms[x[1]].items[x[2]]]

\* The places of the items.
LEMMA ItemPlaces ==
    ASSUME NEW ms, NEW took
    PROVE  /\ \A x : x \in DOMAIN ItemsOf(ms, took) <=>
                        \E i \in took : \E j \in 1..Len(ms[i].items) : x = <<i, j>>
           /\ \A x \in DOMAIN ItemsOf(ms, took) : ItemsOf(ms, took)[x] = ms[x[1]].items[x[2]]
BY DEF ItemsOf

\* No item of message k yet, and all of them.
LEMMA PartEnds ==
    ASSUME NEW ms, NEW took, NEW k
    PROVE  /\ Part(ms, took, k, 0) = ItemsOf(ms, took)
           /\ Part(ms, took, k, Len(ms[k].items)) = ItemsOf(ms, took \cup {k})
<1> DEFINE D == DOMAIN ItemsOf(ms, took)
           E == DOMAIN ItemsOf(ms, took \cup {k})
<1>1. {<<k, j>> : j \in 1..0} = {}
  OBVIOUS
<1>2. E = D \cup {<<k, j>> : j \in 1..Len(ms[k].items)}
  <2>1. \A x : x \in E <=> x \in D \/ x \in {<<k, j>> : j \in 1..Len(ms[k].items)}
    BY ItemPlaces
  <2> QED BY <2>1
<1>3. ItemsOf(ms, took) = [x \in D |-> ms[x[1]].items[x[2]]]
  BY DEF ItemsOf
<1>4. ItemsOf(ms, took \cup {k}) = [x \in E |-> ms[x[1]].items[x[2]]]
  BY DEF ItemsOf
<1> HIDE DEF D, E
<1>5. Part(ms, took, k, 0) = [x \in D |-> ms[x[1]].items[x[2]]]
  BY <1>1 DEF Part, D
<1>6. Part(ms, took, k, Len(ms[k].items)) = [x \in E |-> ms[x[1]].items[x[2]]]
  BY <1>2 DEF Part, D
<1> QED BY <1>3, <1>4, <1>5, <1>6

\* Message k is another one with items in T.
Another(ms, took, k, T) ==
    k \notin took /\ ms[k].items \in Seq(T) /\ \A i \in took : ms[i].items \in Seq(T)

\* The next item of message k.
LEMMA PartNext ==
    ASSUME NEW T, NEW ms, NEW took, NEW k, Another(ms, took, k, T), NEW n \in 1..Len(ms[k].items)
    PROVE  /\ OneMore(Part(ms, took, k, n), Part(ms, took, k, n - 1), <<k, n>>, T)
           /\ Part(ms, took, k, n)[<<k, n>>] = ms[k].items[n]
<1> DEFINE D == DOMAIN ItemsOf(ms, took)
           K(i) == {<<k, j>> : j \in 1..i}
           P(i) == Part(ms, took, k, i)
<1>0. k \notin took /\ ms[k].items \in Seq(T) /\ \A i \in took : ms[i].items \in Seq(T)
  BY DEF Another
<1>1. n \in Nat \ {0} /\ n \in 1..n /\ 1..n = (1..(n - 1)) \cup {n} /\ n \notin 1..(n - 1)
  BY <1>0
<1>2. \A i : DOMAIN P(i) = D \cup K(i) /\ \A x \in D \cup K(i) : P(i)[x] = ms[x[1]].items[x[2]]
  BY DEF Part
<1>3. K(n) = K(n - 1) \cup {<<k, n>>} /\ <<k, n>> \notin K(n - 1) /\ <<k, n>> \notin D
  <2>1. <<k, n>> \notin D
    BY <1>0, ItemPlaces
  <2>2. K(n) = K(n - 1) \cup {<<k, n>>}
    BY <1>1
  <2>3. <<k, n>> \notin K(n - 1)
    BY <1>1
  <2> QED BY <2>1, <2>2, <2>3
<1>4. \A x \in D : ms[x[1]].items[x[2]] \in T
  BY <1>0, ItemPlaces
<1>5. \A x \in K(n) : ms[x[1]].items[x[2]] \in T
  <2>1. \A j \in 1..n : ms[k].items[j] \in T
    BY <1>0
  <2> QED BY <2>1
<1> HIDE DEF D, K, P
<1>6. <<k, n>>[1] = k /\ <<k, n>>[2] = n
  OBVIOUS
<1>7. OneMore(P(n), P(n - 1), <<k, n>>, T)
  <2> DEFINE x == <<k, n>>
             more == P(n)
             items == P(n - 1)
             v(y) == ms[y[1]].items[y[2]]
  <2>1. /\ DOMAIN more = D \cup K(n) /\ \A y \in D \cup K(n) : more[y] = v(y)
        /\ DOMAIN items = D \cup K(n - 1) /\ \A y \in D \cup K(n - 1) : items[y] = v(y)
        /\ \A y \in D \cup K(n) : v(y) \in T
    BY <1>2, <1>4, <1>5
  <2>2. K(n) = K(n - 1) \cup {x} /\ x \notin K(n - 1) /\ x \notin D
    BY <1>3
  <2> HIDE DEF x, more, items, v
  <2>3. OneMore(more, items, x, T)
    BY <2>1, <2>2 DEF OneMore
  <2> QED BY <2>3 DEF x, more, items
<1>8. P(n)[<<k, n>>] = ms[k].items[n]
  BY <1>2, <1>3, <1>6
<1> QED BY <1>7, <1>8 DEF P

\* The heatmap takes a message.
LEMMA HeatmapMessage ==
    ASSUME NEW h \in HeatmapState, NEW ms, NEW took, NEW k, Another(ms, took, k, Nat),
           HeatmapSound(h, ItemsOf(ms, took))
    PROVE  HeatmapSound(Kept(h, ms[k]), ItemsOf(ms, took \cup {k}))
<1> DEFINE N == Len(ms[k].items)
<1>1. PICK f : Counts(f, h, ms[k].items) /\ Kept(h, ms[k]) = f[N]
  BY KeptCounts DEF Another
<1>2. N \in Nat
  BY DEF Another
<1> DEFINE G == {n \in 0..N : HeatmapSound(f[n], Part(ms, took, k, n))}
<1>3. 0 \in G
  <2>1. Part(ms, took, k, 0) = ItemsOf(ms, took)
    BY PartEnds, Zenon
  <2>2. f[0] = h
    BY <1>1 DEF Counts
  <2> QED BY <1>2, <2>1, <2>2
<1>4. ASSUME NEW n \in (0 + 1)..N, n - 1 \in G PROVE n \in G
  <2>1. n \in 1..N /\ n \in 0..N /\ n - 1 \in 0..N
    BY <1>2
  <2>2. f[n - 1] \in HeatmapState /\ f[n] = CountPage(f[n - 1], ms[k].items[n])
    BY <1>1, <2>1 DEF Counts
  <2>3. /\ OneMore(Part(ms, took, k, n), Part(ms, took, k, n - 1), <<k, n>>, Nat)
        /\ Part(ms, took, k, n)[<<k, n>>] = ms[k].items[n]
    BY <2>1, PartNext
  <2>4. HeatmapSound(f[n - 1], Part(ms, took, k, n - 1))
    BY <1>4
  <2>5. HeatmapSound(CountPage(f[n - 1], Part(ms, took, k, n)[<<k, n>>]), Part(ms, took, k, n))
    BY <2>2, <2>3, <2>4, HeatmapStep
  <2> QED BY <2>1, <2>2, <2>3, <2>5
<1> HIDE DEF G
<1>5. N \in G
  <2>1. \A n \in 0..N : n \in G
    <3> HIDE DEF N
    <3> QED BY <1>2, <1>3, <1>4, UpTo
  <2> QED BY <1>2, <2>1
<1> QED BY <1>1, <1>5, PartEnds DEF G

\* The intervals take a message.
LEMMA IntervalsMessage ==
    ASSUME NEW h \in IntervalState, NEW ms, NEW took, NEW k, Another(ms, took, k, Interval),
           IntervalsSound(h, ItemsOf(ms, took))
    PROVE  IntervalsSound(Kept(h, ms[k]), ItemsOf(ms, took \cup {k}))
<1> DEFINE N == Len(ms[k].items)
<1>1. PICK f : Adds(f, h, ms[k].items) /\ Kept(h, ms[k]) = f[N]
  BY KeptAdds DEF Another
<1>2. N \in Nat
  BY DEF Another
<1> DEFINE G == {n \in 0..N : IntervalsSound(f[n], Part(ms, took, k, n))}
<1>3. 0 \in G
  <2>1. Part(ms, took, k, 0) = ItemsOf(ms, took)
    BY PartEnds, Zenon
  <2>2. f[0] = h
    BY <1>1 DEF Adds
  <2> QED BY <1>2, <2>1, <2>2
<1>4. ASSUME NEW n \in (0 + 1)..N, n - 1 \in G PROVE n \in G
  <2>1. n \in 1..N /\ n \in 0..N /\ n - 1 \in 0..N
    BY <1>2
  <2>2. f[n - 1] \in IntervalState /\ f[n] = AddInterval(f[n - 1], ms[k].items[n])
    BY <1>1, <2>1 DEF Adds
  <2>3. /\ OneMore(Part(ms, took, k, n), Part(ms, took, k, n - 1), <<k, n>>, Interval)
        /\ Part(ms, took, k, n)[<<k, n>>] = ms[k].items[n]
    BY <2>1, PartNext
  <2>4. IntervalsSound(f[n - 1], Part(ms, took, k, n - 1))
    BY <1>4
  <2>5. IntervalsSound(AddInterval(f[n - 1], Part(ms, took, k, n)[<<k, n>>]), Part(ms, took, k, n))
    BY <2>2, <2>3, <2>4, IntervalsStep
  <2> QED BY <2>1, <2>2, <2>3, <2>5
<1> HIDE DEF G
<1>5. N \in G
  <2>1. \A n \in 0..N : n \in G
    <3> HIDE DEF N
    <3> QED BY <1>2, <1>3, <1>4, UpTo
  <2> QED BY <1>2, <2>1
<1> QED BY <1>1, <1>5, PartEnds DEF G

-----------------------------------------------------------------------------
(* The figures of a chain.                                                 *)

Sound(h, items) ==
    /\ h.type = "heatmap" => HeatmapSound(h, items)
    /\ h.type = "time_interval" => IntervalsSound(h, items)

\* The first k messages of ms that handler i of the chain takes.
TakenBy(hs, ms, i, k) == {j \in 1..k : i \in Takers(hs, ms[j])}

\* Every handler of the chain has the figures of what it has taken.
ChainSound(hs, ms, k) ==
    \A i \in 1..Len(hs) : Sound(hs[i], ItemsOf(ms, TakenBy(hs, ms, i, k)))

\* What a message of each kind has.
LEMMA MessageItems ==
    ASSUME NEW m \in Message
    PROVE  /\ m.kind = "address" => m.items \in Seq(Nat)
           /\ m.kind = "time_interval" => m.items \in Seq(Interval)
           /\ \A h : Takes(h, m) => /\ h.type = "heatmap" => m.items \in Seq(Nat)
                                    /\ h.type = "time_interval" => m.items \in Seq(Interval)
<1>1. /\ m.kind = "address" => m.items \in Seq(Nat)
      /\ m.kind = "time_interval" => m.items \in Seq(Interval)
  BY DEF Message
<1> QED BY <1>1 DEF Takes

\* The handlers of a later chain take the same messages.
LEMMA LaterTakers ==
    ASSUME NEW hs \in Seq(Handler), NEW gs, LaterChain(gs, hs), NEW m
    PROVE  Takers(gs, m) = Takers(hs, m)
<1>1. gs \in Seq(Handler) /\ Len(gs) = Len(hs) /\ DOMAIN gs = 1..Len(hs) /\ DOMAIN hs = 1..Len(hs)
  BY DEF LaterChain
<1>2. \A i \in 1..Len(hs) : Takes(gs[i], m) <=> Takes(hs[i], m)
  <2> SUFFICES ASSUME NEW i \in 1..Len(hs) PROVE Takes(gs[i], m) <=> Takes(hs[i], m)
    OBVIOUS
  <2>1. gs[i] \in Handler /\ hs[i] \in Handler /\ Later(gs[i], hs[i])
    BY <1>1 DEF LaterChain
  <2> QED BY <2>1, LaterTakes
<1>3. \A i \in 1..Len(hs) : \A j \in 1..(i - 1) : j \in 1..Len(hs)
  BY <1>1
<1> QED BY <1>1, <1>2, <1>3 DEF Takers

\* One more message is passed on.
LEMMA ChainStep ==
    ASSUME NEW hs \in Seq(Handler), NEW ms \in Seq(Message), NEW k \in 1..Len(ms),
           ChainSound(hs, ms, k - 1)
    PROVE  ChainSound(Passed(hs, ms[k]), ms, k)
<1> DEFINE gs == Passed(hs, ms[k])
<1>1. gs \in Seq(Handler) /\ LaterChain(gs, hs) /\ Len(gs) = Len(hs) /\ ms[k] \in Message
  <2>1. ms[k] \in Message
    OBVIOUS
  <2>2. gs \in Seq(Handler) /\ LaterChain(gs, hs)
    BY <2>1, PassedType
  <2> QED BY <2>1, <2>2 DEF LaterChain
<1>2. \A i \in 1..Len(hs) : gs[i] = IF i \in Takers(hs, ms[k]) THEN Kept(hs[i], ms[k]) ELSE hs[i]
  BY DEF Passed
<1> HIDE DEF gs
<1> SUFFICES ASSUME NEW i \in 1..Len(hs)
             PROVE  Sound(gs[i], ItemsOf(ms, TakenBy(gs, ms, i, k)))
  BY <1>1 DEF ChainSound, gs
<1> DEFINE took == TakenBy(hs, ms, i, k - 1)
           h == hs[i]
<1>3. TakenBy(gs, ms, i, k) = IF i \in Takers(hs, ms[k]) THEN took \cup {k} ELSE took
  <2>1. TakenBy(gs, ms, i, k) = TakenBy(hs, ms, i, k)
    <3>1. \A j \in 1..k : Takers(gs, ms[j]) = Takers(hs, ms[j])
      BY <1>1, LaterTakers
    <3> QED BY <3>1 DEF TakenBy
  <2>2. k \in Nat \ {0} /\ 1..k = (1..(k - 1)) \cup {k}
    OBVIOUS
  <2> QED BY <2>1, <2>2 DEF TakenBy
<1>4. h \in Handler /\ Sound(h, ItemsOf(ms, took)) /\ Later(gs[i], h) /\ i \in DOMAIN hs
  BY <1>1 DEF ChainSound, LaterChain
<1>5. /\ k \notin took
      /\ \A j \in took : ms[j] \in Message /\ Takes(h, ms[j])
  BY DEF TakenBy, Takers
<1> HIDE DEF took, h
<1>6. CASE i \notin Takers(hs, ms[k])
  BY <1>2, <1>3, <1>4, <1>6 DEF h
<1>7. CASE i \in Takers(hs, ms[k])
  <2>1. Takes(h, ms[k]) /\ gs[i] = Kept(h, ms[k]) /\ gs[i].type = h.type
    BY <1>2, <1>4, <1>7 DEF Takers, h, Later
  <2>2. CASE h.type = "heatmap"
    <3>1. h \in HeatmapState /\ HeatmapSound(h, ItemsOf(ms, took))
      BY <1>4, <2>2, HandlerTypes DEF Sound
    <3>2. Another(ms, took, k, Nat)
      BY <1>1, <1>5, <2>1, <2>2, MessageItems DEF Another
    <3>3. HeatmapSound(Kept(h, ms[k]), ItemsOf(ms, took \cup {k}))
      BY <3>1, <3>2, HeatmapMessage
    <3> QED BY <1>3, <1>7, <2>1, <2>2, <3>3 DEF Sound
  <2>3. CASE h.type = "time_interval"
    <3>1. h \in IntervalState /\ IntervalsSound(h, ItemsOf(ms, took))
      BY <1>4, <2>3, HandlerTypes DEF Sound
    <3>2. Another(ms, took, k, Interval)
      BY <1>1, <1>5, <2>1, <2>3, MessageItems DEF Another
    <3>3. IntervalsSound(Kept(h, ms[k]), ItemsOf(ms, took \cup {k}))
      BY <3>1, <3>2, IntervalsMessage
    <3> QED BY <1>3, <1>7, <2>1, <2>3, <3>3 DEF Sound
  <2>4. CASE h.type # "heatmap" /\ h.type # "time_interval"
    BY <2>1, <2>4 DEF Sound
  <2> QED BY <2>2, <2>3, <2>4
<1> QED BY <1>6, <1>7

\* An object holds what its kernel has sent: the figures of what has been
\* passed on, and the rest in its buffer.
ObjectSound(obj, ms) ==
    LET k == Len(ms) - Len(obj.buffer)
    IN  /\ k \in Nat
        /\ \A j \in 1..Len(obj.buffer) : obj.buffer[j] = ms[k + j]
        /\ ChainSound(obj.handlers, ms, k)

\* stop() leaves the figures of everything that was sent.
LEMMA StoppedSound ==
    ASSUME NEW obj \in CommsObject, NEW ms \in Seq(Message), ObjectSound(obj, ms), NEW d \in Nat
    PROVE  ChainSound(Stopped(obj, d).handlers, ms, Len(ms))
<1> DEFINE N == Len(obj.buffer)
           k == Len(ms) - N
<1>1. obj.handlers \in Seq(Handler) /\ obj.buffer \in Seq(Message)
  BY DEF CommsObject
<1>2. /\ N \in Nat /\ k \in Nat /\ k + N = Len(ms) /\ ChainSound(obj.handlers, ms, k)
      /\ \A j \in 1..N : obj.buffer[j] = ms[k + j]
  BY <1>1 DEF ObjectSound
<1>3. PICK f : Drains(f, obj.handlers, obj.buffer) /\ Stopped(obj, d).handlers = f[N]
  BY <1>1, StoppedDrains
<1> HIDE DEF N, k
<1> DEFINE G == {n \in 0..N : ChainSound(f[n], ms, k + n)}
<1>4. 0 \in G
  <2>1. f[0] = obj.handlers /\ k + 0 = k
    BY <1>2, <1>3 DEF Drains
  <2> QED BY <1>2, <2>1
<1>5. ASSUME NEW n \in (0 + 1)..N, n - 1 \in G PROVE n \in G
  <2>1. n \in 1..N /\ n \in 0..N /\ n - 1 \in 0..N /\ (k + n) - 1 = k + (n - 1) /\ k + n \in 1..Len(ms)
    BY <1>2
  <2>2. f[n - 1] \in Seq(Handler) /\ f[n] = Passed(f[n - 1], ms[k + n])
    BY <1>2, <1>3, <2>1 DEF Drains, N
  <2>3. ChainSound(f[n - 1], ms, (k + n) - 1)
    BY <1>5, <2>1
  <2>4. ChainSound(Passed(f[n - 1], ms[k + n]), ms, k + n)
    BY <2>1, <2>2, <2>3, ChainStep
  <2> QED BY <2>1, <2>2, <2>4
<1> HIDE DEF G
<1>6. N \in G
  <2>1. \A n \in 0..N : n \in G
    BY <1>2, <1>4, <1>5, UpTo
  <2> QED BY <1>2, <2>1
<1> QED BY <1>2, <1>3, <1>6 DEF G

\* The first handlers of a chain have the figures they had.
LEMMA SubChainSound ==
    ASSUME NEW hs \in Seq(Handler), NEW n \in 0..Len(hs), NEW ms, NEW k, ChainSound(hs, ms, k)
    PROVE  ChainSound(SubSeq(hs, 1, n), ms, k) /\ SubSeq(hs, 1, n) \in Seq(Handler)
<1> DEFINE gs == SubSeq(hs, 1, n)
<1>1. /\ gs \in Seq(Handler) /\ Len(gs) = n /\ DOMAIN gs = 1..n /\ DOMAIN hs = 1..Len(hs)
      /\ 1..n \subseteq 1..Len(hs) /\ \A i \in 1..n : gs[i] = hs[i]
  OBVIOUS
<1> HIDE DEF gs
<1>2. ASSUME NEW i \in 1..n PROVE Sound(gs[i], ItemsOf(ms, TakenBy(gs, ms, i, k)))
  <2>1. \A m : i \in Takers(gs, m) <=> i \in Takers(hs, m)
    <3>1. \A j \in 1..(i - 1) : j \in 1..n
      OBVIOUS
    <3> QED BY <1>1, <3>1 DEF Takers
  <2>2. TakenBy(gs, ms, i, k) = TakenBy(hs, ms, i, k)
    BY <2>1 DEF TakenBy
  <2> QED BY <1>1, <2>2 DEF ChainSound
<1> QED BY <1>1, <1>2 DEF ChainSound, gs

\* What was taken does not depend on what is sent after it.
LEMMA SentLater ==
    ASSUME NEW hs, NEW ms \in Seq(Message), NEW m \in Message, NEW k \in 0..Len(ms),
           ChainSound(hs, ms, k)
    PROVE  ChainSound(hs, Append(ms, m), k)
<1> DEFINE ns == Append(ms, m)
<1>1. \A j \in 1..k : ns[j] = ms[j]
  OBVIOUS
<1> HIDE DEF ns
<1>2. ASSUME NEW i \in 1..Len(hs) PROVE Sound(hs[i], ItemsOf(ns, TakenBy(hs, ns, i, k)))
  <2>1. TakenBy(hs, ns, i, k) = TakenBy(hs, ms, i, k)
    BY <1>1 DEF TakenBy
  <2> DEFINE took == TakenBy(hs, ms, i, k)
  <2>2. took \subseteq 1..k
    BY DEF TakenBy
  <2> HIDE DEF took
  <2>3. ItemsOf(ns, took) = ItemsOf(ms, took)
    <3>1. \A j \in took : ns[j] = ms[j]
      BY <1>1, <2>2
    <3>2. \A x : x \in DOMAIN ItemsOf(ns, took) <=> x \in DOMAIN ItemsOf(ms, took)
      BY <3>1, ItemPlaces
    <3>3. \A x \in DOMAIN ItemsOf(ms, took) : ItemsOf(ns, took)[x] = ItemsOf(ms, took)[x]
      BY <3>1, <3>2, ItemPlaces
    <3>4. DOMAIN ItemsOf(ns, took) = DOMAIN ItemsOf(ms, took)
      BY <3>2
    <3>5. /\ ItemsOf(ns, took) = [x \in DOMAIN ItemsOf(ns, took) |-> ItemsOf(ns, took)[x]]
          /\ ItemsOf(ms, took) = [x \in DOMAIN ItemsOf(ms, took) |-> ItemsOf(ms, took)[x]]
      BY DEF ItemsOf
    <3> QED BY <3>3, <3>4, <3>5
  <2> QED BY <2>1, <2>3 DEF ChainSound, took
<1> QED BY <1>2 DEF ChainSound, ns

\* Figures that were kept item by item are those the items have by themselves.
LEMMA SoundExact ==
    ASSUME NEW h \in Handler, NEW ms, NEW took, \A j \in took : ms[j] \in Message /\ Takes(h, ms[j]),
           Sound(h, ItemsOf(ms, took))
    PROVE  Exact(h, ItemsOf(ms, took))
<1> DEFINE items == ItemsOf(ms, took)
<1>1. CASE h.type = "time_interval"
  BY <1>1 DEF Sound, IntervalsSound, Exact
<1>2. CASE h.type = "heatmap"
  <2> DEFINE pc == h.page_counts_
             P == page_size
             On(p) == {x \in DOMAIN items : Page(items[x]) = p}
  <2>1. /\ IsFiniteSet(DOMAIN items)
        /\ DOMAIN pc = {Page(items[x]) : x \in DOMAIN items}
        /\ \A p \in DOMAIN pc : pc[p] = Cardinality(On(p))
    BY <1>2 DEF Sound, HeatmapSound
  <2>2. \A x \in DOMAIN items : items[x] \in Nat
    BY <1>2, ItemPlaces, MessageItems
  <2> HIDE DEF items
  <2>3. ASSUME NEW p \in DOMAIN pc
        PROVE  /\ pc[p] > 0
               /\ pc[p] = Cardinality({x \in DOMAIN items : items[x] \in p..(p + page_size - 1)})
    <3>1. PICK y \in DOMAIN items : p = Page(items[y])
      BY <2>1
    <3>2. \A x \in DOMAIN items : Page(items[x]) = p <=> items[x] \in p..(p + page_size - 1)
      BY <2>2, <3>1, PageRange
    <3>3. On(p) = {x \in DOMAIN items : items[x] \in p..(p + page_size - 1)}
      BY <3>2
    <3>4. Cardinality(On(p)) \in Nat /\ Cardinality(On(p)) # 0
      <4>1. On(p) \subseteq DOMAIN items /\ y \in On(p)
        BY <3>1
      <4> HIDE DEF On
      <4>2. IsFiniteSet(On(p))
        BY <2>1, <4>1, FS_Subset
      <4> QED BY <4>1, <4>2, FS_CardinalityType, FS_EmptySet
    <3>5. pc[p] = Cardinality(On(p))
      BY <2>1
    <3> HIDE DEF On, pc
    <3>6. pc[p] > 0
      BY <3>4, <3>5
    <3> QED BY <3>3, <3>5, <3>6
  <2>4. ASSUME NEW p \in DOMAIN pc, NEW q \in DOMAIN pc, p < q PROVE p + page_size <= q
    <3>1. PICK x \in DOMAIN items, y \in DOMAIN items : p = Page(items[x]) /\ q = Page(items[y])
      BY <2>1
    <3> QED BY <2>2, <2>4, <3>1, PageRange
  <2>5. ASSUME NEW x \in DOMAIN items
        PROVE  \E p \in DOMAIN pc : items[x] \in p..(p + page_size - 1)
    <3>1. Page(items[x]) \in DOMAIN pc
      BY <2>1
    <3>2. items[x] \in Page(items[x])..(Page(items[x]) + page_size - 1)
      BY <2>2, PageRange
    <3> QED BY <3>1, <3>2
  <2>6. HeatmapExact(h, items)
    BY <2>3, <2>4, <2>5 DEF HeatmapExact
  <2> QED BY <1>2, <2>6 DEF Exact, items
<1>3. CASE h.type # "heatmap" /\ h.type # "time_interval"
  BY <1>3 DEF Exact
<1> QED BY <1>1, <1>2, <1>3

\* The handlers a dispatch starts with.
NewHandler ==
    {memory_heatmap_t, time_interval_handler_t, message_logger_t, memory_analysis_handler_t}
    \cup {basic_block_analysis(kdb) : kdb \in Database}

\* They have the figures of no items.
LEMMA NewSound ==
    ASSUME NEW h \in NewHandler, NEW ms
    PROVE  Sound(h, ItemsOf(ms, {}))
<1> DEFINE items == ItemsOf(ms, {})
<1>1. DOMAIN items = {} /\ IsFiniteSet({}) /\ Cardinality({}) = 0
  <2>1. \A x : x \notin DOMAIN items
    BY ItemPlaces
  <2>2. DOMAIN items = {}
    BY <2>1
  <2> QED BY <2>2, FS_EmptySet
<1> HIDE DEF items
<1>2. CASE h = memory_heatmap_t
  <2>1. h.type = "heatmap" /\ DOMAIN h.page_counts_ = {}
    BY <1>2 DEF memory_heatmap_t, EmptyMap
  <2>2. HeatmapSound(h, items)
    BY <1>1, <2>1 DEF HeatmapSound
  <2> QED BY <2>1, <2>2 DEF Sound, items
<1>3. CASE h = time_interval_handler_t
  <2>1. /\ h.type = "time_interval" /\ h.first_start_ = UINT64_MAX /\ h.last_stop_ = 0
        /\ h.total_time_ = 0 /\ h.no_intervals_ = 0
    BY <1>3 DEF time_interval_handler_t
  <2> DEFINE f == [x \in DOMAIN items |-> items[x].stop - items[x].start]
  <2>2. SumFunction(f) = 0
    <3>1. DOMAIN f = {}
      BY <1>1
    <3> HIDE DEF f
    <3>2. SumFunctionOnSet(f, {}) = 0
      BY SumEmpty
    <3> QED BY <3>1, <3>2 DEF SumFunction
  <2> HIDE DEF f
  <2>3. 0 % (UINT64_MAX + 1) = 0
    BY HandlersAssumption
  <2>4. IntervalsExact(h, items)
    BY <1>1, <2>1, <2>2, <2>3 DEF IntervalsExact, f
  <2>5. IntervalsSound(h, items)
    BY <1>1, <2>1, <2>4 DEF IntervalsSound
  <2> QED BY <2>1, <2>5 DEF Sound, items
<1>4. CASE h \notin {memory_heatmap_t, time_interval_handler_t}
  <2>1. h.type # "heatmap" /\ h.type # "time_interval"
    BY <1>4 DEF NewHandler, message_logger_t, memory_analysis_handler_t, basic_block_analysis
  <2> QED BY <2>1 DEF Sound
<1> QED BY <1>2, <1>3, <1>4

\* The chain of a new dispatch has them.
LEMMA NewChain ==
    ASSUME Distinct(plugins_), NEW kdb \in Database, NEW ms
    PROVE  ChainSound(Chain(kdb), ms, 0)
<1> DEFINE hs == Chain(kdb)
<1>1. hs \in Seq(NewHandler)
  <2>1. CASE plugins_ = << >>
    BY <2>1 DEF Chain, NewHandler
  <2>2. CASE plugins_ # << >>
    <3> DEFINE seqs == [i \in DOMAIN plugins_ |-> Plugin(kdb)[plugins_[i]]]
    <3>1. plugins_ \in Seq(Exporting) /\ DOMAIN plugins_ = 1..Len(plugins_) /\ Len(plugins_) \in Nat
      BY DEF Distinct
    <3>2. ASSUME NEW lib \in Exporting PROVE Plugin(kdb)[lib] \in Seq(NewHandler)
      <4>1. lib \in {"libdefaultMessageHandlers64.so", "libMemAnalysis64.so", "libLogMessages64.so",
                     "libBasicBlocks64.so"}
        BY DEF Exporting, Plugin
      <4>2. Plugin(kdb)[lib] \in {<<time_interval_handler_t, memory_heatmap_t>>,
               <<memory_analysis_handler_t>>, <<message_logger_t>>, <<basic_block_analysis(kdb)>>}
        BY <4>1 DEF Plugin
      <4>3. /\ time_interval_handler_t \in NewHandler /\ memory_heatmap_t \in NewHandler
            /\ memory_analysis_handler_t \in NewHandler /\ message_logger_t \in NewHandler
            /\ basic_block_analysis(kdb) \in NewHandler
        BY DEF NewHandler
      <4>4. \A g, h \in NewHandler : <<g, h>> \in Seq(NewHandler) /\ <<g>> \in Seq(NewHandler)
        OBVIOUS
      <4> QED BY <4>2, <4>3, <4>4, Zenon
    <3>3. seqs \in Seq(Seq(NewHandler))
      <4>1. seqs \in [1..Len(plugins_) -> Seq(NewHandler)]
        BY <3>1, <3>2
      <4> HIDE DEF seqs
      <4> QED BY <3>1, <4>1
    <3> HIDE DEF seqs
    <3>4. FlattenSeq(seqs) \in Seq(NewHandler)
      BY <3>3, FlattenType
    <3> QED BY <2>2, <3>4 DEF Chain, getMessageHandlers, seqs
  <2> QED BY <2>1, <2>2
<1> HIDE DEF hs
<1>2. ASSUME NEW i \in 1..Len(hs) PROVE Sound(hs[i], ItemsOf(ms, TakenBy(hs, ms, i, 0)))
  <2>1. TakenBy(hs, ms, i, 0) = {}
    BY DEF TakenBy
  <2>2. hs[i] \in NewHandler
    BY <1>1
  <2> QED BY <2>1, <2>2, NewSound
<1> QED BY <1>2 DEF ChainSound, hs

-----------------------------------------------------------------------------
(* The invariant of the figures.                                           *)

FiguresInv ==
    /\ sent \in [DOMAIN sent -> Seq(Message)]
    /\ reports \in [DOMAIN reports -> Seq(Handler)]
    /\ DOMAIN sent \subseteq 1..dispatch_count_
    /\ DOMAIN objects \subseteq DOMAIN sent
    /\ DOMAIN reports \subseteq DOMAIN sent
    /\ DOMAIN objects \cap DOMAIN reports \subseteq leaked
    /\ \A d \in DOMAIN objects \ leaked : ObjectSound(objects[d], sent[d])
    /\ \A d \in DOMAIN reports : ChainSound(reports[d], sent[d], Len(sent[d]))

\* The variables the invariant is about, but for the number of dispatches.
figures == <<objects, sent, reports, leaked>>

\* A dispatch at most is counted.
LEMMA FiguresSame ==
    ASSUME FiguresInv, UNCHANGED figures, dispatch_count_ \in Nat,
           dispatch_count_' \in {dispatch_count_, dispatch_count_ + 1}
    PROVE  FiguresInv'
<1>1. 1..dispatch_count_ \subseteq 1..dispatch_count_'
  OBVIOUS
<1> QED BY <1>1 DEF FiguresInv, figures

\* A new object has nothing to show.
LEMMA FiguresCheckout ==
    ASSUME SessionInv, FiguresInv, NEW a, NEW kdb \in Database, checkoutCommsObject(a, kdb)
    PROVE  FiguresInv'
<1> DEFINE id == dispatch_count_ + 1
           hs == Chain(kdb)
           obj == [agent |-> a, handlers |-> hs, buffer |-> << >>]
<1>0. /\ state = "running" /\ dispatch_count_' = id /\ UNCHANGED <<reports, leaked>>
      /\ \/ objects' = Put(objects, id, obj) /\ sent' = Put(sent, id, << >>)
         \/ UNCHANGED <<objects, sent>>
  BY DEF checkoutCommsObject
<1>1. dispatch_count_ \in Nat /\ id \notin 1..dispatch_count_ /\ 1..id = (1..dispatch_count_) \cup {id}
  BY DEF SessionInv, SessionType
<1>2. CASE UNCHANGED <<objects, sent>>
  BY <1>0, <1>1, <1>2, FiguresSame DEF figures
<1>3. CASE objects' = Put(objects, id, obj) /\ sent' = Put(sent, id, << >>)
  <2>1. ObjectSound(obj, << >>)
    <3>1. ChainSound(hs, << >>, 0)
      BY <1>0, NewChain DEF SessionInv, PluginInv
    <3> HIDE DEF hs
    <3>2. obj.handlers = hs /\ Len(obj.buffer) = 0 /\ Len(<< >>) - Len(obj.buffer) = 0
      OBVIOUS
    <3>3. \A j \in 1..Len(obj.buffer) : FALSE
      OBVIOUS
    <3> HIDE DEF obj
    <3> QED BY <3>1, <3>2, <3>3 DEF ObjectSound
  <2> HIDE DEF obj, id
  <2>2. /\ DOMAIN objects' = DOMAIN objects \cup {id} /\ objects'[id] = obj
        /\ \A d \in DOMAIN objects \ {id} : objects'[d] = objects[d]
        /\ DOMAIN sent' = DOMAIN sent \cup {id} /\ sent'[id] = << >>
        /\ \A d \in DOMAIN sent \ {id} : sent'[d] = sent[d]
    BY <1>3 DEF Put
  <2>3. sent' \in [DOMAIN sent' -> Seq(Message)]
    <3>1. << >> \in Seq(Message)
      OBVIOUS
    <3> QED BY <1>3, <3>1 DEF Put, FiguresInv
  <2>4. id \notin DOMAIN sent /\ id \notin DOMAIN objects /\ id \notin DOMAIN reports
    BY <1>1 DEF FiguresInv
  <2>5. /\ DOMAIN sent' \subseteq 1..dispatch_count_' /\ DOMAIN objects' \subseteq DOMAIN sent'
        /\ DOMAIN reports' \subseteq DOMAIN sent'
        /\ DOMAIN objects' \cap DOMAIN reports' \subseteq leaked'
        /\ reports' \in [DOMAIN reports' -> Seq(Handler)]
    BY <1>0, <1>1, <2>2, <2>4 DEF FiguresInv
  <2>6. \A d \in DOMAIN objects' \ leaked' : ObjectSound(objects'[d], sent'[d])
    BY <1>0, <2>1, <2>2, <2>4 DEF FiguresInv
  <2>7. \A d \in DOMAIN reports' : ChainSound(reports'[d], sent'[d], Len(sent'[d]))
    BY <1>0, <2>2, <2>4 DEF FiguresInv
  <2> QED BY <2>3, <2>5, <2>6, <2>7 DEF FiguresInv
<1> QED BY <1>0, <1>2, <1>3

\* The kernel sends a message.
LEMMA FiguresSubmit ==
    ASSUME SessionInv, FiguresInv, NEW d \in DOMAIN objects, NEW m \in Message, Submit(d, m)
    PROVE  FiguresInv'
<1> DEFINE ms == sent[d]
           obj == objects[d]
           obj2 == [obj EXCEPT !.buffer = Append(@, m)]
<1>0. /\ d \notin leaked /\ sent' = [sent EXCEPT ![d] = Append(ms, m)]
      /\ objects' = [objects EXCEPT ![d] = obj2]
      /\ UNCHANGED <<reports, leaked, dispatch_count_>>
  BY DEF Submit
<1>1. /\ d \in DOMAIN sent /\ d \notin DOMAIN reports /\ ms \in Seq(Message) /\ ObjectSound(obj, ms)
      /\ obj \in CommsObject /\ objects \in [DOMAIN objects -> CommsObject]
      /\ sent \in [DOMAIN sent -> Seq(Message)]
  BY <1>0 DEF FiguresInv, SessionInv, SessionType
<1>2. ObjectSound(obj2, Append(ms, m))
  <2> DEFINE old == obj.buffer
             k == Len(ms) - Len(old)
             b == Append(old, m)
             ns == Append(ms, m)
  <2>1. old \in Seq(Message) /\ obj2.buffer = b /\ obj2.handlers = obj.handlers
    BY <1>1 DEF CommsObject
  <2>2. /\ k \in Nat /\ ChainSound(obj.handlers, ms, k)
        /\ \A j \in 1..Len(old) : old[j] = ms[k + j]
    BY <1>1 DEF ObjectSound
  <2> HIDE DEF old, ms
  <2>3. /\ Len(b) = Len(old) + 1 /\ Len(ns) = Len(ms) + 1 /\ Len(ns) - Len(b) = k
        /\ k \in 0..Len(ms) /\ Len(old) \in Nat
    <3>1. Len(b) = Len(old) + 1 /\ Len(ns) = Len(ms) + 1 /\ Len(old) \in Nat /\ Len(ms) \in Nat
      BY <1>1, <2>1
    <3> QED BY <2>2, <3>1
  <2>4. \A j \in 1..Len(b) : b[j] = ns[k + j]
    <3> SUFFICES ASSUME NEW j \in 1..Len(b) PROVE b[j] = ns[k + j]
      OBVIOUS
    <3>1. CASE j = Len(old) + 1
      <4>1. k + j = Len(ms) + 1
        BY <1>1, <2>1, <2>3, <3>1
      <4> QED BY <1>1, <2>1, <3>1, <4>1
    <3>2. CASE j \in 1..Len(old)
      <4>1. k + j \in 1..Len(ms)
        BY <1>1, <2>1, <2>2, <2>3, <3>2
      <4> QED BY <1>1, <2>1, <2>2, <3>2, <4>1
    <3> QED BY <2>1, <2>3, <3>1, <3>2
  <2> HIDE DEF obj2, k, b, ns, obj
  <2>5. ChainSound(obj.handlers, Append(ms, m), k)
    BY <1>1, <2>2, <2>3, SentLater
  <2>6. ObjectSound(obj2, ns)
    BY <2>1, <2>2, <2>3, <2>4, <2>5 DEF ObjectSound, ns
  <2> QED BY <2>6 DEF ns
<1> HIDE DEF obj2
<1>3. /\ DOMAIN objects' = DOMAIN objects /\ objects'[d] = obj2
      /\ \A e \in DOMAIN objects \ {d} : objects'[e] = objects[e]
      /\ DOMAIN sent' = DOMAIN sent /\ sent'[d] = Append(ms, m)
      /\ \A e \in DOMAIN sent \ {d} : sent'[e] = sent[e]
  BY <1>0, <1>1
<1>4. sent' \in [DOMAIN sent' -> Seq(Message)]
  BY <1>0, <1>1
<1>5. \A e \in DOMAIN objects' \ leaked' : ObjectSound(objects'[e], sent'[e])
  BY <1>0, <1>2, <1>3 DEF FiguresInv
<1>6. \A e \in DOMAIN reports' : ChainSound(reports'[e], sent'[e], Len(sent'[e]))
  BY <1>0, <1>1, <1>3 DEF FiguresInv
<1> QED BY <1>0, <1>3, <1>4, <1>5, <1>6 DEF FiguresInv

\* The object's thread passes a message on.
LEMMA FiguresProcess ==
    ASSUME SessionInv, FiguresInv, NEW d \in DOMAIN objects, Process(d)
    PROVE  FiguresInv'
<1> DEFINE ms == sent[d]
           obj == objects[d]
           m == Head(obj.buffer)
           obj2 == [obj EXCEPT !.handlers = Passed(@, m), !.buffer = Tail(@)]
<1>0. /\ d \notin leaked /\ obj.buffer # << >> /\ objects' = [objects EXCEPT ![d] = obj2]
      /\ UNCHANGED <<sent, reports, leaked, dispatch_count_>>
  <2>1. objects' = [objects EXCEPT ![d] = obj2] /\ d \notin leaked /\ obj.buffer # << >>
    BY Zenon DEF Process
  <2>2. UNCHANGED <<sent, reports, leaked, dispatch_count_>>
    BY DEF Process
  <2> QED BY <2>1, <2>2
<1>1. /\ d \in DOMAIN sent /\ d \notin DOMAIN reports /\ ms \in Seq(Message) /\ ObjectSound(obj, ms)
      /\ obj \in CommsObject /\ objects \in [DOMAIN objects -> CommsObject]
  BY <1>0 DEF FiguresInv, SessionInv, SessionType
<1>2. ObjectSound(obj2, ms)
  <2> DEFINE old == obj.buffer
             k == Len(ms) - Len(old)
             b == Tail(old)
  <2>1. /\ old \in Seq(Message) /\ obj2.buffer = b /\ obj.handlers \in Seq(Handler)
        /\ obj2.handlers = Passed(obj.handlers, m)
    BY <1>1 DEF CommsObject
  <2>2. /\ k \in Nat /\ ChainSound(obj.handlers, ms, k)
        /\ \A j \in 1..Len(old) : old[j] = ms[k + j]
    BY <1>1 DEF ObjectSound
  <2>3. m = Head(old) /\ old # << >>
    BY <1>0
  <2> HIDE DEF old, ms, m
  <2>4. /\ Len(b) = Len(old) - 1 /\ Len(old) \in Nat \ {0} /\ m = old[1] /\ Len(ms) \in Nat
        /\ \A j \in 1..Len(b) : b[j] = old[j + 1]
    BY <1>1, <2>1, <2>3
  <2>5. Len(ms) - Len(b) = k + 1 /\ k + 1 \in 1..Len(ms) /\ (k + 1) - 1 = k /\ m = ms[k + 1]
    BY <2>2, <2>4
  <2> HIDE DEF k, b
  <2>6. \A j \in 1..Len(b) : b[j] = ms[(k + 1) + j]
    <3> SUFFICES ASSUME NEW j \in 1..Len(b) PROVE b[j] = ms[(k + 1) + j]
      OBVIOUS
    <3>1. j + 1 \in 1..Len(old) /\ (k + 1) + j = k + (j + 1)
      BY <2>2, <2>4
    <3> QED BY <2>2, <2>4, <3>1
  <2> HIDE DEF obj2, obj
  <2>7. ChainSound(Passed(obj.handlers, ms[k + 1]), ms, k + 1)
    BY <1>1, <2>1, <2>2, <2>5, ChainStep
  <2>8. k + 1 \in Nat
    BY <2>2
  <2> QED BY <2>1, <2>5, <2>6, <2>7, <2>8 DEF ObjectSound
<1> HIDE DEF obj2
<1>3. /\ DOMAIN objects' = DOMAIN objects /\ objects'[d] = obj2
      /\ \A e \in DOMAIN objects \ {d} : objects'[e] = objects[e]
  BY <1>0, <1>1
<1>4. \A e \in DOMAIN objects' \ leaked' : ObjectSound(objects'[e], sent'[e])
  BY <1>0, <1>2, <1>3 DEF FiguresInv
<1> QED BY <1>0, <1>3, <1>4 DEF FiguresInv

\* The object is stopped and its handlers report.
LEMMA FiguresCheckin ==
    ASSUME SessionInv, FiguresInv, NEW d \in DOMAIN objects, NEW flushed,
           NEW n \in 0..Len(objects[d].handlers), checkinCommsObject(d, n, flushed)
    PROVE  FiguresInv'
<1> DEFINE gs == Stopped(objects[d], d).handlers
<1>0. /\ d \notin leaked /\ reports' = Put(reports, d, SubSeq(gs, 1, n))
      /\ \/ objects' = Restrict(objects, DOMAIN objects \ {d}) /\ leaked' = leaked
         \/ objects' = objects /\ leaked' = leaked \cup {d}
      /\ UNCHANGED <<sent, dispatch_count_>>
  <2>1. d \notin leaked /\ reports' = Put(reports, d, SubSeq(gs, 1, n))
    BY Zenon DEF checkinCommsObject
  <2>2. \/ objects' = Restrict(objects, DOMAIN objects \ {d}) /\ leaked' = leaked
        \/ objects' = objects /\ leaked' = leaked \cup {d}
    BY Zenon DEF checkinCommsObject
  <2>3. UNCHANGED <<sent, dispatch_count_>>
    BY DEF checkinCommsObject
  <2> QED BY <2>1, <2>2, <2>3
<1>1. /\ d \in DOMAIN sent /\ d \in Nat /\ sent[d] \in Seq(Message)
      /\ ObjectSound(objects[d], sent[d]) /\ objects[d] \in CommsObject
      /\ objects[d].handlers \in Seq(Handler) /\ objects[d].buffer \in Seq(Message)
  BY <1>0 DEF FiguresInv, SessionInv, SessionType, CommsObject
<1>2. ChainSound(gs, sent[d], Len(sent[d]))
  BY <1>1, StoppedSound
<1>3. gs \in Seq(Handler) /\ n \in 0..Len(gs)
  <2>1. LaterChain(gs, objects[d].handlers)
    BY <1>1, StoppedType
  <2> HIDE DEF gs
  <2> QED BY <2>1 DEF LaterChain
<1> HIDE DEF gs
<1> DEFINE rs == SubSeq(gs, 1, n)
<1>4. ChainSound(rs, sent[d], Len(sent[d])) /\ rs \in Seq(Handler)
  BY <1>2, <1>3, SubChainSound
<1> HIDE DEF rs
<1>5. /\ DOMAIN objects' \subseteq DOMAIN objects /\ \A e \in DOMAIN objects' : objects'[e] = objects[e]
      /\ DOMAIN objects' \ leaked' \subseteq (DOMAIN objects \ leaked) \ {d} /\ leaked \subseteq leaked'
  BY <1>0 DEF Restrict
<1>6. /\ reports' \in [DOMAIN reports' -> Seq(Handler)] /\ DOMAIN reports' = DOMAIN reports \cup {d}
      /\ reports'[d] = rs /\ \A e \in DOMAIN reports \ {d} : reports'[e] = reports[e]
  BY <1>0, <1>4 DEF Put, rs, FiguresInv
<1>7. \A e \in DOMAIN objects' \ leaked' : ObjectSound(objects'[e], sent'[e])
  BY <1>0, <1>5 DEF FiguresInv
<1>8. \A e \in DOMAIN reports' : ChainSound(reports'[e], sent'[e], Len(sent'[e]))
  BY <1>0, <1>4, <1>6 DEF FiguresInv
<1>9. /\ DOMAIN objects' \subseteq DOMAIN sent' /\ DOMAIN reports' \subseteq DOMAIN sent'
      /\ DOMAIN objects' \cap DOMAIN reports' \subseteq leaked'
      /\ sent' \in [DOMAIN sent' -> Seq(Message)] /\ DOMAIN sent' \subseteq 1..dispatch_count_'
  BY <1>0, <1>1, <1>5, <1>6 DEF FiguresInv
<1> QED BY <1>6, <1>7, <1>8, <1>9 DEF FiguresInv

\* Every step keeps the figures.
THEOREM FiguresInductive ==
    /\ Init => FiguresInv
    /\ SessionInv /\ FiguresInv /\ [Next]_vars => FiguresInv'
<1>1. ASSUME Init PROVE FiguresInv
  <2>1. sent = EmptyMap /\ reports = EmptyMap /\ objects = EmptyMap /\ DOMAIN EmptyMap = {}
    BY <1>1 DEF Init, CommsInit, EmptyMap
  <2>2. EmptyMap \in [{} -> Seq(Message)] /\ EmptyMap \in [{} -> Seq(Handler)]
    BY DEF EmptyMap
  <2> QED BY <2>1, <2>2 DEF FiguresInv
<1>2. ASSUME SessionInv, FiguresInv, [Next]_vars PROVE FiguresInv'
  <2> USE <1>2
  <2>0. dispatch_count_ \in Nat
    BY DEF SessionInv, SessionType
  <2>1. ASSUME NEW parms \in CommandLines, setup_env(parms) PROVE FiguresInv'
    BY <2>0, <2>1, FiguresSame DEF setup_env, dispatchVars, figures
  <2>2. CASE Load(handlers)
    BY <2>0, <2>2, FiguresSame DEF Load, dispatchVars, figures
  <2>3. CASE CommsNext
    <3>1. CASE Unload \/ DispatchOriginal \/ \E d \in timed : signalCompleted(d)
      <4>1. UNCHANGED figures /\ dispatch_count_' \in {dispatch_count_, dispatch_count_ + 1}
        BY <3>1 DEF Unload, DispatchOriginal, signalCompleted, dispatchVars, figures
      <4> QED BY <2>0, <4>1, FiguresSame
    <3>2. ASSUME NEW a \in Agents, NEW kdb \in {"no_database", "no_kernel", "kernel"},
                 checkoutCommsObject(a, kdb)
          PROVE  FiguresInv'
      <4>1. kdb \in Database
        BY DEF Database
      <4> QED BY <3>2, <4>1, FiguresCheckout
    <3>3. ASSUME NEW d \in DOMAIN objects, NEW m \in Messages, Submit(d, m) PROVE FiguresInv'
      <4>1. m \in Message
        BY CommsAssumption
      <4> QED BY <3>3, <4>1, FiguresSubmit
    <3>4. ASSUME NEW d \in DOMAIN objects, Process(d) PROVE FiguresInv'
      BY <3>4, FiguresProcess
    <3> QED BY <2>3, <3>1, <3>2, <3>3, <3>4 DEF CommsNext
  <2>4. ASSUME NEW d \in DOMAIN objects, NEW flushed \in BOOLEAN,
               NEW n \in 0..Len(objects[d].handlers), Checkin(d, n, flushed)
        PROVE  FiguresInv'
    BY <2>4, FiguresCheckin DEF Checkin
  <2>5. CASE ApplicationEnds \/ KeyboardInterrupt \/ finalize_json_output
    <3>1. UNCHANGED figures /\ dispatch_count_' = dispatch_count_
      BY <2>5 DEF ApplicationEnds, KeyboardInterrupt, finalize_json_output, dispatchVars, figures
    <3> QED BY <2>0, <3>1, FiguresSame
  <2>6. CASE UNCHANGED vars
    BY <2>0, <2>6, FiguresSame DEF vars, dispatchVars, figures
  <2> QED BY <2>1, <2>2, <2>3, <2>4, <2>5, <2>6 DEF Next
<1> QED BY <1>1, <1>2

\* A report gives exactly the figures of the messages its dispatch has sent,
\* each counted by the one handler that takes it, at whatever time it was
\* passed on and whatever other dispatches were running (checkinCommsObject,
\* handle of memory_heatmap_t and time_interval_handler_t).
THEOREM ReportsExact == Spec => []FiguresExact
<1>1. Init => FiguresInv
  BY FiguresInductive
<1>2. SessionInv /\ FiguresInv /\ [Next]_vars => FiguresInv'
  BY FiguresInductive
<1>3. ASSUME FiguresInv PROVE FiguresExact
  <2> SUFFICES ASSUME NEW d \in DOMAIN reports, NEW i \in DOMAIN reports[d]
               PROVE  Exact(reports[d][i], ItemsOf(sent[d], Share(reports[d], d, i)))
    BY DEF FiguresExact
  <2> DEFINE hs == reports[d]
             ms == sent[d]
             took == Share(hs, d, i)
  <2>1. /\ hs \in Seq(Handler) /\ ms \in Seq(Message) /\ hs[i] \in Handler /\ i \in 1..Len(hs)
        /\ ChainSound(hs, ms, Len(ms)) /\ DOMAIN ms = 1..Len(ms) /\ DOMAIN hs = 1..Len(hs)
    BY <1>3 DEF FiguresInv
  <2>2. took = TakenBy(hs, ms, i, Len(ms))
    BY <2>1 DEF Share, TakenBy, Takers
  <2>3. \A j \in took : ms[j] \in Message /\ Takes(hs[i], ms[j])
    BY <2>1 DEF Share
  <2>4. Sound(hs[i], ItemsOf(ms, took))
    BY <2>1, <2>2 DEF ChainSound
  <2> HIDE DEF took, hs, ms
  <2>5. Exact(hs[i], ItemsOf(ms, took))
    BY <2>1, <2>3, <2>4, SoundExact
  <2> QED BY <2>5 DEF took, hs, ms
<1> QED BY <1>1, <1>2, <1>3, SessionInvariance, PTL DEF Spec
=============================================================================
