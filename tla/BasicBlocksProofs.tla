------------------------- MODULE BasicBlocksProofs -------------------------
(***************************************************************************)
(* Proofs about BasicBlocks: however the messages of any number of waves   *)
(* are interleaved, the blocks' figures are those of the closed visits,    *)
(* and so are the instruction counts that report adds up block by block.   *)
(***************************************************************************)
EXTENDS BasicBlocks, Induction

-----------------------------------------------------------------------------
(* Numbers, sets and tables.                                               *)

\* The least of a set of natural numbers.
LEMMA MinFacts ==
    ASSUME NEW S \in SUBSET Nat, S # {}
    PROVE  Min(S) \in S /\ \A y \in S : Min(S) <= y
<1>1. PICK n \in S : \A m \in S : n <= m
  BY LeastElement
<1> QED BY <1>1 DEF Min

\* The numbers of active lanes are bounded.
LEMMA LanesBounds ==
    /\ Min(Lanes) \in Nat /\ Max(Lanes) \in Nat
    /\ \A x \in Lanes : x \in Nat /\ Min(Lanes) <= x /\ x <= Max(Lanes)
<1>1. Lanes \subseteq 0..64 /\ Lanes # {}
  BY BlockAssumption DEF BlockAssumption
<1>2. Min(Lanes) \in Lanes /\ \A y \in Lanes : Min(Lanes) <= y
  BY <1>1, MinFacts
<1>3. Max(Lanes) \in Lanes /\ \A y \in Lanes : y <= Max(Lanes)
  <2> DEFINE T == {n \in Nat : \E x \in Lanes : n = 64 - x}
  <2>0. PICK z \in Lanes : z \in 0..64
    BY <1>1
  <2>1. T \in SUBSET Nat /\ 64 - z \in T
    BY <2>0
  <2>2. PICK n \in T : \A m \in T : n <= m
    <3> HIDE DEF T
    <3>1. T # {}
      BY <2>1
    <3> QED BY <2>1, <3>1, LeastElement
  <2>3. PICK x \in Lanes : n = 64 - x
    BY <2>2
  <2>4. ASSUME NEW y \in Lanes PROVE x >= y
    <3>1. x \in 0..64 /\ y \in 0..64
      BY <1>1
    <3>2. 64 - y \in T
      BY <3>1
    <3> HIDE DEF T
    <3>3. n <= 64 - y
      BY <2>2, <3>2
    <3> QED BY <2>3, <3>1, <3>3
  <2>5. Max(Lanes) \in Lanes /\ \A y \in Lanes : Max(Lanes) >= y
    BY <2>4 DEF Max
  <2>6. \A y \in Lanes : y \in Nat
    BY <1>1
  <2> QED BY <2>5, <2>6
<1>4. \A x \in Lanes : x \in Nat
  BY <1>1
<1> QED BY <1>2, <1>3, <1>4

\* What the tables hold after Put and Erase.
LEMMA PutFacts ==
    ASSUME NEW f, NEW k, NEW v
    PROVE  /\ DOMAIN Put(f, k, v) = DOMAIN f \cup {k} /\ Put(f, k, v)[k] = v
           /\ \A x \in DOMAIN f : x # k => Put(f, k, v)[x] = f[x]
BY DEF Put

\* Erasing a key leaves the other entries.
LEMMA EraseFacts ==
    ASSUME NEW f, NEW k
    PROVE  /\ DOMAIN Erase(f, k) = DOMAIN f \ {k}
           /\ \A x \in DOMAIN f \ {k} : Erase(f, k)[x] = f[x]
BY DEF Erase, Restrict

-----------------------------------------------------------------------------
(* Heard messages and closed visits.                                       *)

\* Messages are heard in the order in which they were sent.
LEMMA HeardFacts ==
    ASSUME BlockTypes, NEW w \in Wave
    PROVE  /\ handled[w] \in Nat /\ path[w] \in Seq(Message) /\ Len(path[w]) \in Nat
           /\ handled[w] <= Len(path[w]) /\ Len(path[w]) <= MaxVisits
           /\ \A n \in HeardAt(w) : /\ n \in Nat /\ n \in 1..Len(path[w]) /\ n \in 1..MaxVisits
                                    /\ n <= handled[w] /\ path[w][n] \in Message
<1>1. MaxVisits \in Nat
  BY BlockAssumption DEF BlockAssumption
<1> QED BY <1>1 DEF BlockTypes, Sent, HeardAt

\* A closed visit has an opening and a closing message, both of the kernel.
LEMMA ClosedFacts ==
    ASSUME BlockTypes, NEW v \in Closed
    PROVE  LET m == Min({x \in HeardAt(v[1]) : v[2] < x})
           IN  /\ v[1] \in Wave /\ v[2] \in HeardAt(v[1]) /\ v = <<v[1], v[2]>>
               /\ m \in HeardAt(v[1]) /\ v[2] < m /\ \A x \in HeardAt(v[1]) : v[2] < x => m <= x
               /\ Visit(v) \in Message /\ Closing(v) \in Message
<1> DEFINE S == {x \in HeardAt(v[1]) : v[2] < x}
<1>1. v[1] \in Wave /\ v[2] \in HeardAt(v[1]) /\ v = <<v[1], v[2]>> /\ S # {}
  BY DEF Closed
<1>2. S \in SUBSET Nat
  BY <1>1, HeardFacts
<1>3. Min(S) \in S /\ \A x \in S : Min(S) <= x
  <2> HIDE DEF S
  <2> QED BY <1>1, <1>2, MinFacts
<1>4. Visit(v) \in Message /\ Closing(v) \in Message
  BY <1>1, <1>3, HeardFacts DEF Visit, Closing
<1> QED BY <1>1, <1>3, <1>4

\* There are finitely many closed visits.
LEMMA ClosedFinite == IsFiniteSet(Closed) /\ \A b : IsFiniteSet(ClosedIn(b))
<1>1. IsFiniteSet(Wave) /\ IsFiniteSet(1..MaxVisits)
  BY BlockAssumption, FS_Interval DEF BlockAssumption
<1>2. IsFiniteSet(Wave \X (1..MaxVisits))
  BY <1>1, FS_Product
<1>3. Closed \in SUBSET (Wave \X (1..MaxVisits)) /\ \A b : ClosedIn(b) \in SUBSET (Wave \X (1..MaxVisits))
  BY DEF Closed, ClosedIn
<1> QED BY <1>2, <1>3, FS_Subset

-----------------------------------------------------------------------------
(* How a step changes the closed visits.                                   *)

SameVisits ==
    Closed' = Closed /\ \A v \in Closed : Visit(v)' = Visit(v) /\ Closing(v)' = Closing(v)

\* With the visits their figures stay.
LEMMA SameFigures ==
    ASSUME SameVisits
    PROVE  /\ \A b : ClosedIn(b)' = ClosedIn(b) /\ TimeOf(ClosedIn(b))' = TimeOf(ClosedIn(b))
           /\ LanesOf(Closed)' = LanesOf(Closed)
<1>1. ASSUME NEW b PROVE ClosedIn(b)' = ClosedIn(b)
  BY DEF SameVisits, ClosedIn
<1>2. ASSUME NEW b PROVE TimeOf(ClosedIn(b))' = TimeOf(ClosedIn(b))
  <2>1. [v \in ClosedIn(b) |-> Closing(v).timestamp - Visit(v).timestamp]'
        = [v \in ClosedIn(b) |-> Closing(v).timestamp - Visit(v).timestamp]
    BY <1>1 DEF SameVisits, ClosedIn
  <2> QED BY <2>1 DEF TimeOf
<1>3. LanesOf(Closed)' = LanesOf(Closed)
  <2>1. [v \in Closed |-> Closing(v).exec]' = [v \in Closed |-> Closing(v).exec]
    BY DEF SameVisits
  <2> QED BY <2>1 DEF LanesOf
<1> QED BY <1>1, <1>2, <1>3

\* A step that handles no message changes no visit, whatever the waves send.
LEMMA NothingHandled ==
    ASSUME BlockTypes, handled' = handled,
           \A w \in Wave : \A n \in 1..handled[w] : path'[w][n] = path[w][n]
    PROVE  SameVisits /\ \A w \in Wave : HeardAt(w)' = HeardAt(w)
<1>1. ASSUME NEW w \in Wave PROVE HeardAt(w)' = HeardAt(w)
  BY DEF HeardAt
<1>2. Closed' = Closed
  BY <1>1 DEF Closed
<1>3. ASSUME NEW v \in Closed PROVE Visit(v)' = Visit(v) /\ Closing(v)' = Closing(v)
  <2> DEFINE m == Min({x \in HeardAt(v[1]) : v[2] < x})
  <2>1. v[1] \in Wave /\ v[2] \in HeardAt(v[1]) /\ m \in HeardAt(v[1])
    BY ClosedFacts
  <2>2. {x \in HeardAt(v[1]) : v[2] < x}' = {x \in HeardAt(v[1]) : v[2] < x}
    BY <1>1, <2>1
  <2>3. m' = m
    BY <2>2
  <2> HIDE DEF m
  <2>4. v[2] \in 1..handled[v[1]] /\ m \in 1..handled[v[1]]
    BY <2>1 DEF HeardAt
  <2>5. path'[v[1]][v[2]] = path[v[1]][v[2]] /\ path'[v[1]][m] = path[v[1]][m]
    BY <2>1, <2>4
  <2> QED BY <2>3, <2>5 DEF Visit, Closing, m
<1> QED BY <1>1, <1>2, <1>3 DEF SameVisits

\* Wave w hears message n, after all it has heard, or passes it over.
Hears(w, n) ==
    /\ n \in Nat /\ path' = path /\ \A m \in HeardAt(w) : m < n
    /\ \A x \in Wave \ {w} : HeardAt(x)' = HeardAt(x)
    /\ HeardAt(w)' = HeardAt(w) \cup IF Insts[path[w][n].block] = <<>> THEN {} ELSE {n}

\* The next message is heard unless its block has no instructions.
LEMMA NextHeard ==
    ASSUME BlockTypes, NEW w \in Wave, handled[w] < Sent(w), path' = path,
           handled' = [handled EXCEPT ![w] = @ + 1]
    PROVE  /\ Hears(w, handled[w] + 1) /\ path[w][handled[w] + 1] \in Message
           /\ handled[w] + 1 \in 1..Len(path[w])
<1>1. handled[w] \in Nat /\ path[w] \in Seq(Message) /\ Len(path[w]) \in Nat
      /\ handled \in [Wave -> Nat]
  BY DEF BlockTypes
<1>2. handled'[w] = handled[w] + 1 /\ \A x \in Wave \ {w} : handled'[x] = handled[x]
  BY <1>1
<1>3. handled[w] + 1 \in 1..Len(path[w]) /\ path[w][handled[w] + 1] \in Message
  BY <1>1 DEF Sent
<1>4. \A x \in Wave \ {w} : HeardAt(x)' = HeardAt(x)
  BY <1>2 DEF HeardAt
<1>5. 1..(handled[w] + 1) = (1..handled[w]) \cup {handled[w] + 1}
  BY <1>1
<1>6. HeardAt(w)' = HeardAt(w) \cup IF Insts[path[w][handled[w] + 1].block] = <<>>
                                    THEN {} ELSE {handled[w] + 1}
  BY <1>2, <1>5 DEF HeardAt
<1>7. \A m \in HeardAt(w) : m < handled[w] + 1
  BY <1>1 DEF HeardAt
<1> QED BY <1>1, <1>3, <1>4, <1>6, <1>7 DEF Hears

\* A message closes no visit if it is passed over or the first to be heard.
LEMMA NothingClosed ==
    ASSUME BlockTypes, NEW w \in Wave, NEW n, Hears(w, n),
           Insts[path[w][n].block] = <<>> \/ HeardAt(w) = {}
    PROVE  SameVisits
<1>1. CASE HeardAt(w)' = HeardAt(w)
  <2>1. \A x \in Wave : HeardAt(x)' = HeardAt(x)
    BY <1>1 DEF Hears
  <2>2. Closed' = Closed
    BY <2>1 DEF Closed
  <2>3. ASSUME NEW v \in Closed PROVE Visit(v)' = Visit(v) /\ Closing(v)' = Closing(v)
    <3>1. v[1] \in Wave
      BY ClosedFacts
    <3>2. {x \in HeardAt(v[1]) : v[2] < x}' = {x \in HeardAt(v[1]) : v[2] < x}
      BY <2>1, <3>1
    <3> QED BY <3>2 DEF Visit, Closing, Hears
  <2> QED BY <2>2, <2>3 DEF SameVisits
<1>2. CASE HeardAt(w) = {} /\ HeardAt(w)' = {n}
  <2>1. \A x \in Wave \ {w} : HeardAt(x)' = HeardAt(x)
    BY DEF Hears
  <2>2. Closed' = Closed
    <3>1. ASSUME NEW v \in Closed PROVE v[1] # w
      BY <1>2, ClosedFacts
    <3>2. ASSUME NEW v \in Closed' PROVE v[1] # w
      <4>1. n \in Nat
        BY DEF Hears
      <4> QED BY <1>2, <4>1 DEF Closed
    <3>3. ASSUME NEW v \in Wave \X (1..MaxVisits), v[1] # w PROVE v \in Closed <=> v \in Closed'
      BY <2>1, <3>3 DEF Closed
    <3>4. Closed \subseteq Wave \X (1..MaxVisits) /\ Closed' \subseteq Wave \X (1..MaxVisits)
      BY DEF Closed
    <3> QED BY <3>1, <3>2, <3>3, <3>4
  <2>3. ASSUME NEW v \in Closed PROVE Visit(v)' = Visit(v) /\ Closing(v)' = Closing(v)
    <3>1. v[1] \in Wave \ {w}
      BY <1>2, ClosedFacts
    <3>2. {x \in HeardAt(v[1]) : v[2] < x}' = {x \in HeardAt(v[1]) : v[2] < x}
      BY <2>1, <3>1
    <3> QED BY <3>2 DEF Visit, Closing, Hears
  <2> QED BY <2>2, <2>3 DEF SameVisits
<1> QED BY <1>1, <1>2 DEF Hears

\* A message that is heard after message m closes the visit m opened.
LEMMA OneClosed ==
    ASSUME BlockTypes, NEW w \in Wave, NEW n, Hears(w, n), Insts[path[w][n].block] # <<>>,
           NEW m \in HeardAt(w), \A x \in HeardAt(w) : x <= m
    PROVE  /\ <<w, m>> \notin Closed /\ Closed' = Closed \cup {<<w, m>>}
           /\ \A v \in Closed : Visit(v)' = Visit(v) /\ Closing(v)' = Closing(v)
           /\ Visit(<<w, m>>)' = path[w][m] /\ Closing(<<w, m>>)' = path[w][n]
<1>1. /\ n \in Nat /\ path' = path /\ HeardAt(w)' = HeardAt(w) \cup {n}
      /\ \A x \in HeardAt(w) : x < n
      /\ \A x \in Wave \ {w} : HeardAt(x)' = HeardAt(x)
  BY DEF Hears
<1>2. \A x \in Wave : HeardAt(x) \subseteq 1..MaxVisits /\ HeardAt(x) \subseteq Nat
  BY HeardFacts
<1>3. <<w, m>> \notin Closed
  BY <1>2 DEF Closed
<1>4. Closed' = Closed \cup {<<w, m>>}
  <2>1. ASSUME NEW v \in Wave \X (1..MaxVisits) PROVE v \in Closed' <=> v \in Closed \/ v = <<w, m>>
    <3>1. CASE v[1] # w
      BY <1>1, <3>1 DEF Closed
    <3>2. CASE v[1] = w
      <4>1. v \in Closed' <=> v[2] \in HeardAt(w)' /\ \E x \in HeardAt(w)' : v[2] < x
        BY <3>2 DEF Closed
      <4>2. v \in Closed <=> v[2] \in HeardAt(w) /\ \E x \in HeardAt(w) : v[2] < x
        BY <3>2 DEF Closed
      <4>3. v = <<w, m>> <=> v[2] = m
        BY <3>2
      <4>4. v[2] \in Nat /\ m \in Nat /\ m < n
        BY <1>1, <1>2
      <4> QED BY <1>1, <1>2, <4>1, <4>2, <4>3, <4>4
    <3> QED BY <3>1, <3>2
  <2>2. Closed \subseteq Wave \X (1..MaxVisits) /\ Closed' \subseteq Wave \X (1..MaxVisits)
        /\ <<w, m>> \in Wave \X (1..MaxVisits)
    BY <1>2 DEF Closed
  <2> QED BY <2>1, <2>2
<1>5. ASSUME NEW v \in Closed PROVE Visit(v)' = Visit(v) /\ Closing(v)' = Closing(v)
  <2> DEFINE S == {x \in HeardAt(v[1]) : v[2] < x}
  <2>1. /\ v[1] \in Wave /\ v[2] \in HeardAt(v[1]) /\ Min(S) \in S
        /\ \A x \in S : Min(S) <= x
    BY ClosedFacts
  <2>2. S \subseteq Nat /\ S' \subseteq Nat /\ S \subseteq S' /\ \A x \in S' : x \in S \/ (v[1] = w /\ x = n)
    BY <1>1, <1>2, <2>1
  <2>3. Min(S') \in S' /\ \A x \in S' : Min(S') <= x
    <3>1. S' # {} /\ S' \in SUBSET Nat
      BY <2>1, <2>2
    <3> HIDE DEF S
    <3> QED BY <3>1, MinFacts
  <2>4. v[1] = w => Min(S) < n
    BY <1>1, <2>1
  <2> HIDE DEF S
  <2>5. Min(S') = Min(S)
    <3>1. Min(S) \in Nat /\ Min(S') \in Nat /\ Min(S') <= Min(S)
      BY <2>1, <2>2, <2>3
    <3>2. Min(S) <= Min(S')
      <4>1. CASE Min(S') \in S
        BY <2>1, <4>1
      <4>2. CASE v[1] = w /\ Min(S') = n
        BY <1>1, <2>4, <3>1, <4>2
      <4> QED BY <2>2, <2>3, <4>1, <4>2
    <3> QED BY <3>1, <3>2
  <2> QED BY <1>1, <2>5 DEF Visit, Closing, S
<1>6. Visit(<<w, m>>)' = path[w][m] /\ Closing(<<w, m>>)' = path[w][n]
  <2>1. {x \in HeardAt(w) : m < x}' = {n}
    BY <1>1, <1>2
  <2>2. Min({n}) = n
    BY <1>1, MinFacts
  <2> QED BY <1>1, <2>1, <2>2 DEF Visit, Closing
<1> QED BY <1>3, <1>4, <1>5, <1>6

-----------------------------------------------------------------------------
(* The figures.                                                            *)

\* The figures of the closed visits when one more is closed.
LEMMA FiguresOfClosed ==
    ASSUME BlockTypes, NEW v0, v0 \notin Closed, Closed' = Closed \cup {v0},
           \A v \in Closed : Visit(v)' = Visit(v) /\ Closing(v)' = Closing(v),
           Visit(v0)' \in Message, Closing(v0)' \in Message, NEW b, b = Visit(v0).block'
    PROVE  /\ Cardinality(Closed)' = Cardinality(Closed) + 1
           /\ LanesOf(Closed)' = LanesOf(Closed) + Closing(v0).exec'
           /\ Cardinality(ClosedIn(b))' = Cardinality(ClosedIn(b)) + 1
           /\ TimeOf(ClosedIn(b))' = TimeOf(ClosedIn(b))
                                     + (Closing(v0).timestamp' - Visit(v0).timestamp')
           /\ \A c : c # b => /\ ClosedIn(c)' = ClosedIn(c)
                              /\ TimeOf(ClosedIn(c))' = TimeOf(ClosedIn(c))
           /\ LanesOf(Closed) \in Int /\ TimeOf(ClosedIn(b)) \in Int
           /\ Cardinality(Closed) \in Nat /\ Cardinality(ClosedIn(b)) \in Nat
<1>1. IsFiniteSet(Closed) /\ IsFiniteSet(ClosedIn(b))
  BY ClosedFinite
<1>2. ClosedIn(b)' = ClosedIn(b) \cup {v0} /\ v0 \notin ClosedIn(b)
  BY DEF ClosedIn
<1>3. ASSUME NEW c, c # b PROVE ClosedIn(c)' = ClosedIn(c)
  BY <1>3 DEF ClosedIn
<1>4. /\ Cardinality(Closed)' = Cardinality(Closed) + 1 /\ Cardinality(Closed) \in Nat
      /\ Cardinality(ClosedIn(b))' = Cardinality(ClosedIn(b)) + 1 /\ Cardinality(ClosedIn(b)) \in Nat
  BY <1>1, <1>2, FS_AddElement, FS_CardinalityType
<1>0. ASSUME NEW msg \in Message PROVE msg.timestamp \in Int /\ msg.exec \in Int
  BY LanesBounds DEF Message
<1>5. ASSUME NEW v \in Closed
      PROVE  Visit(v).timestamp \in Int /\ Closing(v).timestamp \in Int /\ Closing(v).exec \in Int
  <2>1. Visit(v) \in Message /\ Closing(v) \in Message
    BY ClosedFacts
  <2> QED BY <1>0, <2>1
<1>6. Visit(v0)'.timestamp \in Int /\ Closing(v0)'.timestamp \in Int /\ Closing(v0)'.exec \in Int
  BY <1>0
<1>7. LanesOf(Closed)' = LanesOf(Closed) + Closing(v0).exec' /\ LanesOf(Closed) \in Int
  <2> DEFINE f == [v \in Closed |-> Closing(v).exec]
             g == [v \in Closed' |-> Closing(v).exec']
  <2>1. DOMAIN f = Closed /\ DOMAIN g = Closed \cup {v0} /\ g[v0] = Closing(v0).exec'
        /\ \A v \in Closed : f[v] \in Int /\ g[v] = f[v]
    BY <1>5
  <2> HIDE DEF f, g
  <2>3. ExtendedAt(f, g, Closed, v0)
    BY <1>1, <1>6, <2>1 DEF ExtendedAt
  <2>2. SumFunction(g) = SumFunction(f) + g[v0] /\ SumFunction(f) \in Int
    BY <2>3, SumExtend
  <2> QED BY <2>1, <2>2 DEF LanesOf, f, g
<1>8. /\ TimeOf(ClosedIn(b))' = TimeOf(ClosedIn(b)) + (Closing(v0).timestamp' - Visit(v0).timestamp')
      /\ TimeOf(ClosedIn(b)) \in Int
  <2> DEFINE f == [v \in ClosedIn(b) |-> Closing(v).timestamp - Visit(v).timestamp]
             g == [v \in ClosedIn(b)' |-> Closing(v).timestamp' - Visit(v).timestamp']
  <2>1. /\ DOMAIN f = ClosedIn(b) /\ DOMAIN g = ClosedIn(b) \cup {v0}
        /\ g[v0] = Closing(v0).timestamp' - Visit(v0).timestamp' /\ g[v0] \in Int
    BY <1>2, <1>6
  <2>2. \A v \in ClosedIn(b) : f[v] \in Int /\ g[v] = f[v]
    BY <1>2, <1>5 DEF ClosedIn
  <2> HIDE DEF f, g
  <2>4. ExtendedAt(f, g, ClosedIn(b), v0)
    BY <1>1, <1>2, <2>1, <2>2 DEF ExtendedAt
  <2>3. SumFunction(g) = SumFunction(f) + g[v0] /\ SumFunction(f) \in Int
    BY <2>4, SumExtend
  <2> QED BY <2>1, <2>3 DEF TimeOf, f, g
<1>9. ASSUME NEW c, c # b PROVE TimeOf(ClosedIn(c))' = TimeOf(ClosedIn(c))
  <2>1. [v \in ClosedIn(c) |-> Closing(v).timestamp - Visit(v).timestamp]'
        = [v \in ClosedIn(c) |-> Closing(v).timestamp - Visit(v).timestamp]
    BY <1>3, <1>9 DEF ClosedIn
  <2> QED BY <2>1 DEF TimeOf
<1> QED BY <1>3, <1>4, <1>7, <1>8, <1>9

\* The totals when the figures of one block change.
LEMMA TotalPut ==
    ASSUME BlockTypes, NEW b \in Block, NEW i \in BlockInfo, block_info_' = Put(block_info_, b, i)
    PROVE  LET old == At(block_info_, b, NoInfo)
           IN  /\ Total("count_")' = Total("count_") + (i.count_ - old.count_)
               /\ Total("thread_count_")' = Total("thread_count_") + (i.thread_count_ - old.thread_count_)
               /\ Total("count_") \in Int /\ Total("thread_count_") \in Int /\ old \in BlockInfo
<1> DEFINE D == DOMAIN block_info_
           cf == [x \in D |-> block_info_[x].count_]
           cg == [x \in D' |-> block_info_'[x].count_]
           tf == [x \in D |-> block_info_[x].thread_count_]
           tg == [x \in D' |-> block_info_'[x].thread_count_]
<1>1. /\ D' = D \cup {b} /\ block_info_'[b] = i /\ \A x \in D : x # b => block_info_'[x] = block_info_[x]
  BY DEF Put, D
<1>2. IsFiniteSet(D) /\ \A x \in D : block_info_[x] \in BlockInfo
  BY BlockAssumption, FS_Subset DEF BlockTypes, BlockAssumption
<1>3. i.count_ \in Int /\ i.thread_count_ \in Int
      /\ \A x \in D : block_info_[x].count_ \in Int /\ block_info_[x].thread_count_ \in Int
  BY <1>2 DEF BlockInfo
<1>4. /\ Total("count_") = SumFunction(cf) /\ Total("count_")' = SumFunction(cg)
      /\ Total("thread_count_") = SumFunction(tf) /\ Total("thread_count_")' = SumFunction(tg)
  BY DEF Total
<1>5. /\ DOMAIN cf = D /\ DOMAIN tf = D /\ DOMAIN cg = D \cup {b} /\ DOMAIN tg = D \cup {b}
      /\ cg[b] = i.count_ /\ tg[b] = i.thread_count_
      /\ \A x \in D : cf[x] = block_info_[x].count_ /\ tf[x] = block_info_[x].thread_count_
      /\ \A x \in D : x # b => cg[x] = cf[x] /\ tg[x] = tf[x]
  BY <1>1
<1> HIDE DEF D, cf, cg, tf, tg
<1>6. CASE b \in D
  <2>1. DOMAIN cg = D /\ DOMAIN tg = D
    BY <1>5, <1>6
  <2>2. SumFunction(cg) = SumFunction(cf) + (cg[b] - cf[b]) /\ SumFunction(cf) \in Int
    <3>1. ChangedAt(cf, cg, D, b)
      BY <1>2, <1>3, <1>5, <1>6, <2>1 DEF ChangedAt
    <3> QED BY <3>1, SumChange
  <2>3. SumFunction(tg) = SumFunction(tf) + (tg[b] - tf[b]) /\ SumFunction(tf) \in Int
    <3>1. ChangedAt(tf, tg, D, b)
      BY <1>2, <1>3, <1>5, <1>6, <2>1 DEF ChangedAt
    <3> QED BY <3>1, SumChange
  <2> QED BY <1>2, <1>4, <1>5, <1>6, <2>2, <2>3 DEF At, D
<1>7. CASE b \notin D
  <2>1. SumFunction(cg) = SumFunction(cf) + cg[b] /\ SumFunction(cf) \in Int
    <3>1. ExtendedAt(cf, cg, D, b)
      BY <1>2, <1>3, <1>5, <1>7 DEF ExtendedAt
    <3> QED BY <3>1, SumExtend
  <2>2. SumFunction(tg) = SumFunction(tf) + tg[b] /\ SumFunction(tf) \in Int
    <3>1. ExtendedAt(tf, tg, D, b)
      BY <1>2, <1>3, <1>5, <1>7 DEF ExtendedAt
    <3> QED BY <3>1, SumExtend
  <2>3. At(block_info_, b, NoInfo) = NoInfo /\ NoInfo.count_ = 0 /\ NoInfo.thread_count_ = 0
        /\ NoInfo \in BlockInfo
    BY <1>7 DEF At, D, NoInfo, BlockInfo
  <2> QED BY <1>3, <1>4, <1>5, <2>1, <2>2, <2>3
<1> QED BY <1>6, <1>7

-----------------------------------------------------------------------------
(* The instruction counts of report.                                       *)

\* Tables of counts.
Tables == UNION {[D -> Int] : D \in SUBSET STRING}

\* A table of counts after one entry was put.
LEMMA TableFacts ==
    ASSUME NEW t \in Tables, NEW inst, NEW v \in Int
    PROVE  /\ At(t, inst, 0) \in Int
           /\ inst \in STRING => Put(t, inst, v) \in Tables
           /\ \A x : At(Put(t, inst, v), x, 0) = IF x = inst THEN v ELSE At(t, x, 0)
<1>1. PICK D \in SUBSET STRING : t \in [D -> Int]
  BY DEF Tables
<1>2. At(t, inst, 0) \in Int
  <2>1. DOMAIN t = D /\ \A x \in D : t[x] \in Int
    BY <1>1
  <2>2. 0 \in Int
    OBVIOUS
  <2> QED BY <2>1, <2>2, Zenon DEF At
<1>3. \A x : At(Put(t, inst, v), x, 0) = IF x = inst THEN v ELSE At(t, x, 0)
  BY DEF At, Put
<1>4. ASSUME inst \in STRING PROVE Put(t, inst, v) \in Tables
  <2>1. Put(t, inst, v) \in [D \cup {inst} -> Int] /\ D \cup {inst} \in SUBSET STRING
    BY <1>1, <1>4 DEF Put
  <2> HIDE DEF Put
  <2> QED BY <2>1 DEF Tables
<1> QED BY <1>2, <1>3, <1>4

\* One occurrence more is one term more.
LEMMA OneMore ==
    ASSUME NEW a \in Int, NEW k \in Int, NEW e \in Int
    PROVE  a + (k + 1) * e = (a + k * e) + e /\ k * e \in Int
OBVIOUS

\* The instructions of a block are counted as often as they occur in it.
LEMMA CountedFacts ==
    ASSUME BlockTypes, NEW b \in DOMAIN block_info_, NEW c \in Tables
    PROVE  /\ Counted(c, b) \in Tables
           /\ \A inst : At(Counted(c, b), inst, 0) =
                           At(c, inst, 0) + Occurrences(b, inst) * Executions(b, inst)
<1> DEFINE code == Insts[b]
           n == Len(code)
           e(inst) == Executions(b, inst)
           body(f) == [k \in 0..n |-> IF k = 0 THEN c
                                      ELSE Put(f[k - 1], code[k], At(f[k - 1], code[k], 0) + e(code[k]))]
           step == [k \in Nat |-> [t \in Tables |-> IF k \in 1..n
                                      THEN Put(t, code[k], At(t, code[k], 0) + e(code[k])) ELSE t]]
           g == CHOOSE f : f = body(f)
<1>1. b \in Block /\ code \in Seq(STRING) /\ n \in Nat /\ (\A k \in 1..n : code[k] \in STRING)
      /\ DOMAIN code = 1..n
  BY BlockAssumption DEF BlockTypes
<1>2. \A inst : e(inst) \in Int
  <2>1. block_info_[b] \in BlockInfo
    BY DEF BlockTypes
  <2>2. block_info_[b].thread_count_ \in Int /\ block_info_[b].count_ \in Int
    BY <2>1 DEF BlockInfo
  <2> QED BY <2>2 DEF Executions
<1>3. Counted(c, b) = g[n]
  BY DEF Counted
<1> HIDE DEF code, n, e
<1>4. ASSUME NEW t \in Tables, NEW k \in 1..n
      PROVE  Put(t, code[k], At(t, code[k], 0) + e(code[k])) \in Tables
  <2>1. At(t, code[k], 0) \in Int
    BY 0 \in Int, TableFacts
  <2>2. At(t, code[k], 0) + e(code[k]) \in Int
    BY <1>2, <2>1
  <2> QED BY <1>1, <2>2, TableFacts
<1>5. step \in [Nat -> [Tables -> Tables]]
  BY <1>4
<1>6. PICK f \in [0..n -> Tables] : f[0] = c /\ \A k \in 0..n : k # 0 => f[k] = step[k][f[k - 1]]
  <2>1. \E f : Recursion(f, Tables, c, 0, n, step)
    <3>1. 0 <= n /\ 0 \in Nat
      BY <1>1
    <3> HIDE DEF step
    <3> QED BY <1>1, <1>5, <3>1, RecursionExists
  <2> HIDE DEF step
  <2> QED BY <2>1 DEF Recursion
<1>7. f = body(f)
  <2>1. ASSUME NEW k \in 0..n, k # 0
        PROVE  f[k] = Put(f[k - 1], code[k], At(f[k - 1], code[k], 0) + e(code[k]))
    <3>1. k - 1 \in 0..n /\ k \in Nat /\ k \in 1..n
      BY <1>1, <2>1
    <3>2. f[k - 1] \in Tables
      BY <3>1
    <3> QED BY <1>6, <2>1, <3>1, <3>2
  <2> QED BY <1>6, <2>1
<1>8. g = body(g)
  BY <1>7
<1> HIDE DEF g
<1>9. /\ g[0] = c
      /\ \A k \in 1..n : g[k] = Put(g[k - 1], code[k], At(g[k - 1], code[k], 0) + e(code[k]))
  <2>1. \A k \in 0..n : g[k] = IF k = 0 THEN c
                               ELSE Put(g[k - 1], code[k], At(g[k - 1], code[k], 0) + e(code[k]))
    BY <1>8, Zenon
  <2>2. 0 \in 0..n /\ \A k \in 1..n : k \in 0..n /\ k # 0
    BY <1>1
  <2> QED BY <2>1, <2>2, Zenon
<1> DEFINE occ(inst, k) == {j \in 1..k : code[j] = inst}
           G == {k \in 0..n : /\ g[k] \in Tables
                              /\ \A inst : At(g[k], inst, 0) = At(c, inst, 0) + Cardinality(occ(inst, k)) * e(inst)}
<1>10. \A inst : At(c, inst, 0) \in Int
  BY 0 \in Int, TableFacts
<1>11. 0 \in G
  <2>1. \A inst : occ(inst, 0) = {}
    OBVIOUS
  <2>2. \A inst : Cardinality(occ(inst, 0)) = 0
    BY <2>1, FS_EmptySet
  <2>3. \A inst : 0 * e(inst) = 0
    BY <1>2
  <2>4. 0 \in 0..n
    BY <1>1
  <2> HIDE DEF occ
  <2> QED BY <1>9, <1>10, <2>2, <2>3, <2>4
<1>12. ASSUME NEW k \in 1..n, k - 1 \in G PROVE k \in G
  <2> DEFINE v == At(g[k - 1], code[k], 0) + e(code[k])
  <2>1. g[k] = Put(g[k - 1], code[k], v) /\ g[k - 1] \in Tables
    BY <1>9, <1>12
  <2>2. At(g[k - 1], code[k], 0) \in Int /\ v \in Int
    <3>1. At(g[k - 1], code[k], 0) \in Int
      BY <2>1, 0 \in Int, TableFacts
    <3> QED BY <1>2, <3>1
  <2>3. g[k] \in Tables /\ \A inst : At(g[k], inst, 0) = IF inst = code[k] THEN v ELSE At(g[k - 1], inst, 0)
    <3> HIDE DEF v
    <3> QED BY <1>1, <2>1, <2>2, TableFacts
  <2>4. ASSUME NEW inst
        PROVE  At(g[k], inst, 0) = At(c, inst, 0) + Cardinality(occ(inst, k)) * e(inst)
    <3> DEFINE O == occ(inst, k - 1)
    <3>1. At(g[k - 1], inst, 0) = At(c, inst, 0) + Cardinality(O) * e(inst)
      BY <1>12
    <3>2. k \in Nat /\ 1..k = 1..(k - 1) \cup {k} /\ k \notin 1..(k - 1)
      BY <1>1
    <3>3. occ(inst, k) = IF code[k] = inst THEN O \cup {k} ELSE O
      BY <3>2
    <3>4. IsFiniteSet(O) /\ Cardinality(O) \in Int /\ k \notin O
      <4>1. O \in SUBSET (1..(k - 1)) /\ k \notin O
        BY <3>2
      <4>2. 1 \in Int /\ k - 1 \in Int
        BY <3>2
      <4>3. IsFiniteSet(1..(k - 1))
        BY <4>2, FS_Interval
      <4> HIDE DEF O
      <4>4. IsFiniteSet(O)
        BY <4>1, <4>3, FS_Subset, Zenon
      <4>5. Cardinality(O) \in Nat
        BY <4>4, FS_CardinalityType
      <4> QED BY <4>1, <4>4, <4>5
    <3> HIDE DEF O, occ
    <3>5. CASE code[k] # inst
      BY <2>3, <3>1, <3>3, <3>5
    <3>6. CASE code[k] = inst
      <4>1. Cardinality(occ(inst, k)) = Cardinality(O) + 1
        BY <3>3, <3>4, <3>6, FS_AddElement
      <4>2. At(c, inst, 0) + (Cardinality(O) + 1) * e(inst) = (At(c, inst, 0) + Cardinality(O) * e(inst)) + e(inst)
        BY <1>2, <1>10, <3>4, OneMore
      <4>3. At(g[k], inst, 0) = At(g[k - 1], inst, 0) + e(inst)
        BY <2>3, <3>6
      <4> QED BY <3>1, <4>1, <4>2, <4>3
    <3> QED BY <3>5, <3>6
  <2>5. k \in 0..n
    BY <1>1
  <2> HIDE DEF occ, v
  <2> QED BY <2>3, <2>4, <2>5
<1>13. n \in G
  <2> HIDE DEF G
  <2>1. 0 \in Nat /\ 0 + 1 = 1 /\ n \in 0..n
    BY <1>1
  <2>2. \A k \in 0..n : k \in G
    BY <1>1, <1>11, <1>12, <2>1, UpTo
  <2> QED BY <2>1, <2>2
<1>14. \A inst : occ(inst, n) = {j \in DOMAIN Insts[b] : Insts[b][j] = inst}
  BY <1>1 DEF code
<1>15. \A inst : Cardinality(occ(inst, n)) = Occurrences(b, inst)
  BY <1>14 DEF Occurrences
<1> HIDE DEF occ
<1> QED BY <1>3, <1>13, <1>15 DEF e

\* Sums over the first i blocks of an order without repetition, by number and
\* by block.
OrderOf(order, D) == order \in [1..Cardinality(D) -> D]
                     /\ \A i, j \in 1..Cardinality(D) : i # j => order[i] # order[j]
Before(order, i) == {order[j] : j \in 1..i}

\* The blocks before the first are none, before the end all.
LEMMA BeforeFacts ==
    ASSUME NEW D, IsFiniteSet(D), NEW order, OrderOf(order, D)
    PROVE  /\ Cardinality(D) \in Nat /\ Before(order, 0) = {}
           /\ Before(order, Cardinality(D)) = D
           /\ \A i \in 1..Cardinality(D) :
                 /\ Before(order, i) = Before(order, i - 1) \cup {order[i]} /\ order[i] \in D
                 /\ order[i] \notin Before(order, i - 1) /\ Before(order, i - 1) \subseteq D
                 /\ IsFiniteSet(Before(order, i - 1))
<1> DEFINE n == Cardinality(D)
<1>1. n \in Nat
  BY FS_CardinalityType
<1>2. order \in [1..n -> D] /\ \A i, j \in 1..n : i # j => order[i] # order[j]
  BY DEF OrderOf
<1> HIDE DEF n
<1>3. Before(order, 0) = {}
  BY DEF Before
<1>4. Before(order, n) = D
  <2>1. order \in Injection(1..n, D)
    BY <1>2 DEF Injection, IsInjective
  <2>2. Cardinality(1..n) = n
    <3>1. 1 \in Int /\ n \in Int /\ n - 1 + 1 = n /\ (~(1 > n) \/ n = 0)
      BY <1>1
    <3>2. Cardinality(1..n) = IF 1 > n THEN 0 ELSE n - 1 + 1
      BY <1>1, FS_Interval
    <3> QED BY <1>1, <3>2
  <2>3. order \in Surjection(1..n, D)
    BY <2>1, <2>2, FS_Injection DEF n
  <2> QED BY <1>2, <2>3 DEF Surjection, Before
<1>5. ASSUME NEW i \in 1..n
      PROVE  /\ Before(order, i) = Before(order, i - 1) \cup {order[i]} /\ order[i] \in D
             /\ order[i] \notin Before(order, i - 1) /\ Before(order, i - 1) \subseteq D
  <2>1. 1..i = 1..(i - 1) \cup {i} /\ 1..i \subseteq 1..n /\ i \notin 1..(i - 1)
    BY <1>1
  <2>2. \A j \in 1..(i - 1) : j \in 1..n /\ j # i
    BY <2>1
  <2> QED BY <1>2, <2>1, <2>2 DEF Before
<1>6. ASSUME NEW i \in 1..n PROVE IsFiniteSet(Before(order, i - 1))
  BY <1>5, FS_Subset
<1> QED BY <1>1, <1>3, <1>4, <1>5, <1>6 DEF n

\* A sum over the numbers of an order is that over its elements.
LEMMA SumReordered ==
    ASSUME NEW D, IsFiniteSet(D), NEW order, OrderOf(order, D), NEW f, DOMAIN f = D,
           \A x \in D : f[x] \in Int
    PROVE  SumFunction([i \in 1..Cardinality(D) |-> f[order[i]]]) = SumFunction(f)
<1> DEFINE n == Cardinality(D)
           a(i) == [j \in 1..i |-> f[order[j]]]
           b(i) == [x \in Before(order, i) |-> f[x]]
           G == {i \in 0..n : SumFunction(a(i)) = SumFunction(b(i))}
<1>1. /\ n \in Nat /\ Before(order, 0) = {} /\ Before(order, n) = D
      /\ \A i \in 1..n :
            /\ Before(order, i) = Before(order, i - 1) \cup {order[i]} /\ order[i] \in D
            /\ order[i] \notin Before(order, i - 1) /\ Before(order, i - 1) \subseteq D
            /\ IsFiniteSet(Before(order, i - 1))
  BY BeforeFacts
<1> HIDE DEF n
<1>2. 0 \in G
  <2>1. DOMAIN a(0) = {} /\ DOMAIN b(0) = {} /\ 0 \in 0..n
    BY <1>1
  <2>2. ASSUME NEW h, DOMAIN h = {} PROVE SumFunction(h) = 0
    BY <2>2, SumEmpty DEF SumFunction
  <2> HIDE DEF a, b
  <2>3. SumFunction(a(0)) = SumFunction(b(0))
    BY <2>1, <2>2
  <2> QED BY <2>1, <2>3
<1>3. ASSUME NEW i \in 1..n, i - 1 \in G PROVE i \in G
  <2> DEFINE x == order[i]
             B == Before(order, i - 1)
  <2>1. Before(order, i) = B \cup {x} /\ x \in D /\ x \notin B /\ B \subseteq D /\ IsFiniteSet(B)
    BY <1>1
  <2>2. 1..i = 1..(i - 1) \cup {i} /\ i \notin 1..(i - 1) /\ i \in Nat /\ i \in 0..n
        /\ 1..i \subseteq 1..n
    BY <1>1
  <2>3. ExtendedAt(a(i - 1), a(i), 1..(i - 1), i) /\ a(i)[i] = f[x]
    <3>1. IsFiniteSet(1..(i - 1))
      <4>1. 1 \in Int /\ i - 1 \in Int
        BY <2>2
      <4> QED BY <4>1, FS_Interval
    <3>2. DOMAIN a(i - 1) = 1..(i - 1) /\ DOMAIN a(i) = 1..(i - 1) \cup {i} /\ a(i)[i] = f[x]
      BY <2>2
    <3>3. \A j \in 1..(i - 1) : j \in 1..n /\ order[j] \in D
      BY <2>2 DEF OrderOf, n
    <3>4. \A j \in 1..(i - 1) : a(i - 1)[j] \in Int /\ a(i)[j] = a(i - 1)[j]
      BY <2>2, <3>3
    <3>5. f[x] \in Int
      BY <2>1
    <3> HIDE DEF a, x
    <3> QED BY <2>2, <3>1, <3>2, <3>4, <3>5 DEF ExtendedAt
  <2>4. ExtendedAt(b(i - 1), b(i), B, x) /\ b(i)[x] = f[x]
    <3> HIDE DEF B, x
    <3>1. DOMAIN b(i - 1) = B /\ DOMAIN b(i) = B \cup {x} /\ b(i)[x] = f[x]
      BY <2>1 DEF B
    <3>2. \A y \in B : b(i - 1)[y] \in Int /\ b(i)[y] = b(i - 1)[y]
      BY <2>1 DEF B
    <3>3. f[x] \in Int
      BY <2>1
    <3> HIDE DEF b
    <3> QED BY <2>1, <3>1, <3>2, <3>3 DEF ExtendedAt
  <2>5. SumFunction(a(i - 1)) = SumFunction(b(i - 1))
    BY <1>3
  <2> HIDE DEF a, b, x, B
  <2>6. SumFunction(a(i)) = SumFunction(a(i - 1)) + f[x]
    BY <2>3, SumExtend
  <2>7. SumFunction(b(i)) = SumFunction(b(i - 1)) + f[x]
    BY <2>4, SumExtend
  <2> QED BY <2>2, <2>5, <2>6, <2>7
<1>4. n \in G
  <2> HIDE DEF G
  <2>1. 0 \in Nat /\ 0 + 1 = 1 /\ n \in 0..n
    BY <1>1
  <2>2. \A k \in 0..n : k \in G
    BY <1>1, <1>2, <1>3, <2>1, UpTo
  <2> QED BY <2>1, <2>2
<1>5. b(n) = [x \in D |-> f[x]]
  BY <1>1
<1>6. SumFunction([x \in D |-> f[x]]) = SumFunction(f)
  <2> DEFINE g == [x \in D |-> f[x]]
  <2>1. DOMAIN g = D /\ \A x \in D : f[x] \in Int /\ f[x] = g[x]
    OBVIOUS
  <2> HIDE DEF g
  <2>2. SumFunctionOnSet(f, D) = SumFunctionOnSet(g, D)
    BY <2>1, SumSame
  <2>3. SumFunction(g) = SumFunction(f)
    BY <2>1, <2>2 DEF SumFunction
  <2> QED BY <2>3 DEF g
<1>7. SumFunction(a(n)) = SumFunction(f)
  BY <1>4, <1>5, <1>6
<1> QED BY <1>7 DEF n

\* A block's executions of an instruction are numbers.
LEMMA ExecutionsType ==
    ASSUME BlockTypes
    PROVE  /\ IsFiniteSet(DOMAIN block_info_)
           /\ \A b \in DOMAIN block_info_ : block_info_[b].duration_ \in Int
           /\ \A b \in Block : \A inst : Occurrences(b, inst) \in Nat
           /\ \A b \in DOMAIN block_info_ : \A inst : Executions(b, inst) \in Int
           /\ \A inst : \A b \in DOMAIN block_info_ : ExecutionsOf(inst)[b] \in Int
<1>1. IsFiniteSet(DOMAIN block_info_)
  BY BlockAssumption, FS_Subset DEF BlockTypes
<1>2. ASSUME NEW b \in DOMAIN block_info_
      PROVE  /\ block_info_[b].duration_ \in Int /\ block_info_[b].thread_count_ \in Int
             /\ block_info_[b].count_ \in Int
  <2>1. block_info_[b] \in BlockInfo
    BY DEF BlockTypes
  <2> QED BY <2>1 DEF BlockInfo
<1>3. ASSUME NEW b \in Block, NEW inst PROVE Occurrences(b, inst) \in Nat
  <2> DEFINE O == {n \in DOMAIN Insts[b] : Insts[b][n] = inst}
  <2>1. DOMAIN Insts[b] = 1..Len(Insts[b]) /\ 1 \in Int /\ Len(Insts[b]) \in Int
    BY BlockAssumption
  <2>2. IsFiniteSet(DOMAIN Insts[b])
    BY <2>1, FS_Interval
  <2>3. O \in SUBSET DOMAIN Insts[b]
    OBVIOUS
  <2>4. IsFiniteSet(O)
    BY <2>2, <2>3, FS_Subset, Zenon
  <2> QED BY <2>4, FS_CardinalityType DEF Occurrences
<1>4. ASSUME NEW b \in DOMAIN block_info_, NEW inst PROVE Executions(b, inst) \in Int
  BY <1>2 DEF Executions
<1>5. ASSUME NEW b \in DOMAIN block_info_, NEW inst PROVE ExecutionsOf(inst)[b] \in Int
  <2>1. b \in Block
    BY DEF BlockTypes
  <2>2. Occurrences(b, inst) * Executions(b, inst) \in Int
    BY <1>3, <1>4, <2>1
  <2> QED BY <2>2 DEF ExecutionsOf
<1> QED BY <1>1, <1>2, <1>3, <1>4, <1>5

\* What report has counted after i blocks are their executions.
LEMMA RecordsFacts ==
    ASSUME BlockTypes, NEW order \in SetToSeqs(DOMAIN block_info_)
    PROVE  LET D == DOMAIN block_info_
               n == Cardinality(D)
               records == BlockRecords(order)
           IN  /\ OrderOf(order, D) /\ n \in Nat /\ DOMAIN records = 1..n
               /\ \A i \in 1..n : /\ records[i].block = order[i]
                                  /\ records[i].info = block_info_[order[i]]
                                  /\ records[i].kernel.duration = Total("duration_")
               /\ n # 0 => \A inst : At(records[n].instructions, inst, 0) = SumFunction(ExecutionsOf(inst))
<1> DEFINE D == DOMAIN block_info_
           n == Cardinality(D)
           body(f) == [i \in 0..Len(order) |-> IF i = 0 THEN <<>> ELSE Counted(f[i - 1], order[i])]
           step == [i \in Nat |-> [t \in Tables |-> IF i \in 1..n THEN Counted(t, order[i]) ELSE t]]
           g == CHOOSE f : f = body(f)
<1>1. OrderOf(order, D) /\ IsFiniteSet(D) /\ n \in Nat
  BY ExecutionsType, FS_CardinalityType DEF SetToSeqs, OrderOf
<1>2. /\ Before(order, 0) = {} /\ Before(order, n) = D
      /\ \A i \in 1..n :
            /\ Before(order, i) = Before(order, i - 1) \cup {order[i]} /\ order[i] \in D
            /\ order[i] \notin Before(order, i - 1) /\ Before(order, i - 1) \subseteq D
            /\ IsFiniteSet(Before(order, i - 1))
  BY <1>1, BeforeFacts
<1>3. Len(order) = n /\ DOMAIN order = 1..n
  <2>1. order \in [1..n -> D]
    BY <1>1 DEF OrderOf
  <2> HIDE DEF n, D
  <2>2. order \in Seq(D)
    BY <1>1, <2>1
  <2> QED BY <1>1, <2>1, <2>2
<1>4. BlockRecords(order) =
        [i \in DOMAIN order |->
            [block |-> order[i], info |-> block_info_[order[i]],
             kernel |-> [duration |-> Total("duration_"), block_exec_count |-> Total("count_"),
                         thread_exec_count |-> Total("thread_count_")],
             instructions |-> g[i]]]
  BY DEF BlockRecords
<1>5. \A t \in Tables, b \in D : Counted(t, b) \in Tables
  BY CountedFacts
<1>6. <<>> \in Tables
  <2>1. <<>> \in [{} -> Int] /\ {} \in SUBSET STRING
    OBVIOUS
  <2> QED BY <2>1 DEF Tables
<1> HIDE DEF D, n
<1>7. step \in [Nat -> [Tables -> Tables]]
  BY <1>2, <1>5
<1>8. PICK f \in [0..n -> Tables] : f[0] = <<>> /\ \A i \in 0..n : i # 0 => f[i] = step[i][f[i - 1]]
  <2>1. \E f : Recursion(f, Tables, <<>>, 0, n, step)
    <3>1. 0 <= n /\ 0 \in Nat
      BY <1>1
    <3> HIDE DEF step
    <3> QED BY <1>1, <1>6, <1>7, <3>1, RecursionExists
  <2> HIDE DEF step
  <2> QED BY <2>1 DEF Recursion
<1>9. f = body(f)
  <2>1. ASSUME NEW i \in 0..n, i # 0 PROVE f[i] = Counted(f[i - 1], order[i])
    <3>1. i - 1 \in 0..n /\ i \in Nat /\ i \in 1..n
      BY <1>1, <2>1
    <3>2. f[i - 1] \in Tables
      BY <3>1
    <3> QED BY <1>8, <2>1, <3>1, <3>2
  <2> QED BY <1>3, <1>8, <2>1
<1>10. g = body(g)
  BY <1>9
<1> HIDE DEF g
<1>11. g[0] = <<>> /\ \A i \in 1..n : g[i] = Counted(g[i - 1], order[i])
  <2>1. \A i \in 0..n : g[i] = IF i = 0 THEN <<>> ELSE Counted(g[i - 1], order[i])
    BY <1>3, <1>10, Zenon
  <2>2. 0 \in 0..n /\ \A i \in 1..n : i \in 0..n /\ i # 0
    BY <1>1
  <2> QED BY <2>1, <2>2, Zenon
<1> DEFINE e(inst, i) == [b \in Before(order, i) |-> ExecutionsOf(inst)[b]]
           G == {i \in 0..n : g[i] \in Tables /\ \A inst : At(g[i], inst, 0) = SumFunction(e(inst, i))}
<1>12. 0 \in G
  <2>1. \A inst : At(<<>>, inst, 0) = 0
    BY DEF At
  <2>2. \A inst : DOMAIN e(inst, 0) = {}
    BY <1>2
  <2> HIDE DEF e
  <2>3. \A inst : SumFunction(e(inst, 0)) = 0
    BY <2>2, SumEmpty DEF SumFunction
  <2>4. 0 \in 0..n
    BY <1>1
  <2> QED BY <1>6, <1>11, <2>1, <2>3, <2>4
<1>13. ASSUME NEW i \in 1..n, i - 1 \in G PROVE i \in G
  <2> DEFINE b == order[i]
             B == Before(order, i - 1)
  <2>1. /\ Before(order, i) = B \cup {b} /\ b \in D /\ b \notin B /\ B \subseteq D /\ IsFiniteSet(B)
    BY <1>2
  <2>2. /\ g[i - 1] \in Tables /\ g[i] = Counted(g[i - 1], b)
        /\ \A inst : At(g[i - 1], inst, 0) = SumFunction(e(inst, i - 1))
    BY <1>11, <1>13
  <2>3. /\ g[i] \in Tables
        /\ \A inst : At(g[i], inst, 0) = At(g[i - 1], inst, 0) + Occurrences(b, inst) * Executions(b, inst)
    <3> HIDE DEF b
    <3> QED BY <2>1, <2>2, CountedFacts DEF D
  <2>4. ASSUME NEW inst PROVE At(g[i], inst, 0) = SumFunction(e(inst, i))
    <3>1. \A x \in D : ExecutionsOf(inst)[x] \in Int
      BY ExecutionsType DEF D
    <3>2. ExecutionsOf(inst)[b] = Occurrences(b, inst) * Executions(b, inst)
      BY <2>1 DEF ExecutionsOf, D
    <3> HIDE DEF b, B
    <3>3. DOMAIN e(inst, i - 1) = B /\ DOMAIN e(inst, i) = B \cup {b} /\ e(inst, i)[b] = ExecutionsOf(inst)[b]
      BY <2>1 DEF B
    <3>4. \A y \in B : e(inst, i - 1)[y] \in Int /\ e(inst, i)[y] = e(inst, i - 1)[y]
      BY <2>1, <3>1 DEF B
    <3> HIDE DEF e
    <3>5. ExtendedAt(e(inst, i - 1), e(inst, i), B, b)
      BY <2>1, <3>1, <3>3, <3>4 DEF ExtendedAt
    <3>6. SumFunction(e(inst, i)) = SumFunction(e(inst, i - 1)) + e(inst, i)[b]
      BY <3>5, SumExtend
    <3> QED BY <2>2, <2>3, <3>2, <3>3, <3>6
  <2>5. i \in 0..n
    BY <1>1
  <2> HIDE DEF e
  <2> QED BY <2>3, <2>4, <2>5
<1>14. n \in G
  <2> HIDE DEF G
  <2>1. 0 \in Nat /\ 0 + 1 = 1 /\ n \in 0..n
    BY <1>1
  <2>2. \A k \in 0..n : k \in G
    BY <1>1, <1>12, <1>13, <2>1, UpTo
  <2> QED BY <2>1, <2>2
<1>15. \A inst : e(inst, n) = ExecutionsOf(inst)
  BY <1>2 DEF ExecutionsOf, D
<1>16. ASSUME n # 0, NEW inst
       PROVE  At(BlockRecords(order)[n].instructions, inst, 0) = SumFunction(ExecutionsOf(inst))
  <2>1. n \in 1..n
    BY <1>1, <1>16
  <2>2. BlockRecords(order)[n].instructions = g[n]
    BY <1>3, <1>4, <2>1
  <2>3. At(g[n], inst, 0) = SumFunction(e(inst, n))
    BY <1>14
  <2> HIDE DEF e
  <2> QED BY <1>15, <2>2, <2>3
<1>17. /\ DOMAIN BlockRecords(order) = 1..n
       /\ \A i \in 1..n : /\ BlockRecords(order)[i].block = order[i]
                          /\ BlockRecords(order)[i].info = block_info_[order[i]]
                          /\ BlockRecords(order)[i].kernel.duration = Total("duration_")
  BY <1>3, <1>4
<1> QED BY <1>1, <1>16, <1>17 DEF n, D

\* What the kernel executed stays while no visit is closed.
LEMMA SameExecutions ==
    ASSUME SameVisits
    PROVE  \A inst : ExecutedByKernel(inst)' = ExecutedByKernel(inst)
<1> SUFFICES ASSUME NEW inst PROVE ExecutedByKernel(inst)' = ExecutedByKernel(inst)
  OBVIOUS
<1>1. \A v \in Closed : ExecutedIn(v, inst)' = ExecutedIn(v, inst)
  BY DEF SameVisits, ExecutedIn, Occurrences
<1>2. [v \in Closed |-> ExecutedIn(v, inst)]' = [v \in Closed |-> ExecutedIn(v, inst)]
  BY <1>1 DEF SameVisits
<1> QED BY <1>2 DEF ExecutedByKernel

\* When one more visit is closed, what it executed is added.
LEMMA ExecutedMore ==
    ASSUME BlockTypes, NEW v0, v0 \notin Closed, Closed' = Closed \cup {v0},
           \A v \in Closed : Visit(v)' = Visit(v) /\ Closing(v)' = Closing(v),
           NEW opened \in Message, Visit(v0)' = opened, NEW closing \in Message, Closing(v0)' = closing,
           NEW inst
    PROVE  ExecutedByKernel(inst)' = ExecutedByKernel(inst)
              + Occurrences(opened.block, inst) * (IF inst \in Vector THEN closing.exec ELSE 1)
<1> DEFINE f == [v \in Closed |-> ExecutedIn(v, inst)]
           g == [v \in Closed' |-> ExecutedIn(v, inst)']
           z == Occurrences(opened.block, inst) * (IF inst \in Vector THEN closing.exec ELSE 1)
<1>1. ASSUME NEW m \in Message PROVE m.block \in Block /\ m.exec \in Int
  BY LanesBounds DEF Message
<1>2. ASSUME NEW m \in Message, NEW k \in Message
      PROVE  Occurrences(m.block, inst) * (IF inst \in Vector THEN k.exec ELSE 1) \in Int
  <2>1. Occurrences(m.block, inst) \in Int /\ k.exec \in Int
    BY <1>1, ExecutionsType
  <2> QED BY <2>1
<1>3. \A v \in Closed : ExecutedIn(v, inst) \in Int
  <2> SUFFICES ASSUME NEW v \in Closed PROVE ExecutedIn(v, inst) \in Int
    OBVIOUS
  <2>1. Visit(v) \in Message /\ Closing(v) \in Message
    BY ClosedFacts
  <2> QED BY <1>2, <2>1 DEF ExecutedIn
<1>4. \A v \in Closed : ExecutedIn(v, inst)' = ExecutedIn(v, inst)
  BY DEF ExecutedIn, Occurrences
<1>5. ExecutedIn(v0, inst)' = z /\ z \in Int
  BY <1>2 DEF ExecutedIn, Occurrences
<1>6. DOMAIN f = Closed /\ DOMAIN g = Closed \cup {v0} /\ g[v0] = z
      /\ \A v \in Closed : f[v] \in Int /\ g[v] = f[v]
  BY <1>3, <1>4, <1>5
<1>7. IsFiniteSet(Closed)
  BY ClosedFinite
<1>8. ExecutedByKernel(inst) = SumFunction(f) /\ ExecutedByKernel(inst)' = SumFunction(g)
  BY DEF ExecutedByKernel
<1> HIDE DEF f, g, z
<1>9. ExtendedAt(f, g, Closed, v0)
  BY <1>5, <1>6, <1>7 DEF ExtendedAt
<1>10. SumFunction(g) = SumFunction(f) + z
  BY <1>6, <1>9, SumExtend
<1> QED BY <1>8, <1>10 DEF z

\* When a visit with x lanes is charged to block b, so are its executions.
LEMMA ExecutionsPut ==
    ASSUME BlockTypes, NEW b \in Block, NEW i \in BlockInfo, block_info_' = Put(block_info_, b, i),
           NEW x \in Int, i.count_ = At(block_info_, b, NoInfo).count_ + 1,
           i.thread_count_ = At(block_info_, b, NoInfo).thread_count_ + x, NEW inst
    PROVE  SumFunction(ExecutionsOf(inst))' = SumFunction(ExecutionsOf(inst))
              + Occurrences(b, inst) * (IF inst \in Vector THEN x ELSE 1)
<1> DEFINE D == DOMAIN block_info_
           f == ExecutionsOf(inst)
           g == ExecutionsOf(inst)'
           o == Occurrences(b, inst)
           a == IF inst \in Vector THEN x ELSE 1
<1>1. /\ DOMAIN block_info_' = D \cup {b} /\ block_info_'[b] = i
      /\ \A c \in D : c # b => block_info_'[c] = block_info_[c]
  BY DEF Put
<1>2. IsFiniteSet(D) /\ o \in Nat /\ a \in Int /\ \A c \in D : f[c] \in Int
  BY ExecutionsType
<1>3. /\ DOMAIN f = D /\ DOMAIN g = D \cup {b}
      /\ \A c \in D : f[c] = Occurrences(c, inst) * Executions(c, inst)
      /\ \A c \in D \cup {b} : g[c] = Occurrences(c, inst) * Executions(c, inst)'
  BY <1>1 DEF ExecutionsOf, Occurrences
<1>4. \A c \in D \ {b} : g[c] = f[c]
  <2>1. \A c \in D \ {b} : Executions(c, inst)' = Executions(c, inst)
    BY <1>1 DEF Executions
  <2> HIDE DEF f, g
  <2> QED BY <1>3, <2>1
<1>5. i.count_ \in Int /\ i.thread_count_ \in Int
  BY DEF BlockInfo
<1>6. CASE b \in D
  <2>1. Executions(b, inst)' = Executions(b, inst) + a /\ Executions(b, inst) \in Int
    <3>1. At(block_info_, b, NoInfo) = block_info_[b] /\ Executions(b, inst) \in Int
      BY <1>6, ExecutionsType DEF At
    <3> QED BY <1>1, <3>1 DEF Executions
  <2>2. o * (Executions(b, inst) + a) = o * Executions(b, inst) + o * a /\ o * a \in Int
    <3> HIDE DEF o, a
    <3> QED BY <1>2, <2>1
  <2>3. g[b] = f[b] + o * a
    <3>1. g[b] = o * (Executions(b, inst) + a) /\ f[b] = o * Executions(b, inst)
      BY <1>3, <1>6, <2>1
    <3> HIDE DEF f, g, o, a
    <3> QED BY <2>2, <3>1
  <2> HIDE DEF f, g, o, a, D
  <2>4. PutAt(f, g, D, b, o * a)
    BY <1>2, <1>3, <1>4, <1>6, <2>2, <2>3 DEF PutAt
  <2>5. SumFunction(g) = SumFunction(f) + o * a
    BY <2>4, SumPut
  <2> QED BY <2>5 DEF f, g, o, a
<1>7. CASE b \notin D
  <2>1. Executions(b, inst)' = a
    <3>1. At(block_info_, b, NoInfo).count_ = 0 /\ At(block_info_, b, NoInfo).thread_count_ = 0
      BY <1>7 DEF At, NoInfo
    <3> QED BY <1>1, <3>1 DEF Executions
  <2>2. g[b] = o * a /\ o * a \in Int
    <3>1. g[b] = o * Executions(b, inst)'
      BY <1>3
    <3> HIDE DEF g, o, a
    <3> QED BY <1>2, <2>1, <3>1
  <2> HIDE DEF f, g, o, a, D
  <2>3. g[b] = 0 + o * a
    BY <2>2
  <2>4. PutAt(f, g, D, b, o * a)
    BY <1>2, <1>3, <1>4, <1>7, <2>2, <2>3 DEF PutAt
  <2>5. SumFunction(g) = SumFunction(f) + o * a
    BY <2>4, SumPut
  <2> QED BY <2>5 DEF f, g, o, a
<1> QED BY <1>6, <1>7

-----------------------------------------------------------------------------
(* The invariant in parts: what the tables hold while messages come, and   *)
(* what report has written.                                                *)

LanesInRange ==
    KeysStable =>
    \A b \in DOMAIN block_info_ :
        block_info_[b].thread_count_ \in Min(Lanes) * block_info_[b].count_ .. Max(Lanes) * block_info_[b].count_

FiguresRight ==
    /\ StatesCurrent /\ TotalsExact /\ InstructionsExact
    /\ StatesOfLiveWaves /\ BlockTimesExact /\ LanesInRange

UnitsRight ==
    kdb # "no_database" =>
    \A w \in Wave : /\ handled[w] > 0 => w \in At(compute_resources_, CuOf[w], {})
                    /\ \A cu \in DOMAIN compute_resources_ :
                          w \in compute_resources_[cu] => cu = CuOf[w] /\ handled[w] > 0

TablesRight == BlockTypes /\ PathsFollowKernel /\ UnitsHaveWaves /\ UnitsRight /\ FiguresRight

CountsReported ==
    KeysStable =>
    \A i \in DOMAIN reported.blocks :
        /\ reported.blocks[i].kernel.block_exec_count = Cardinality(Closed)
        /\ reported.blocks[i].kernel.thread_exec_count = LanesOf(Closed)

UnitsReported ==
    kdb # "no_database" /\ reported.called =>
    /\ reported.wellformed <=> \E w \in Wave : handled[w] > 0
    /\ \A cu \in DOMAIN reported.resources : reported.resources[cu].avg_wave_count > 0

ReportRightSoFar == CountsReported /\ UnitsReported /\ LastRecordCountsKernel

\* The tables while waves run, and the report afterwards.
LEMMA InvariantInParts == BlocksInv <=> TablesRight /\ ReportRightSoFar
<1>1. WavesOnUnits <=> UnitsRight /\ UnitsReported
  BY Zenon DEF WavesOnUnits, UnitsRight, UnitsReported
<1>2. BranchinessInRange <=> LanesInRange /\ CountsReported
  BY Zenon DEF BranchinessInRange, LanesInRange, CountsReported
<1> QED BY <1>1, <1>2 DEF BlocksInv, BlocksSupport, TablesRight, FiguresRight, ReportRightSoFar

\* Before report has been called it has written nothing.
LEMMA NothingReported == reported = NotYet => ReportRightSoFar
<1> SUFFICES ASSUME reported = NotYet PROVE ReportRightSoFar
  OBVIOUS
<1>1. reported.called = FALSE /\ reported.blocks = <<>>
  BY DEF NotYet
<1>2. DOMAIN reported.blocks = {}
  BY <1>1
<1> QED BY <1>1, <1>2 DEF CountsReported, UnitsReported, LastRecordCountsKernel, ReportRightSoFar

\* Before the report there is nothing to show of it.
LEMMA NothingReportedNext == ASSUME reported' = NotYet PROVE ReportRightSoFar'
<1>1. reported'.called = FALSE /\ reported'.blocks = <<>>
  BY DEF NotYet
<1>2. DOMAIN reported'.blocks = {}
  BY <1>1
<1> QED BY <1>1, <1>2 DEF CountsReported, UnitsReported, LastRecordCountsKernel, ReportRightSoFar

\* The sum of no figures.
LEMMA SumOfNone == ASSUME NEW f, DOMAIN f = {} PROVE SumFunction(f) = 0
BY SumEmpty DEF SumFunction

\* The handler starts with empty tables.
LEMMA InitRight == ASSUME Init PROVE BlocksInv
<1>1. DOMAIN wave_states_ = {} /\ DOMAIN block_info_ = {} /\ DOMAIN compute_resources_ = {}
  BY DEF Init
<1>2. ASSUME NEW w \in Wave
      PROVE  handled[w] = 0 /\ path[w] = <<>> /\ Sent(w) = 0 /\ HeardAt(w) = {}
  BY DEF Init, Sent, HeardAt
<1>3. Closed = {} /\ \A b : ClosedIn(b) = {}
  BY <1>2 DEF Closed, ClosedIn
<1>4. BlockTypes
  <2>1. MaxVisits \in Nat
    BY BlockAssumption DEF BlockAssumption
  <2>2. path \in [Wave -> Seq(Message)] /\ handled \in [Wave -> Nat]
    BY DEF Init
  <2>3. wave_states_ \in [DOMAIN wave_states_ -> WaveState]
        /\ block_info_ \in [DOMAIN block_info_ -> BlockInfo]
    BY <1>1 DEF Init
  <2> QED BY <1>1, <1>2, <2>1, <2>2, <2>3 DEF BlockTypes, Init
<1>5. PathsFollowKernel
  BY <1>2 DEF PathsFollowKernel
<1>6. UnitsHaveWaves /\ UnitsRight
  BY <1>1, <1>2 DEF UnitsHaveWaves, UnitsRight, Init
<1>7. StatesCurrent /\ StatesOfLiveWaves /\ LanesInRange
  BY <1>1, <1>2 DEF StatesCurrent, StatesOfLiveWaves, LanesInRange
<1>8. Cardinality(Closed) = 0 /\ \A b : Cardinality(ClosedIn(b)) = 0
  BY <1>3, FS_EmptySet
<1>9. TotalsExact
  <2>1. Total("count_") = 0 /\ Total("thread_count_") = 0
    BY <1>1, SumOfNone DEF Total
  <2>2. LanesOf(Closed) = 0
    BY <1>3, SumOfNone DEF LanesOf
  <2> QED BY <1>8, <2>1, <2>2 DEF TotalsExact
<1>10. BlockTimesExact
  <2>1. ASSUME NEW b PROVE At(block_info_, b, NoInfo) = NoInfo /\ TimeOf(ClosedIn(b)) = 0
    BY <1>1, <1>3, SumOfNone DEF At, TimeOf
  <2>2. NoInfo.count_ = 0 /\ NoInfo.duration_ = 0
    BY DEF NoInfo
  <2> QED BY <1>8, <2>1, <2>2 DEF BlockTimesExact
<1>11. ReportRightSoFar
  BY NothingReported DEF Init
<1>12. InstructionsExact
  <2>1. ASSUME NEW inst PROVE SumFunction(ExecutionsOf(inst)) = 0 /\ ExecutedByKernel(inst) = 0
    BY <1>1, <1>3, SumOfNone DEF ExecutionsOf, ExecutedByKernel
  <2> QED BY <2>1 DEF InstructionsExact
<1> QED BY <1>4, <1>5, <1>6, <1>7, <1>9, <1>10, <1>11, <1>12, InvariantInParts DEF TablesRight, FiguresRight

-----------------------------------------------------------------------------
(* Steps that charge nothing.                                              *)

\* The same messages have been heard, and the tables of waves and blocks stay.
SameHeard ==
    /\ \A w \in Wave : HeardAt(w)' = HeardAt(w)
    /\ \A w \in Wave : \A n \in HeardAt(w) : path'[w][n] = path[w][n]
    /\ UNCHANGED <<pads, kdb, wave_states_, block_info_>>

\* A step that handles no message leaves the figures right.
LEMMA FiguresKept ==
    ASSUME BlockTypes, FiguresRight, SameVisits, SameHeard
    PROVE  FiguresRight'
<1>1. KeysStable' <=> KeysStable
  BY DEF KeysStable, SameHeard
<1>2. /\ \A b : ClosedIn(b)' = ClosedIn(b) /\ TimeOf(ClosedIn(b))' = TimeOf(ClosedIn(b))
      /\ LanesOf(Closed)' = LanesOf(Closed) /\ Closed' = Closed
  BY SameFigures DEF SameVisits
<1>3. UNCHANGED <<wave_states_, block_info_>>
  BY DEF SameHeard
<1>4. StatesCurrent'
  <2> SUFFICES ASSUME KeysStable, NEW k \in DOMAIN wave_states_
               PROVE  \E n \in HeardAt(k[1])' :
                        /\ \A m \in HeardAt(k[1])' : m <= n
                        /\ wave_states_[k].current_block_ = path'[k[1]][n].block
                        /\ wave_states_[k].start_time_ = path'[k[1]][n].timestamp
    BY <1>1, <1>3 DEF StatesCurrent
  <2>1. k[1] \in Wave
    BY DEF BlockTypes
  <2> QED BY <2>1 DEF StatesCurrent, SameHeard, FiguresRight
<1>5. TotalsExact'
  <2>1. Total("count_")' = Total("count_") /\ Total("thread_count_")' = Total("thread_count_")
    BY <1>3 DEF Total
  <2> QED BY <1>1, <1>2, <2>1 DEF TotalsExact, FiguresRight
<1>6. StatesOfLiveWaves'
  <2> SUFFICES ASSUME KeysStable, NEW w \in Wave
               PROVE  (\E k \in DOMAIN wave_states_ : k[1] = w)
                      <=> \E n \in HeardAt(w)' : /\ \A m \in HeardAt(w)' : m <= n
                                                 /\ HeardAt(w)' = {n} \/ path'[w][n].block \notin Exits
    BY <1>1, <1>3 DEF StatesOfLiveWaves, Exits
  <2> QED BY DEF StatesOfLiveWaves, SameHeard, FiguresRight
<1>7. BlockTimesExact'
  BY <1>1, <1>2, <1>3 DEF BlockTimesExact, FiguresRight
<1>8. LanesInRange'
  BY <1>1, <1>3 DEF LanesInRange, FiguresRight
<1>9. InstructionsExact'
  <2>1. \A inst : SumFunction(ExecutionsOf(inst))' = SumFunction(ExecutionsOf(inst))
    BY <1>3 DEF ExecutionsOf, Executions, Occurrences
  <2>2. \A inst : ExecutedByKernel(inst)' = ExecutedByKernel(inst)
    BY SameExecutions
  <2> QED BY <1>1, <2>1, <2>2 DEF InstructionsExact, FiguresRight, Instructions
<1> QED BY <1>4, <1>5, <1>6, <1>7, <1>8, <1>9 DEF FiguresRight

\* A wave that goes on in its kernel.
LEMMA SubmitRight ==
    ASSUME TablesRight, NEW w \in Wave, s_submit_wave_header(w)
    PROVE  TablesRight' /\ reported' = NotYet
<1>0. BlockTypes /\ FiguresRight
  BY DEF TablesRight
<1>1. /\ reported' = NotYet /\ Sent(w) < MaxVisits /\ clock' = clock + 1
      /\ UNCHANGED <<pads, kdb, handled, wave_states_, block_info_, compute_resources_>>
  BY DEF s_submit_wave_header, handlerVars
<1>2. PICK b \in IF path[w] = <<>> THEN {Entry} ELSE Succ[path[w][Sent(w)].block], lanes \in Lanes :
          path' = [path EXCEPT ![w] = Append(@, [block |-> b, timestamp |-> clock, exec |-> lanes])]
  BY DEF s_submit_wave_header
<1>3. path \in [Wave -> Seq(Message)] /\ clock \in Nat /\ handled \in [Wave -> Nat]
  BY <1>0 DEF BlockTypes
<1>4. /\ path[w] \in Seq(Message) /\ Len(path[w]) \in Nat /\ handled[w] \in Nat
      /\ handled[w] <= Len(path[w]) /\ MaxVisits \in Nat
  BY <1>0, HeardFacts, BlockAssumption DEF BlockAssumption
<1>5. b \in Block
  <2>1. CASE path[w] = <<>>
    BY <1>2, <2>1, BlockAssumption DEF BlockAssumption
  <2>2. CASE path[w] # <<>>
    <3>1. Len(path[w]) \in 1..Len(path[w])
      BY <1>4, <2>2
    <3>2. path[w][Len(path[w])] \in Message
      BY <1>4, <3>1
    <3>3. path[w][Sent(w)].block \in Block
      BY <3>2 DEF Message, Sent
    <3>4. b \in Succ[path[w][Sent(w)].block]
      BY <1>2, <2>2
    <3> QED BY <3>3, <3>4, BlockAssumption DEF BlockAssumption
  <2> QED BY <2>1, <2>2
<1> DEFINE msg == [block |-> b, timestamp |-> clock, exec |-> lanes]
<1>6. msg \in Message /\ msg.block = b
  BY <1>3, <1>5 DEF Message
<1> HIDE DEF msg
<1>7. /\ path'[w] = Append(path[w], msg) /\ \A x \in Wave \ {w} : path'[x] = path[x]
      /\ path' \in [Wave -> Seq(Message)]
  <2>1. path' = [path EXCEPT ![w] = Append(path[w], msg)]
    BY <1>2 DEF msg
  <2>2. Append(path[w], msg) \in Seq(Message)
    BY <1>4, <1>6
  <2> QED BY <1>3, <2>1, <2>2
<1>8. /\ Len(path'[w]) = Len(path[w]) + 1 /\ path'[w][Len(path[w]) + 1] = msg
      /\ \A n \in 1..Len(path[w]) : path'[w][n] = path[w][n]
  BY <1>4, <1>6, <1>7
<1>9. BlockTypes'
  <2>1. ASSUME NEW x \in Wave PROVE handled[x] <= Len(path'[x]) /\ Len(path'[x]) <= MaxVisits
    <3>1. CASE x = w
      BY <1>1, <1>4, <1>8, <3>1 DEF Sent
    <3>2. CASE x # w
      BY <1>0, <1>7, <3>2, HeardFacts
    <3> QED BY <3>1, <3>2
  <2>2. clock' \in Nat
    BY <1>1, <1>3
  <2> QED BY <1>0, <1>1, <1>7, <2>1, <2>2 DEF BlockTypes, Sent, WaveState, BlockInfo
<1>10. PathsFollowKernel'
  <2>1. ASSUME NEW x \in Wave, NEW n \in 1..(Len(path'[x]) - 1)
        PROVE  path'[x][n + 1].block \in Succ[path'[x][n].block]
    <3>1. CASE x # w
      BY <1>7, <3>1 DEF TablesRight, PathsFollowKernel, Sent
    <3>2. CASE x = w /\ n < Len(path[w])
      <4>1. n \in 1..(Len(path[w]) - 1) /\ n \in 1..Len(path[w]) /\ n + 1 \in 1..Len(path[w])
        BY <1>4, <3>2
      <4>2. path[w][n + 1].block \in Succ[path[w][n].block]
        BY <4>1 DEF TablesRight, PathsFollowKernel, Sent
      <4>3. path'[w][n] = path[w][n] /\ path'[w][n + 1] = path[w][n + 1]
        BY <1>8, <4>1
      <4> QED BY <3>2, <4>2, <4>3
    <3>3. CASE x = w /\ n >= Len(path[w])
      <4>1. n = Len(path[w]) /\ n \in 1..Len(path[w]) /\ path[w] # <<>>
        BY <1>4, <1>8, <3>3
      <4>2. path'[w][n + 1] = msg /\ path'[w][n] = path[w][Sent(w)]
        BY <1>8, <4>1 DEF Sent
      <4>3. b \in Succ[path[w][Sent(w)].block]
        BY <1>2, <4>1
      <4> QED BY <1>6, <3>3, <4>2, <4>3
    <3>4. n \in Nat /\ (n < Len(path[w]) \/ n >= Len(path[w]))
      BY <1>4
    <3> QED BY <3>1, <3>2, <3>3, <3>4
  <2> QED BY <2>1 DEF PathsFollowKernel, Sent
<1>11. UnitsHaveWaves' /\ UnitsRight'
  BY <1>1 DEF TablesRight, UnitsHaveWaves, UnitsRight, At
<1>12. FiguresRight'
  <2>1. ASSUME NEW x \in Wave, NEW n \in 1..handled[x] PROVE path'[x][n] = path[x][n]
    <3>1. CASE x = w
      BY <1>4, <1>8, <3>1
    <3>2. CASE x # w
      BY <1>7, <3>2
    <3> QED BY <3>1, <3>2
  <2>2. SameVisits /\ \A x \in Wave : HeardAt(x)' = HeardAt(x)
    BY <1>0, <1>1, <2>1, NothingHandled
  <2>3. SameHeard
    BY <1>1, <2>1, <2>2 DEF SameHeard, HeardAt
  <2> QED BY <1>0, <2>2, <2>3, FiguresKept
<1> QED BY <1>1, <1>9, <1>10, <1>11, <1>12 DEF TablesRight

-----------------------------------------------------------------------------
(* The compute units.                                                      *)

\* A message puts its wave on its unit.
LEMMA UnitUpdated ==
    ASSUME BlockTypes, UnitsHaveWaves, UnitsRight, kdb # "no_database", kdb' = kdb, NEW w \in Wave,
           updateComputeResources(w), handled' = [handled EXCEPT ![w] = @ + 1]
    PROVE  UnitsHaveWaves' /\ UnitsRight'
<1> DEFINE c == compute_resources_
           old == At(c, CuOf[w], {})
<1>1. /\ DOMAIN c' = DOMAIN c \cup {CuOf[w]} /\ c'[CuOf[w]] = old \cup {w}
      /\ \A x \in DOMAIN c : x # CuOf[w] => c'[x] = c[x]
  BY DEF updateComputeResources, Put
<1>2. c' = [x \in DOMAIN c' |-> c'[x]]
  <2>1. c' = [x \in DOMAIN c \cup {CuOf[w]} |-> IF x = CuOf[w] THEN old \cup {w} ELSE c[x]]
    BY DEF updateComputeResources, Put
  <2> QED BY <2>1
<1>3. \A x \in DOMAIN c : c[x] \in SUBSET Wave /\ c[x] # {}
  BY DEF UnitsHaveWaves
<1>4. old \subseteq Wave /\ (CuOf[w] \in DOMAIN c => old = c[CuOf[w]]) /\ (CuOf[w] \notin DOMAIN c => old = {})
  BY <1>3 DEF At
<1>5. UnitsHaveWaves'
  <2>1. \A x \in DOMAIN c' : c'[x] \in (SUBSET Wave) \ {{}}
    BY <1>1, <1>3, <1>4
  <2> QED BY <1>2, <2>1 DEF UnitsHaveWaves
<1>6. /\ handled'[w] = handled[w] + 1 /\ handled[w] \in Nat
      /\ \A x \in Wave \ {w} : handled'[x] = handled[x]
  BY DEF BlockTypes
<1>7. ASSUME NEW x \in Wave, handled'[x] > 0 PROVE CuOf[x] \in DOMAIN c' /\ x \in c'[CuOf[x]]
  <2>1. CASE x = w
    BY <1>1, <2>1
  <2>2. CASE x # w
    <3>1. x \in At(c, CuOf[x], {})
      BY <1>6, <1>7, <2>2 DEF UnitsRight
    <3>2. CuOf[x] \in DOMAIN c /\ x \in c[CuOf[x]]
      BY <3>1 DEF At
    <3> QED BY <1>1, <1>4, <3>2
  <2> QED BY <2>1, <2>2
<1>8. ASSUME NEW x \in Wave, NEW cu \in DOMAIN c', x \in c'[cu] PROVE cu = CuOf[x] /\ handled'[x] > 0
  <2>1. CASE x = w /\ cu = CuOf[w]
    BY <1>6, <2>1
  <2>2. CASE ~(x = w /\ cu = CuOf[w])
    <3>1. cu \in DOMAIN c /\ x \in c[cu]
      BY <1>1, <1>4, <1>8, <2>2
    <3>2. cu = CuOf[x] /\ handled[x] > 0
      BY <3>1 DEF UnitsRight
    <3> QED BY <1>6, <3>2
  <2> QED BY <2>1, <2>2
<1>9. UnitsRight'
  <2>1. ASSUME NEW x \in Wave, handled'[x] > 0 PROVE x \in At(c, CuOf[x], {})'
    BY <1>7, <2>1 DEF At
  <2> HIDE DEF c
  <2> QED BY <1>8, <2>1 DEF UnitsRight, c
<1> QED BY <1>5, <1>9

\* The rendered units: a unit in the table has waves, and no more workgroups.
LEMMA UnitsRendered ==
    ASSUME UnitsHaveWaves, UnitsRight, kdb # "no_database"
    PROVE  /\ compute_resources_ # <<>> <=> \E w \in Wave : handled[w] > 0
           /\ \A cu \in DOMAIN renderComputeResources : renderComputeResources[cu].avg_wave_count > 0
<1> DEFINE c == compute_resources_
<1>1. c \in [DOMAIN c -> (SUBSET Wave) \ {{}}]
  BY DEF UnitsHaveWaves
<1>2. ASSUME c # <<>> PROVE \E w \in Wave : handled[w] > 0
  <2>1. PICK cu \in DOMAIN c : TRUE
    BY <1>1, <1>2
  <2>2. PICK w \in c[cu] : w \in Wave
    BY <1>1, <2>1
  <2> QED BY <2>1, <2>2 DEF UnitsRight
<1>3. ASSUME NEW w \in Wave, handled[w] > 0 PROVE c # <<>>
  <2>1. w \in At(c, CuOf[w], {})
    BY <1>3 DEF UnitsRight
  <2>2. CuOf[w] \in DOMAIN c
    BY <2>1 DEF At
  <2> QED BY <2>2
<1>4. ASSUME NEW cu \in DOMAIN c PROVE renderComputeResources[cu].avg_wave_count > 0
  <2> DEFINE wgs == {WgOf[w] : w \in c[cu]}
  <2>1. IsFiniteSet(c[cu]) /\ c[cu] # {}
    BY <1>1, BlockAssumption, FS_Subset DEF BlockAssumption
  <2>2. IsFiniteSet(wgs) /\ Cardinality(wgs) <= Cardinality(c[cu]) /\ wgs # {}
    <3> DEFINE f == [w \in c[cu] |-> WgOf[w]]
    <3>1. f \in Surjection(c[cu], wgs) /\ wgs # {}
      BY <2>1 DEF Surjection
    <3> HIDE DEF f, wgs
    <3> QED BY <2>1, <3>1, FS_Surjection
  <2> HIDE DEF wgs
  <2>3. Cardinality(wgs) \in Nat /\ Cardinality(c[cu]) \in Nat /\ Cardinality(wgs) # 0
    BY <2>1, <2>2, FS_CardinalityType, FS_EmptySet
  <2>4. Cardinality(c[cu]) \div Cardinality(wgs) > 0
    BY <2>2, <2>3
  <2> QED BY <2>4 DEF renderComputeResources, wgs
<1>5. DOMAIN renderComputeResources = DOMAIN c
  BY DEF renderComputeResources
<1> QED BY <1>2, <1>3, <1>4, <1>5

\* The records that report writes.
LEMMA RecordsRight ==
    ASSUME BlockTypes, FiguresRight, SameVisits, SameHeard,
           NEW order \in SetToSeqs(DOMAIN block_info_), reported'.blocks = BlockRecords(order)
    PROVE  LastRecordCountsKernel'
<1> DEFINE D == DOMAIN block_info_
           n == Cardinality(D)
           records == BlockRecords(order)
<1>1. /\ OrderOf(order, D) /\ n \in Nat /\ DOMAIN records = 1..n
      /\ \A i \in 1..n : /\ records[i].block = order[i] /\ records[i].info = block_info_[order[i]]
                         /\ records[i].kernel.duration = Total("duration_")
      /\ n # 0 => \A inst : At(records[n].instructions, inst, 0) = SumFunction(ExecutionsOf(inst))
  BY RecordsFacts
<1>2. IsFiniteSet(D) /\ \A b \in D : block_info_[b].duration_ \in Int
  BY ExecutionsType
<1> HIDE DEF D, n, records
<1> SUFFICES ASSUME KeysStable', records # <<>>
             PROVE  /\ \A i, j \in DOMAIN records : records[i].block = records[j].block => i = j
                    /\ SumFunction([i \in DOMAIN records |-> records[i].info.duration_])
                           = records[1].kernel.duration
                    /\ \A inst \in Instructions :
                          At(Last(records).instructions, inst, 0) = ExecutedByKernel(inst)'
  BY DEF LastRecordCountsKernel, Instructions, records
<1>3. n # 0 /\ 1 \in 1..n /\ n \in 1..n
  <2>1. CASE n = 0
    <3>1. DOMAIN records = {}
      BY <1>1, <2>1
    <3>2. records = [i \in DOMAIN records |-> records[i]]
      BY DEF records, BlockRecords
    <3> QED BY <3>1, <3>2
  <2> QED BY <1>1, <2>1
<1>4. \A i, j \in DOMAIN records : records[i].block = records[j].block => i = j
  BY <1>1 DEF OrderOf, n
<1>5. SumFunction([i \in DOMAIN records |-> records[i].info.duration_]) = records[1].kernel.duration
  <2> DEFINE f == [b \in D |-> block_info_[b].duration_]
  <2>1. order \in [1..n -> D]
    BY <1>1 DEF OrderOf, n
  <2>2. [i \in DOMAIN records |-> records[i].info.duration_] = [i \in 1..n |-> f[order[i]]]
    BY <1>1, <2>1
  <2>3. SumFunction(f) = Total("duration_")
    BY DEF Total, D
  <2>4. DOMAIN f = D /\ \A b \in D : f[b] \in Int
    BY <1>2
  <2> HIDE DEF f
  <2>5. SumFunction([i \in 1..n |-> f[order[i]]]) = SumFunction(f)
    BY <1>1, <1>2, <2>4, SumReordered DEF n
  <2> QED BY <1>1, <1>3, <2>2, <2>3, <2>5
<1>6. Last(records) = records[n]
  <2>1. records = [i \in 1..n |-> records[i]]
    <3>1. records = [i \in DOMAIN records |-> records[i]]
      BY DEF records, BlockRecords
    <3> QED BY <1>1, <3>1
  <2>2. Len(records) = n
    BY <1>1, <2>1
  <2> QED BY <2>2 DEF Last
<1>7. ASSUME NEW inst \in Instructions
      PROVE  At(Last(records).instructions, inst, 0) = ExecutedByKernel(inst)'
  <2>1. At(Last(records).instructions, inst, 0) = SumFunction(ExecutionsOf(inst))
    BY <1>1, <1>3, <1>6
  <2>2. SumFunction(ExecutionsOf(inst)) = ExecutedByKernel(inst)
    <3>1. KeysStable
      BY DEF KeysStable, SameHeard
    <3> QED BY <3>1 DEF FiguresRight, InstructionsExact
  <2>3. ExecutedByKernel(inst)' = ExecutedByKernel(inst)
    BY SameExecutions
  <2> QED BY <2>1, <2>2, <2>3
<1> QED BY <1>4, <1>5, <1>7

\* What report writes.
LEMMA ReportRight ==
    ASSUME TablesRight, report
    PROVE  TablesRight' /\ ReportRightSoFar'
<1>0. /\ BlockTypes /\ FiguresRight /\ UnitsHaveWaves /\ UnitsRight
      /\ UNCHANGED <<pads, kdb, clock, path, handled, wave_states_, block_info_, compute_resources_>>
  BY DEF TablesRight, report, handlerVars
<1>1. SameVisits /\ SameHeard
  <2>1. SameVisits /\ \A w \in Wave : HeardAt(w)' = HeardAt(w)
    BY <1>0, NothingHandled
  <2> QED BY <1>0, <2>1 DEF SameHeard
<1>2. TablesRight'
  <2>1. FiguresRight'
    BY <1>0, <1>1, FiguresKept
  <2>2. BlockTypes' /\ PathsFollowKernel'
    BY <1>0 DEF TablesRight, BlockTypes, PathsFollowKernel, Sent
  <2>3. UnitsHaveWaves' /\ UnitsRight'
    BY <1>0 DEF UnitsHaveWaves, UnitsRight, At
  <2> QED BY <2>1, <2>2, <2>3 DEF TablesRight
<1>3. CASE kdb # "no_database"
  <2>1. PICK order \in SetToSeqs(DOMAIN block_info_) :
          reported' = [called |-> TRUE, wellformed |-> compute_resources_ # <<>>,
                       resources |-> renderComputeResources, blocks |-> BlockRecords(order)]
    BY <1>3 DEF report
  <2>2. CountsReported'
    <3> SUFFICES ASSUME KeysStable', NEW i \in DOMAIN BlockRecords(order)
                 PROVE  /\ BlockRecords(order)[i].kernel.block_exec_count = Cardinality(Closed)'
                        /\ BlockRecords(order)[i].kernel.thread_exec_count = LanesOf(Closed)'
      BY <2>1 DEF CountsReported
    <3>1. /\ BlockRecords(order)[i].kernel.block_exec_count = Total("count_")
          /\ BlockRecords(order)[i].kernel.thread_exec_count = Total("thread_count_")
      BY DEF BlockRecords
    <3>2. Total("count_") = Cardinality(Closed) /\ Total("thread_count_") = LanesOf(Closed)
      BY <1>0 DEF FiguresRight, TotalsExact, KeysStable
    <3>3. Cardinality(Closed)' = Cardinality(Closed) /\ LanesOf(Closed)' = LanesOf(Closed)
      BY <1>1, SameFigures DEF SameVisits
    <3> QED BY <3>1, <3>2, <3>3
  <2>3. UnitsReported'
    BY <1>0, <1>3, <2>1, UnitsRendered DEF UnitsReported
  <2>4. LastRecordCountsKernel'
    BY <1>0, <1>1, <2>1, RecordsRight
  <2> QED BY <1>2, <2>2, <2>3, <2>4 DEF ReportRightSoFar
<1>4. CASE kdb = "no_database"
  <2>1. ~ KeysStable'
    BY <1>0, <1>4 DEF KeysStable
  <2> QED BY <1>0, <1>2, <1>4, <2>1 DEF CountsReported, UnitsReported, LastRecordCountsKernel,
                                        ReportRightSoFar
<1> QED BY <1>3, <1>4

-----------------------------------------------------------------------------
(* A message is handled.                                                   *)

\* Wave w's next message, of the kernel, is looked up with padding pad.
Handles(w, pad) ==
    /\ w \in Wave /\ pad \in pads /\ handled[w] < Sent(w)
    /\ handled' = [handled EXCEPT ![w] = @ + 1] /\ handleBlock(w, pad)
    /\ UNCHANGED <<pads, kdb, clock, path, reported>>

\* The visit a message closes is charged once and for the time it took.
LEMMA ChargedFacts ==
    ASSUME BlockTypes, NEW state \in WaveState, NEW msg \in Message,
           block_info_' = Charged(block_info_, state, msg)
    PROVE  LET b == state.current_block_
               old == At(block_info_, b, NoInfo)
               new == [thread_count_ |-> old.thread_count_ + msg.exec, count_ |-> old.count_ + 1,
                       duration_ |-> old.duration_ + (msg.timestamp - state.start_time_)]
           IN  /\ b \in Block /\ old \in BlockInfo /\ new \in BlockInfo
               /\ block_info_' = Put(block_info_, b, new)
<1> DEFINE b == state.current_block_
           old == At(block_info_, b, NoInfo)
<1>1. b \in Block /\ state.count_ = 1 /\ state.start_time_ \in Nat
  BY DEF WaveState
<1>2. msg.timestamp \in Nat /\ msg.exec \in Nat
  BY LanesBounds DEF Message
<1>3. old \in BlockInfo
  <2>1. NoInfo \in BlockInfo
    BY DEF NoInfo, BlockInfo
  <2>2. b \in DOMAIN block_info_ => block_info_[b] \in BlockInfo
    BY DEF BlockTypes
  <2> QED BY <2>1, <2>2 DEF At
<1>4. old.thread_count_ \in Int /\ old.count_ \in Int /\ old.duration_ \in Int
  BY <1>3 DEF BlockInfo
<1> HIDE DEF old
<1>5. [thread_count_ |-> old.thread_count_ + msg.exec, count_ |-> old.count_ + 1,
       duration_ |-> old.duration_ + (msg.timestamp - state.start_time_)] \in BlockInfo
  BY <1>1, <1>2, <1>4 DEF BlockInfo
<1> QED BY <1>1, <1>3, <1>5 DEF Charged, old

\* The state a wave is left in.
LEMMA OpenedFacts ==
    ASSUME NEW msg \in Message
    PROVE  [current_block_ |-> msg.block, start_time_ |-> msg.timestamp, count_ |-> 1] \in WaveState
BY DEF Message, WaveState

\* A wave state stored is a wave state.
LEMMA PutType ==
    ASSUME NEW f, NEW k, NEW v \in WaveState, f \in [DOMAIN f -> WaveState]
    PROVE  Put(f, k, v) \in [DOMAIN Put(f, k, v) -> WaveState]
BY DEF Put

\* Figures stored are figures.
LEMMA PutInfoType ==
    ASSUME NEW f, NEW k, NEW v \in BlockInfo, f \in [DOMAIN f -> BlockInfo]
    PROVE  Put(f, k, v) \in [DOMAIN Put(f, k, v) -> BlockInfo]
BY DEF Put

\* What is left after erasing are wave states.
LEMMA EraseType ==
    ASSUME NEW f, NEW k, f \in [DOMAIN f -> WaveState]
    PROVE  Erase(f, k) \in [DOMAIN Erase(f, k) -> WaveState]
BY DEF Erase, Restrict

\* The tables keep their types, whatever the padding is.
LEMMA HandledTypes ==
    ASSUME BlockTypes, NEW w, NEW pad, Handles(w, pad)
    PROVE  BlockTypes'
<1> DEFINE msg == path[w][handled[w] + 1]
           key == <<w, pad>>
<1>1. /\ w \in Wave /\ pad \in pads /\ handled[w] < Sent(w) /\ handleBlock(w, pad) /\ path' = path
      /\ handled' = [handled EXCEPT ![w] = @ + 1] /\ UNCHANGED <<pads, kdb, clock>>
  BY DEF Handles
<1>2. msg \in Message
  BY <1>1, NextHeard
<1>3. handled' \in [Wave -> Nat] /\ \A x \in Wave : handled'[x] <= Sent(x)
  BY <1>1 DEF BlockTypes, Sent
<1>4. DOMAIN block_info_' \subseteq Block /\ block_info_' \in [DOMAIN block_info_' -> BlockInfo]
  <2>1. CASE block_info_' = block_info_
    BY <2>1 DEF BlockTypes, BlockInfo
  <2>2. CASE key \in DOMAIN wave_states_ /\ block_info_' = Charged(block_info_, wave_states_[key], msg)
    <3>1. wave_states_[key] \in WaveState
      BY <2>2 DEF BlockTypes
    <3>2. PICK b \in Block, new \in BlockInfo : block_info_' = Put(block_info_, b, new)
      BY <1>2, <2>2, <3>1, ChargedFacts
    <3>3. block_info_ \in [DOMAIN block_info_ -> BlockInfo] /\ DOMAIN block_info_ \subseteq Block
      BY DEF BlockTypes
    <3>4. Put(block_info_, b, new) \in [DOMAIN Put(block_info_, b, new) -> BlockInfo]
      BY <3>3, PutInfoType
    <3>5. DOMAIN Put(block_info_, b, new) = DOMAIN block_info_ \cup {b}
      BY PutFacts
    <3> QED BY <3>2, <3>3, <3>4, <3>5
  <2> QED BY <1>1, <2>1, <2>2 DEF handleBlock
<1>5. DOMAIN wave_states_' \subseteq Wave \X pads /\ wave_states_' \in [DOMAIN wave_states_' -> WaveState]
  <2> DEFINE opened == [current_block_ |-> msg.block, start_time_ |-> msg.timestamp, count_ |-> 1]
  <2>0. opened \in WaveState /\ key \in Wave \X pads
    BY <1>1, <1>2, OpenedFacts
  <2>1. DOMAIN wave_states_ \subseteq Wave \X pads /\ wave_states_ \in [DOMAIN wave_states_ -> WaveState]
    BY DEF BlockTypes
  <2>2. \/ wave_states_' = wave_states_ \/ wave_states_' = Put(wave_states_, key, opened)
        \/ wave_states_' = Erase(wave_states_, key)
    BY <1>1 DEF handleBlock, Entered
  <2> HIDE DEF opened, key
  <2>3. CASE wave_states_' = wave_states_
    BY <2>1, <2>3
  <2>4. CASE wave_states_' = Put(wave_states_, key, opened)
    <3>1. Put(wave_states_, key, opened) \in [DOMAIN Put(wave_states_, key, opened) -> WaveState]
      BY <2>0, <2>1, PutType
    <3>2. DOMAIN Put(wave_states_, key, opened) = DOMAIN wave_states_ \cup {key}
      BY PutFacts
    <3> QED BY <2>0, <2>1, <2>4, <3>1, <3>2
  <2>5. CASE wave_states_' = Erase(wave_states_, key)
    BY <2>1, <2>5, EraseType, EraseFacts
  <2> QED BY <2>2, <2>3, <2>4, <2>5
<1> QED BY <1>1, <1>3, <1>4, <1>5 DEF BlockTypes, Sent

\* A set of numbers up to k has a greatest one.
LEMMA GreatestElement ==
    ASSUME NEW k \in Nat, NEW S \in SUBSET (1..k), S # {}
    PROVE  \E n \in S : \A m \in S : m <= n
<1> DEFINE T == {n \in Nat : \E x \in S : n = k - x}
<1>1. PICK z \in S : z \in 1..k
  OBVIOUS
<1>2. T \in SUBSET Nat /\ k - z \in T
  BY <1>1
<1>3. PICK n \in T : \A m \in T : n <= m
  <2> HIDE DEF T
  <2>1. T # {}
    BY <1>2
  <2> QED BY <1>2, <2>1, LeastElement
<1>4. PICK x \in S : n = k - x
  BY <1>3
<1>5. ASSUME NEW y \in S PROVE y <= x
  <2>1. x \in 1..k /\ y \in 1..k
    OBVIOUS
  <2>2. k - y \in T
    BY <2>1
  <2> HIDE DEF T
  <2>3. n <= k - y
    BY <1>3, <2>2
  <2> QED BY <1>4, <2>1, <2>3
<1> QED BY <1>5

\* A wave without a state that goes on has not been heard of: after an exit
\* block nothing comes.
LEMMA UnknownIsNew ==
    ASSUME BlockTypes, PathsFollowKernel, StatesOfLiveWaves, KeysStable, NEW w \in Wave,
           handled[w] < Sent(w), ~ \E k \in DOMAIN wave_states_ : k[1] = w
    PROVE  HeardAt(w) = {}
<1> SUFFICES ASSUME HeardAt(w) # {} PROVE FALSE
  OBVIOUS
<1>1. handled[w] \in Nat /\ HeardAt(w) \in SUBSET (1..handled[w]) /\ Len(path[w]) \in Nat
  BY HeardFacts DEF HeardAt
<1>2. PICK n \in HeardAt(w) : \A m \in HeardAt(w) : m <= n
  BY <1>1, GreatestElement
<1>3. path[w][n].block \in Exits
  BY <1>2 DEF StatesOfLiveWaves
<1>4. path[w][n].block \in Block /\ Succ[path[w][n].block] = {}
  BY <1>3, BlockAssumption DEF Exits, BlockAssumption
<1>5. n \in 1..(Sent(w) - 1)
  BY <1>1, <1>2 DEF Sent
<1>6. path[w][n + 1].block \in Succ[path[w][n].block]
  BY <1>5 DEF PathsFollowKernel
<1> QED BY <1>4, <1>6

\* The states of the other waves are still those of their last messages.
LEMMA OthersCurrent ==
    ASSUME StatesCurrent, StatesOfLiveWaves, KeysStable, NEW w \in Wave, NEW n, Hears(w, n)
    PROVE  /\ \A k \in DOMAIN wave_states_ : k[1] \in Wave \ {w} =>
                 \E m \in HeardAt(k[1])' :
                     /\ \A x \in HeardAt(k[1])' : x <= m
                     /\ wave_states_[k].current_block_ = path'[k[1]][m].block
                     /\ wave_states_[k].start_time_ = path'[k[1]][m].timestamp
           /\ \A x \in Wave \ {w} :
                 (\E k \in DOMAIN wave_states_ : k[1] = x)
                 <=> \E m \in HeardAt(x)' : /\ \A y \in HeardAt(x)' : y <= m
                                            /\ HeardAt(x)' = {m} \/ path'[x][m].block \notin Exits
<1>1. path' = path /\ \A x \in Wave \ {w} : HeardAt(x)' = HeardAt(x)
  BY DEF Hears
<1>2. ASSUME NEW k \in DOMAIN wave_states_, k[1] \in Wave \ {w}
      PROVE  \E m \in HeardAt(k[1])' :
                     /\ \A x \in HeardAt(k[1])' : x <= m
                     /\ wave_states_[k].current_block_ = path'[k[1]][m].block
                     /\ wave_states_[k].start_time_ = path'[k[1]][m].timestamp
  BY <1>1, <1>2 DEF StatesCurrent
<1>3. ASSUME NEW x \in Wave \ {w}
      PROVE  (\E k \in DOMAIN wave_states_ : k[1] = x)
             <=> \E m \in HeardAt(x)' : /\ \A y \in HeardAt(x)' : y <= m
                                        /\ HeardAt(x)' = {m} \/ path'[x][m].block \notin Exits
  BY <1>1 DEF StatesOfLiveWaves
<1> QED BY <1>2, <1>3

\* The state of a wave whose last message is msg.
Opened(msg) == [current_block_ |-> msg.block, start_time_ |-> msg.timestamp, count_ |-> 1]

\* The wave's new state: that of the message, or none if the message is the
\* start of an exit block and was not the first.
LEMMA StatesAfter ==
    ASSUME BlockTypes, BlockTypes', StatesCurrent, StatesOfLiveWaves, KeysStable, KeysStable',
           NEW w \in Wave, NEW n, Hears(w, n), Insts[path[w][n].block] # <<>>,
           NEW pad \in Paddings, pads = {pad},
           \/ /\ wave_states_' = Put(wave_states_, <<w, pad>>, Opened(path[w][n]))
              /\ HeardAt(w) = {} \/ path[w][n].block \notin Exits
           \/ /\ wave_states_' = Erase(wave_states_, <<w, pad>>)
              /\ HeardAt(w) # {} /\ path[w][n].block \in Exits
    PROVE  StatesCurrent' /\ StatesOfLiveWaves'
<1> DEFINE key == <<w, pad>>
           opened == Opened(path[w][n])
<1>1. /\ n \in Nat /\ path' = path /\ HeardAt(w)' = HeardAt(w) \cup {n}
      /\ \A m \in HeardAt(w) : m < n
  BY DEF Hears
<1>2. \A x \in HeardAt(w)' : x <= n /\ n \in HeardAt(w)'
  <2>1. \A m \in HeardAt(w) : m \in Nat
    BY HeardFacts
  <2> QED BY <1>1, <2>1
<1>3. \A k \in DOMAIN wave_states_ : k[1] \in Wave /\ (k # key => k[1] # w)
  BY DEF BlockTypes
<1>4. /\ \A k \in DOMAIN wave_states_ : k # key => k \in DOMAIN wave_states_' /\ wave_states_'[k] = wave_states_[k]
      /\ \A k \in DOMAIN wave_states_' : k # key => k \in DOMAIN wave_states_
  <2>1. wave_states_' = Put(wave_states_, key, opened) \/ wave_states_' = Erase(wave_states_, key)
    OBVIOUS
  <2> HIDE DEF key, opened
  <2>2. CASE wave_states_' = Put(wave_states_, key, opened)
    BY <2>2 DEF Put
  <2>3. CASE wave_states_' = Erase(wave_states_, key)
    BY <2>3 DEF Erase, Restrict
  <2> QED BY <2>1, <2>2, <2>3
<1>5. key[1] = w
  OBVIOUS
<1>6. CASE /\ wave_states_' = Put(wave_states_, key, opened)
           /\ HeardAt(w) = {} \/ path[w][n].block \notin Exits
  <2>1. key \in DOMAIN wave_states_' /\ wave_states_'[key] = opened
    <3> HIDE DEF key, opened
    <3> QED BY <1>6 DEF Put
  <2>2. opened.current_block_ = path[w][n].block /\ opened.start_time_ = path[w][n].timestamp
    BY DEF Opened
  <2> HIDE DEF key, opened
  <2>3. ASSUME NEW k \in DOMAIN wave_states_'
        PROVE  \E m \in HeardAt(k[1])' :
                  /\ \A x \in HeardAt(k[1])' : x <= m
                  /\ wave_states_'[k].current_block_ = path'[k[1]][m].block
                  /\ wave_states_'[k].start_time_ = path'[k[1]][m].timestamp
    <3>1. CASE k = key
      BY <1>1, <1>2, <1>5, <2>1, <2>2, <3>1
    <3>2. CASE k # key
      <4>1. k \in DOMAIN wave_states_ /\ k[1] \in Wave \ {w} /\ wave_states_'[k] = wave_states_[k]
        BY <1>3, <1>4, <3>2
      <4> QED BY <4>1, OthersCurrent, SMTT(20)
    <3> QED BY <3>1, <3>2
  <2>4. StatesCurrent'
    BY <2>3 DEF StatesCurrent
  <2>5. ASSUME NEW x \in Wave
        PROVE  (\E k \in DOMAIN wave_states_' : k[1] = x)
               <=> \E m \in HeardAt(x)' : /\ \A y \in HeardAt(x)' : y <= m
                                          /\ HeardAt(x)' = {m} \/ path'[x][m].block \notin Exits
    <3>1. CASE x = w
      <4>1. \E k \in DOMAIN wave_states_' : k[1] = x
        BY <1>5, <2>1, <3>1
      <4>2. HeardAt(w)' = {n} \/ path'[w][n].block \notin Exits
        BY <1>1, <1>6
      <4>3. \E m \in HeardAt(x)' : /\ \A y \in HeardAt(x)' : y <= m
                                   /\ HeardAt(x)' = {m} \/ path'[x][m].block \notin Exits
        BY <1>1, <1>2, <3>1, <4>2
      <4> QED BY <4>1, <4>3
    <3>2. CASE x # w
      <4>1. (\E k \in DOMAIN wave_states_' : k[1] = x) <=> (\E k \in DOMAIN wave_states_ : k[1] = x)
        BY <1>4, <1>5, <3>2
      <4> QED BY <3>2, <4>1, OthersCurrent
    <3> QED BY <3>1, <3>2
  <2>6. StatesOfLiveWaves'
    BY <2>5 DEF StatesOfLiveWaves, Exits
  <2> QED BY <2>4, <2>6
<1>7. CASE /\ wave_states_' = Erase(wave_states_, key)
           /\ HeardAt(w) # {} /\ path[w][n].block \in Exits
  <2>1. key \notin DOMAIN wave_states_'
    <3> HIDE DEF key, opened
    <3> QED BY <1>7 DEF Erase, Restrict
  <2> HIDE DEF key, opened
  <2>3. ASSUME NEW k \in DOMAIN wave_states_'
        PROVE  \E m \in HeardAt(k[1])' :
                  /\ \A x \in HeardAt(k[1])' : x <= m
                  /\ wave_states_'[k].current_block_ = path'[k[1]][m].block
                  /\ wave_states_'[k].start_time_ = path'[k[1]][m].timestamp
    <3>1. k \in DOMAIN wave_states_ /\ k[1] \in Wave \ {w} /\ wave_states_'[k] = wave_states_[k]
      BY <1>3, <1>4, <2>1
    <3> QED BY <3>1, OthersCurrent, SMTT(20)
  <2>4. StatesCurrent'
    BY <2>3 DEF StatesCurrent
  <2>5. ASSUME NEW x \in Wave
        PROVE  (\E k \in DOMAIN wave_states_' : k[1] = x)
               <=> \E m \in HeardAt(x)' : /\ \A y \in HeardAt(x)' : y <= m
                                          /\ HeardAt(x)' = {m} \/ path'[x][m].block \notin Exits
    <3>1. CASE x = w
      <4>1. ~ \E k \in DOMAIN wave_states_' : k[1] = x
        BY <1>3, <1>4, <2>1, <3>1
      <4>2. ASSUME NEW m \in HeardAt(w)', \A y \in HeardAt(w)' : y <= m
            PROVE  HeardAt(w)' # {m} /\ path'[w][m].block \in Exits
        <5>1. \A y \in HeardAt(w) : y \in Nat
          BY HeardFacts
        <5>3. m \in Nat /\ n \in HeardAt(w)' /\ m <= n /\ n <= m
          BY <1>1, <1>2, <4>2, <5>1
        <5>2. m = n
          BY <1>1, <5>3
        <5> QED BY <1>1, <1>7, <5>1, <5>2
      <4> QED BY <3>1, <4>1, <4>2
    <3>2. CASE x # w
      <4>1. (\E k \in DOMAIN wave_states_' : k[1] = x) <=> (\E k \in DOMAIN wave_states_ : k[1] = x)
        BY <1>4, <1>5, <2>1, <3>2
      <4> QED BY <3>2, <4>1, OthersCurrent
    <3> QED BY <3>1, <3>2
  <2>6. StatesOfLiveWaves'
    BY <2>5 DEF StatesOfLiveWaves, Exits
  <2> QED BY <2>4, <2>6
<1> QED BY <1>6, <1>7

\* One more visit with its lanes keeps the average between the bounds.
LEMMA RangeGrows ==
    ASSUME NEW a \in Nat, NEW z \in Nat, NEW c \in Int, NEW t \in a * c .. z * c,
           NEW e \in Nat, a <= e, e <= z
    PROVE  t + e \in a * (c + 1) .. z * (c + 1)
<1>1. a * (c + 1) = a * c + a /\ z * (c + 1) = z * c + z
  OBVIOUS
<1>2. a * c \in Int /\ z * c \in Int
  OBVIOUS
<1> DEFINE x == a * c
           y == z * c
<1>3. x \in Int /\ y \in Int /\ t \in x .. y
  BY <1>2
<1> HIDE DEF x, y
<1>4. t + e \in (x + a) .. (y + z)
  BY <1>3
<1> QED BY <1>1, <1>4 DEF x, y

\* The figures when the message closes the visit that message m opened.
LEMMA VisitCharged ==
    ASSUME BlockTypes, TotalsExact, InstructionsExact, BlockTimesExact, LanesInRange,
           KeysStable, KeysStable',
           NEW w \in Wave, NEW n, Hears(w, n), Insts[path[w][n].block] # <<>>,
           path[w][n] \in Message, NEW m \in HeardAt(w), \A x \in HeardAt(w) : x <= m,
           NEW state \in WaveState, state.current_block_ = path[w][m].block,
           state.start_time_ = path[w][m].timestamp,
           block_info_' = Charged(block_info_, state, path[w][n])
    PROVE  TotalsExact' /\ InstructionsExact' /\ BlockTimesExact' /\ LanesInRange'
<1> DEFINE v0 == <<w, m>>
           msg == path[w][n]
           b == state.current_block_
           old == At(block_info_, b, NoInfo)
           new == [thread_count_ |-> old.thread_count_ + msg.exec, count_ |-> old.count_ + 1,
                   duration_ |-> old.duration_ + (msg.timestamp - state.start_time_)]
<1>1. /\ b \in Block /\ old \in BlockInfo /\ new \in BlockInfo
      /\ block_info_' = Put(block_info_, b, new)
  BY ChargedFacts
<1>2. /\ v0 \notin Closed /\ Closed' = Closed \cup {v0}
      /\ \A v \in Closed : Visit(v)' = Visit(v) /\ Closing(v)' = Closing(v)
      /\ Visit(v0)' = path[w][m] /\ Closing(v0)' = msg
  BY OneClosed
<1>3. path[w][m] \in Message /\ msg \in Message
  BY HeardFacts
<1>4. old.thread_count_ \in Int /\ old.count_ \in Int /\ old.duration_ \in Int
  BY <1>1 DEF BlockInfo
<1>5. msg.exec \in Nat /\ Min(Lanes) <= msg.exec /\ msg.exec <= Max(Lanes)
      /\ msg.timestamp \in Nat /\ state.start_time_ \in Nat
  BY <1>3, LanesBounds DEF Message, WaveState
<1>6. /\ new.thread_count_ = old.thread_count_ + msg.exec /\ new.count_ = old.count_ + 1
      /\ new.duration_ = old.duration_ + (msg.timestamp - state.start_time_)
  OBVIOUS
<1> HIDE DEF v0, msg, old, new
<1>7. /\ Cardinality(Closed)' = Cardinality(Closed) + 1
      /\ LanesOf(Closed)' = LanesOf(Closed) + msg.exec
      /\ Cardinality(ClosedIn(b))' = Cardinality(ClosedIn(b)) + 1
      /\ TimeOf(ClosedIn(b))' = TimeOf(ClosedIn(b)) + (msg.timestamp - state.start_time_)
      /\ \A c : c # b => ClosedIn(c)' = ClosedIn(c) /\ TimeOf(ClosedIn(c))' = TimeOf(ClosedIn(c))
  <2>1. b = Visit(v0).block' /\ Visit(v0)' \in Message /\ Closing(v0)' \in Message
    BY <1>2, <1>3
  <2>2. Closing(v0).exec' = msg.exec /\ Closing(v0).timestamp' = msg.timestamp
        /\ Visit(v0).timestamp' = state.start_time_
    BY <1>2
  <2> HIDE DEF b
  <2> QED BY <1>2, <2>1, <2>2, FiguresOfClosed
<1>8. TotalsExact'
  <2>1. /\ Total("count_")' = Total("count_") + (new.count_ - old.count_)
        /\ Total("thread_count_")' = Total("thread_count_") + (new.thread_count_ - old.thread_count_)
        /\ Total("count_") \in Int /\ Total("thread_count_") \in Int
    BY <1>1, TotalPut DEF old
  <2>2. Total("count_") = Cardinality(Closed) /\ Total("thread_count_") = LanesOf(Closed)
    BY DEF TotalsExact
  <2>3. Total("count_")' = Total("count_") + 1 /\ Total("thread_count_")' = Total("thread_count_") + msg.exec
    BY <1>4, <1>5, <1>6, <2>1
  <2> QED BY <1>7, <2>2, <2>3 DEF TotalsExact
<1>9. /\ DOMAIN block_info_' = DOMAIN block_info_ \cup {b} /\ block_info_'[b] = new
      /\ \A c \in DOMAIN block_info_ : c # b => block_info_'[c] = block_info_[c]
  <2> HIDE DEF b
  <2> QED BY <1>1 DEF Put
<1>10. BlockTimesExact'
  <2>1. ASSUME NEW c \in Block
        PROVE  /\ At(block_info_, c, NoInfo)'.count_ = Cardinality(ClosedIn(c))'
               /\ At(block_info_, c, NoInfo)'.duration_ = TimeOf(ClosedIn(c))'
    <3>0. /\ At(block_info_, c, NoInfo).count_ = Cardinality(ClosedIn(c))
          /\ At(block_info_, c, NoInfo).duration_ = TimeOf(ClosedIn(c))
      BY DEF BlockTimesExact
    <3>1. CASE c = b
      <4>1. At(block_info_, c, NoInfo)' = new /\ At(block_info_, c, NoInfo) = old
        BY <1>9, <3>1 DEF At, old
      <4> QED BY <1>6, <1>7, <3>0, <3>1, <4>1
    <3>2. CASE c # b
      <4>1. At(block_info_, c, NoInfo)' = At(block_info_, c, NoInfo)
        BY <1>9, <3>2 DEF At, NoInfo
      <4> QED BY <1>7, <3>0, <3>2, <4>1
    <3> QED BY <3>1, <3>2
  <2> QED BY <2>1 DEF BlockTimesExact
<1>11. LanesInRange'
  <2>1. ASSUME NEW c \in DOMAIN block_info_'
        PROVE  block_info_'[c].thread_count_ \in
                  Min(Lanes) * block_info_'[c].count_ .. Max(Lanes) * block_info_'[c].count_
    <3>1. CASE c # b
      BY <1>9, <3>1 DEF LanesInRange
    <3>2. CASE c = b
      <4>1. old.thread_count_ \in Min(Lanes) * old.count_ .. Max(Lanes) * old.count_
        <5>1. CASE b \in DOMAIN block_info_
          BY <5>1 DEF LanesInRange, old, At
        <5>2. CASE b \notin DOMAIN block_info_
          <6>1. old.thread_count_ = 0 /\ old.count_ = 0
            BY <5>2 DEF old, At, NoInfo
          <6>2. Min(Lanes) * 0 = 0 /\ Max(Lanes) * 0 = 0
            BY LanesBounds
          <6> QED BY <6>1, <6>2
        <5> QED BY <5>1, <5>2
      <4>2. new.thread_count_ \in Min(Lanes) * (old.count_ + 1) .. Max(Lanes) * (old.count_ + 1)
        BY <1>4, <1>5, <1>6, <4>1, LanesBounds, RangeGrows, SMTT(20)
      <4> QED BY <1>6, <1>9, <3>2, <4>2
    <3> QED BY <3>1, <3>2
  <2> QED BY <2>1 DEF LanesInRange
<1>12. InstructionsExact'
  <2>1. ASSUME NEW inst
        PROVE  ExecutedByKernel(inst)' = ExecutedByKernel(inst)
                  + Occurrences(path[w][m].block, inst) * (IF inst \in Vector THEN msg.exec ELSE 1)
    BY <1>2, <1>3, ExecutedMore
  <2>2. ASSUME NEW inst
        PROVE  SumFunction(ExecutionsOf(inst))' = SumFunction(ExecutionsOf(inst))
                  + Occurrences(b, inst) * (IF inst \in Vector THEN msg.exec ELSE 1)
    <3> HIDE DEF b
    <3>1. msg.exec \in Int
      BY <1>5
    <3> QED BY <1>1, <1>6, <3>1, ExecutionsPut DEF old
  <2> QED BY <2>1, <2>2 DEF InstructionsExact, Instructions
<1> QED BY <1>8, <1>10, <1>11, <1>12

\* With keys that compare equal the figures stay exact.
LEMMA FiguresHandled ==
    ASSUME BlockTypes, BlockTypes', PathsFollowKernel, FiguresRight, NEW w, NEW pad, Handles(w, pad)
    PROVE  FiguresRight'
<1> DEFINE n == handled[w] + 1
           msg == path[w][n]
           key == <<w, pad>>
<1>1. /\ w \in Wave /\ pad \in pads /\ handled[w] < Sent(w) /\ handleBlock(w, pad) /\ path' = path
      /\ handled' = [handled EXCEPT ![w] = @ + 1] /\ UNCHANGED <<pads, kdb>>
  BY DEF Handles
<1>2. Hears(w, n) /\ msg \in Message
  BY <1>1, NextHeard
<1>3. KeysStable' <=> KeysStable
  BY <1>1 DEF KeysStable
<1>4. CASE ~ KeysStable
  BY <1>3, <1>4 DEF FiguresRight, StatesCurrent, TotalsExact, InstructionsExact,
                    StatesOfLiveWaves, BlockTimesExact, LanesInRange
<1>5. CASE KeysStable
  <2>0. pad \in Paddings /\ pads = {pad}
    BY <1>1, <1>5 DEF KeysStable
  <2>1. /\ StatesCurrent /\ TotalsExact /\ InstructionsExact
        /\ StatesOfLiveWaves /\ BlockTimesExact /\ LanesInRange
    BY DEF FiguresRight
  <2> HIDE DEF n
  <2>2. CASE Insts[msg.block] = <<>>
    <3>1. UNCHANGED <<block_info_, wave_states_>>
      BY <1>1, <2>2 DEF handleBlock, n
    <3>2. SameVisits
      BY <1>1, <1>2, <2>2, NothingClosed
    <3>3. SameHeard
      BY <1>1, <1>2, <2>2, <3>1 DEF SameHeard, Hears
    <3> QED BY <3>2, <3>3, FiguresKept
  <2>3. CASE Insts[msg.block] # <<>> /\ key \notin DOMAIN wave_states_
    <3>1. block_info_' = block_info_ /\ wave_states_' = Put(wave_states_, key, Opened(msg))
      BY <1>1, <2>3 DEF handleBlock, n, Opened
    <3>2. HeardAt(w) = {}
      <4>1. ~ \E k \in DOMAIN wave_states_ : k[1] = w
        <5>1. ASSUME NEW k \in DOMAIN wave_states_ PROVE k \in Wave \X {pad}
          BY <2>0 DEF BlockTypes
        <5>2. ASSUME NEW k \in DOMAIN wave_states_, k[1] = w PROVE k = key
          BY <5>1, <5>2
        <5> HIDE DEF key
        <5> QED BY <2>3, <5>2
      <4> QED BY <1>1, <1>5, <2>1, <4>1, UnknownIsNew
    <3>3. SameVisits
      BY <1>1, <1>2, <3>2, NothingClosed
    <3>4. StatesCurrent' /\ StatesOfLiveWaves'
      BY <1>1, <1>2, <1>3, <1>5, <2>0, <2>1, <2>3, <3>1, <3>2, StatesAfter
    <3>5. /\ \A b : ClosedIn(b)' = ClosedIn(b) /\ TimeOf(ClosedIn(b))' = TimeOf(ClosedIn(b))
          /\ LanesOf(Closed)' = LanesOf(Closed) /\ Closed' = Closed
      BY <3>3, SameFigures DEF SameVisits
    <3>6. TotalsExact'
      <4>1. Total("count_")' = Total("count_") /\ Total("thread_count_")' = Total("thread_count_")
        BY <3>1 DEF Total
      <4> QED BY <1>3, <2>1, <3>5, <4>1 DEF TotalsExact
    <3>7. BlockTimesExact' /\ LanesInRange'
      BY <1>3, <2>1, <3>1, <3>5 DEF BlockTimesExact, LanesInRange
    <3>8. InstructionsExact'
      <4>1. \A inst : SumFunction(ExecutionsOf(inst))' = SumFunction(ExecutionsOf(inst))
        BY <3>1 DEF ExecutionsOf, Executions, Occurrences
      <4>2. \A inst : ExecutedByKernel(inst)' = ExecutedByKernel(inst)
        BY <3>3, SameExecutions
      <4> QED BY <1>3, <2>1, <4>1, <4>2 DEF InstructionsExact, Instructions
    <3> QED BY <3>4, <3>6, <3>7, <3>8 DEF FiguresRight
  <2>4. CASE Insts[msg.block] # <<>> /\ key \in DOMAIN wave_states_
    <3>1. /\ block_info_' = Charged(block_info_, wave_states_[key], msg)
          /\ wave_states_' = Entered(wave_states_, key, msg)
      BY <1>1, <2>4 DEF handleBlock, n
    <3>2. PICK m \in HeardAt(w) : /\ \A x \in HeardAt(w) : x <= m
                                  /\ wave_states_[key].current_block_ = path[w][m].block
                                  /\ wave_states_[key].start_time_ = path[w][m].timestamp
      BY <1>5, <2>1, <2>4 DEF StatesCurrent
    <3>3. wave_states_[key] \in WaveState
      BY <2>4 DEF BlockTypes
    <3>4. TotalsExact' /\ InstructionsExact' /\ BlockTimesExact' /\ LanesInRange'
      BY <1>1, <1>2, <1>3, <1>5, <2>1, <2>4, <3>1, <3>2, <3>3, VisitCharged
    <3>5. \/ /\ wave_states_' = Put(wave_states_, key, Opened(msg)) /\ msg.block \notin Exits
          \/ /\ wave_states_' = Erase(wave_states_, key) /\ msg.block \in Exits
      BY <3>1 DEF Entered, Opened
    <3>6. HeardAt(w) # {}
      BY <3>2
    <3>7. StatesCurrent' /\ StatesOfLiveWaves'
      BY <1>1, <1>2, <1>3, <1>5, <2>0, <2>1, <2>4, <3>5, <3>6, StatesAfter
    <3> QED BY <3>4, <3>7 DEF FiguresRight
  <2> QED BY <2>2, <2>3, <2>4
<1> QED BY <1>4, <1>5

\* Handling a message, whatever it closes, keeps the tables right.
LEMMA HandleRight ==
    ASSUME TablesRight, NEW w \in Wave, handle(w)
    PROVE  TablesRight' /\ reported' = NotYet
<1>0. BlockTypes /\ PathsFollowKernel /\ UnitsHaveWaves /\ UnitsRight /\ FiguresRight
  BY DEF TablesRight
<1>1. /\ reported' = NotYet /\ handled[w] < Sent(w) /\ handled' = [handled EXCEPT ![w] = @ + 1]
      /\ UNCHANGED <<pads, kdb, clock, path, reported>>
  BY DEF handle
<1>2. PathsFollowKernel'
  BY <1>0, <1>1 DEF PathsFollowKernel, Sent
<1>3. CASE kdb = "kernel"
  <2>1. updateComputeResources(w) /\ \E pad \in pads : handleBlock(w, pad)
    BY <1>3 DEF handle
  <2>2. PICK pad \in pads : handleBlock(w, pad)
    BY <2>1
  <2>3. Handles(w, pad)
    BY <1>1, <2>2 DEF Handles
  <2>4. BlockTypes'
    BY <1>0, <2>3, HandledTypes
  <2>5. FiguresRight'
    BY <1>0, <2>3, <2>4, FiguresHandled
  <2>6. UnitsHaveWaves' /\ UnitsRight'
    BY <1>0, <1>1, <1>3, <2>1, UnitUpdated
  <2> QED BY <1>1, <1>2, <2>4, <2>5, <2>6 DEF TablesRight
<1>4. CASE kdb # "kernel"
  <2>1. UNCHANGED <<wave_states_, block_info_>>
    BY <1>4 DEF handle, handlerVars
  <2>2. BlockTypes'
    <3>1. handled' \in [Wave -> Nat] /\ \A x \in Wave : handled'[x] <= Sent(x)
      BY <1>0, <1>1 DEF BlockTypes, Sent
    <3> QED BY <1>0, <1>1, <2>1, <3>1 DEF BlockTypes, Sent
  <2>3. ~ KeysStable'
    BY <1>1, <1>4 DEF KeysStable
  <2>4. FiguresRight'
    BY <2>3 DEF FiguresRight, StatesCurrent, TotalsExact, InstructionsExact,
                StatesOfLiveWaves, BlockTimesExact, LanesInRange
  <2>5. UnitsHaveWaves' /\ UnitsRight'
    <3>1. CASE kdb = "no_kernel"
      <4>1. updateComputeResources(w)
        BY <3>1 DEF handle
      <4> QED BY <1>0, <1>1, <3>1, <4>1, UnitUpdated
    <3>2. CASE kdb = "no_database"
      <4>1. compute_resources_' = compute_resources_
        BY <3>2 DEF handle, handlerVars
      <4> QED BY <1>0, <1>1, <3>2, <4>1 DEF UnitsHaveWaves, UnitsRight
    <3> QED BY <1>0, <1>4, <3>1, <3>2 DEF BlockTypes
  <2> QED BY <1>1, <1>2, <2>2, <2>4, <2>5 DEF TablesRight
<1> QED BY <1>3, <1>4

-----------------------------------------------------------------------------
(* The theorems.                                                           *)

\* Every step of waves and handler keeps the invariant.
THEOREM BlocksInductive == ASSUME BlocksInv, [Next]_vars PROVE BlocksInv'
<1>0. TablesRight /\ ReportRightSoFar
  BY InvariantInParts
<1>1. ASSUME NEW w \in Wave, s_submit_wave_header(w) PROVE BlocksInv'
  <2>1. TablesRight' /\ reported' = NotYet
    BY <1>0, <1>1, SubmitRight
  <2>2. ReportRightSoFar'
    BY <2>1, NothingReportedNext
  <2> QED BY <2>1, <2>2, InvariantInParts, PTL
<1>2. ASSUME NEW w \in Wave, handle(w) PROVE BlocksInv'
  <2>1. TablesRight' /\ reported' = NotYet
    BY <1>0, <1>2, HandleRight
  <2>2. ReportRightSoFar'
    BY <2>1, NothingReportedNext
  <2> QED BY <2>1, <2>2, InvariantInParts, PTL
<1>3. CASE report
  <2>1. TablesRight' /\ ReportRightSoFar'
    BY <1>0, <1>3, ReportRight
  <2> QED BY <2>1, InvariantInParts, PTL
<1>4. CASE UNCHANGED vars
  <2>1. UNCHANGED <<pads, kdb, clock, path, handled, wave_states_, block_info_, compute_resources_, reported>>
    BY <1>4 DEF vars, handlerVars
  <2>2. BlockTypes /\ FiguresRight /\ UnitsHaveWaves /\ UnitsRight
    BY <1>0 DEF TablesRight
  <2>3. SameVisits /\ \A w \in Wave : HeardAt(w)' = HeardAt(w)
    BY <2>1, <2>2, NothingHandled
  <2>4. SameHeard
    BY <2>1, <2>3 DEF SameHeard
  <2>5. FiguresRight'
    BY <2>2, <2>3, <2>4, FiguresKept
  <2>6. BlockTypes' /\ PathsFollowKernel'
    BY <1>0, <2>1 DEF TablesRight, BlockTypes, PathsFollowKernel, Sent
  <2>7. UnitsHaveWaves' /\ UnitsRight' /\ UnitsReported'
    BY <1>0, <2>1, <2>2 DEF UnitsHaveWaves, UnitsRight, UnitsReported, ReportRightSoFar, At
  <2>8. Cardinality(Closed)' = Cardinality(Closed) /\ LanesOf(Closed)' = LanesOf(Closed)
    BY <2>3, SameFigures DEF SameVisits
  <2>9. CountsReported'
    BY <1>0, <2>1, <2>8 DEF CountsReported, KeysStable, ReportRightSoFar
  <2>10. LastRecordCountsKernel'
    <3>1. \A inst : ExecutedByKernel(inst)' = ExecutedByKernel(inst)
      BY <2>3, SameExecutions
    <3> QED BY <1>0, <2>1, <3>1 DEF LastRecordCountsKernel, KeysStable, Instructions, At, ReportRightSoFar
  <2>11. TablesRight' /\ ReportRightSoFar'
    BY <2>5, <2>6, <2>7, <2>9, <2>10 DEF TablesRight, ReportRightSoFar
  <2> QED BY <2>11, InvariantInParts, PTL
<1> QED BY <1>1, <1>2, <1>3, <1>4 DEF Next

\* In every run, for any number of waves, blocks and paddings, the tables
\* and the report are right (basic_block_analysis::handle and report).
THEOREM BlocksInvariance == Spec => []BlocksInv
BY InitRight, BlocksInductive, PTL DEF Spec

\* What the figures rest on (wave_states_, compute_resources_).
THEOREM TablesSupported == Spec => []BlocksSupport
<1>1. BlocksInv => BlocksSupport
  BY DEF BlocksInv
<1> QED BY <1>1, BlocksInvariance, PTL

\* A block is charged exactly its closed visits and their time, however the
\* messages of any number of waves are interleaved, as long as keys compare
\* equal (the charge in basic_block_analysis::handle).
THEOREM TimesAlwaysExact == Spec => []BlockTimesExact
<1>1. BlocksInv => BlockTimesExact
  BY DEF BlocksInv
<1> QED BY <1>1, BlocksInvariance, PTL

\* A wave's state lives exactly as long as the wave (the erase at s_endpgm).
THEOREM OnlyLiveWavesKept == Spec => []StatesOfLiveWaves
<1>1. BlocksInv => StatesOfLiveWaves
  BY DEF BlocksInv
<1> QED BY <1>1, BlocksInvariance, PTL

\* Every wave is on its unit, and the report of units is well-formed with
\* averages above zero (updateComputeResources, renderComputeResources).
THEOREM UnitsAlwaysRight == Spec => []WavesOnUnits
<1>1. BlocksInv => WavesOnUnits
  BY DEF BlocksInv
<1> QED BY <1>1, BlocksInvariance, PTL

\* The lanes of a block are within the bounds of one message times its
\* visits, and the kernel's totals are those of all closed visits (report).
THEOREM BranchinessAlwaysInRange == Spec => []BranchinessInRange
<1>1. BlocksInv => BranchinessInRange
  BY DEF BlocksInv
<1> QED BY <1>1, BlocksInvariance, PTL

\* Whatever the order of the blocks, report shows each once, and its last record
\* has the executions of every instruction in all closed visits, a vector
\* instruction by active lane (inst_counts of basic_block_analysis::report).
THEOREM LastRecordAlwaysExact == Spec => []LastRecordCountsKernel
<1>1. BlocksInv => LastRecordCountsKernel
  BY DEF BlocksInv
<1> QED BY <1>1, BlocksInvariance, PTL
=============================================================================
