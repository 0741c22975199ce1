------------------------------ MODULE Handlers ------------------------------
(***************************************************************************)
(* The message handlers a dispatch can have, as values: what one starts    *)
(* with, what it does with a message, and what it writes to the log.       *)
(* memory_heatmap_t, time_interval_handler_t and message_logger_t are      *)
(* complete; of memory_analysis_handler_t and basic_block_analysis, which  *)
(* have modules of their own, this one has the messages they take and what *)
(* they write.                                                             *)
(*                                                                         *)
(* A message has a kind, the space of its addresses ("flat" stands for all *)
(* the memory analysis has no tables for, GPU and size included), and its  *)
(* data items.  The log is a sequence of tokens: "open", "comma" and       *)
(* "close" for the punctuation of a JSON array, "object" for the report of *)
(* a dispatch's memory analysis, "record" for other JSON objects, one      *)
(* after the other, "text" for lines that are not JSON.                    *)
(***************************************************************************)
EXTENDS Integers, Sequences, FiniteSets, SequencesExt

CONSTANTS
    page_size,      \* of the heatmap
    UINT64_MAX      \* largest time

ASSUME HandlersAssumption ==
    page_size \in Nat \ {0} /\ UINT64_MAX \in Nat

\* The messages of each kind: addresses, intervals of time, the header alone.
Interval == [start : 0..UINT64_MAX, stop : 0..UINT64_MAX]
Message ==
    [kind : {"address"}, space : STRING, items : Seq(Nat)]
    \cup [kind : {"time_interval"}, space : STRING, items : Seq(Interval)]
    \cup [kind : {"header"}, space : STRING, items : {<< >>}]

EmptyMap == [x \in {} |-> 0]
At(f, k, default) == IF k \in DOMAIN f THEN f[k] ELSE default
Put(f, k, v) == [x \in DOMAIN f \cup {k} |-> IF x = k THEN v ELSE f[x]]

-----------------------------------------------------------------------------
(* Construction.                                                           *)

time_interval_handler_t ==
    [type |-> "time_interval", first_start_ |-> UINT64_MAX, last_stop_ |-> 0,
     total_time_ |-> 0, no_intervals_ |-> 0]

memory_heatmap_t == [type |-> "heatmap", page_counts_ |-> EmptyMap]
message_logger_t == [type |-> "logger"]
memory_analysis_handler_t == [type |-> "memory_analysis"]

\* kdb: is it given a kernelDB, and does that have the kernel?
basic_block_analysis(kdb) == [type |-> "basic_block", kdb |-> kdb]

-----------------------------------------------------------------------------
(* handle: does the handler take the message, and what of it does it keep? *)

Takes(h, m) ==
    CASE h.type = "heatmap" -> m.kind = "address"
      [] h.type = "time_interval" -> m.kind = "time_interval"
      [] h.type = "logger" -> TRUE
      [] h.type = "memory_analysis" -> m.kind = "address" /\ m.space \in {"global", "shared"}
      [] h.type = "basic_block" -> h.kdb # "no_kernel"

\* The lowest address of a page.
Page(address) == (address \div page_size) * page_size

CountPage(h, address) ==
    [h EXCEPT !.page_counts_ = Put(@, Page(address), At(@, Page(address), 0) + 1)]

AddInterval(h, ti) ==
    [h EXCEPT !.first_start_ = IF ti.start < @ THEN ti.start ELSE @,
              !.last_stop_ = IF ti.stop > @ THEN ti.stop ELSE @,
              !.total_time_ = (@ + (ti.stop - ti.start)) % (UINT64_MAX + 1),
              !.no_intervals_ = @ + 1]

\* One data item after the other.
Kept(h, m) ==
    LET counted[n \in 0..Len(m.items)] ==
            IF n = 0 THEN h ELSE CountPage(counted[n - 1], m.items[n])
        added[n \in 0..Len(m.items)] ==
            IF n = 0 THEN h ELSE AddInterval(added[n - 1], m.items[n])
    IN  CASE h.type = "heatmap" -> counted[Len(m.items)]
          [] h.type = "time_interval" -> added[Len(m.items)]
          [] OTHER -> h

-----------------------------------------------------------------------------
(* What is written, as tokens of dispatch id; json is the log format.      *)

Token(kind, id) == <<[kind |-> kind, id |-> id]>>

\* The logger writes its header line when it is constructed.
WrittenFirst(h, id, json) ==
    IF h.type = "logger" /\ ~json THEN Token("text", id) ELSE << >>

\* Of the handlers only the logger writes as messages come: an address also
\* as a line of values unless the format is JSON, an interval not at all.
WrittenOn(h, m, id, json) ==
    CASE h.type = "logger" /\ m.kind = "address" /\ ~json -> Token("text", id) \o Token("record", id)
      [] h.type = "logger" /\ m.kind = "address" /\ json -> Token("record", id)
      [] h.type = "logger" /\ m.kind = "header" -> Token("record", id)
      [] OTHER -> << >>

\* Variant: every report starts an array.
OpenAlways(id) == Token("open", 0)

\* What report_json puts before its object: only dispatch 1 opens the array.
Opening(id) == Token(IF id = 1 THEN "open" ELSE "comma", 0)

\* report() of each. A heatmap or intervals of no message write nothing, and
\* intervals have no JSON form.
HeatmapReport(h, id, json) ==
    IF h.page_counts_ = EmptyMap THEN << >>
    ELSE Token(IF json THEN "record" ELSE "text", id)

IntervalReport(h, id, json) ==
    IF h.no_intervals_ = 0 \/ json THEN << >> ELSE Token("text", id)

\* The memory analysis of another format than JSON goes to the console
\* wherever the log is; report_json's stream is never closed, so a short text
\* may stay in its buffer (flushed).
AnalysisReport(id, json, flushed) ==
    IF json /\ flushed THEN Opening(id) \o Token("object", id) ELSE << >>

\* The compute resources come first and are JSON in every format, the figures
\* of the blocks only in JSON's.
BlockReport(h, id, json) ==
    CASE h.kdb = "no_database" -> << >>
      [] h.kdb # "no_database" /\ json -> Token("record", id)
      [] OTHER -> Token("record", id) \o Token("text", id)

WrittenLast(h, id, json, flushed) ==
    CASE h.type = "heatmap" -> HeatmapReport(h, id, json)
      [] h.type = "time_interval" -> IntervalReport(h, id, json)
      [] h.type = "memory_analysis" -> AnalysisReport(id, json, flushed)
      [] h.type = "basic_block" -> BlockReport(h, id, json)
      [] OTHER -> << >>

-----------------------------------------------------------------------------
(* References: the figures of a handler, by counting and not by            *)
(* accumulation, from the data items it took.                              *)

\* The data items of those messages of ms that are in took: an item is known
\* by its message and its place in it.
ItemsOf(ms, took) ==
    [x \in UNION {{i} \X (1..Len(ms[i].items)) : i \in took} |-> ms[x[1]].items[x[2]]]

\* Every access is counted on the page whose range holds it.
HeatmapExact(h, items) ==
    /\ \A p \in DOMAIN h.page_counts_ :
          /\ h.page_counts_[p] > 0
          /\ h.page_counts_[p] =
                Cardinality({x \in DOMAIN items : items[x] \in p..(p + page_size - 1)})
    /\ \A p, q \in DOMAIN h.page_counts_ : p < q => p + page_size <= q
    /\ \A x \in DOMAIN items : \E p \in DOMAIN h.page_counts_ :
          items[x] \in p..(p + page_size - 1)

\* The earliest start, the latest stop, and the sum of the durations.
IntervalsExact(h, items) ==
    /\ h.no_intervals_ = Cardinality(DOMAIN items)
    /\ h.total_time_ = SumFunction([x \in DOMAIN items |-> items[x].stop - items[x].start])
                         % (UINT64_MAX + 1)
    /\ h.no_intervals_ > 0 =>
          /\ h.first_start_ \in {items[x].start : x \in DOMAIN items}
          /\ h.last_stop_ \in {items[x].stop : x \in DOMAIN items}
          /\ \A x \in DOMAIN items : /\ h.first_start_ <= items[x].start
                                     /\ items[x].stop <= h.last_stop_

Exact(h, items) ==
    CASE h.type = "heatmap" -> HeatmapExact(h, items)
      [] h.type = "time_interval" -> IntervalsExact(h, items)
      [] OTHER -> TRUE
=============================================================================
