------------------------------ MODULE MCJsonLog ------------------------------
(***************************************************************************)
(* Sessions without instrumentation, with one analyzer of each kind, with  *)
(* two whose libraries may be loaded in either order, with the same library*)
(* twice, with an unknown name, and with a library that is not there. One  *)
(* GPU has usable pools among others, one has none.                        *)
(***************************************************************************)
EXTENDS JsonLog

Line(instrumented, analyzers, t, l) ==
    [instrumented |-> instrumented, analyzers |-> analyzers, log_format |-> t, log_location |-> l]
MCCommandLines ==
    {Line(FALSE, <<"MemoryAnalysis">>, "json", "path"),
     Line(TRUE, <<"Heatmap">>, "xml", "path"),
     Line(TRUE, <<"Heatmap", "missing.so">>, "csv", "directory"),
     Line(TRUE, <<"typo">>, "", "unmakeable"),
     Line(TRUE, <<"MemoryAnalysis">>, "json", "path"),
     Line(TRUE, <<"MemoryAnalysis", "Heatmap">>, "json", "path"),
     Line(TRUE, <<"BasicBlockAnalysis">>, "csv", "path"),
     Line(TRUE, <<"AddressLogger", "libLogMessages64.so">>, "json", "path")}

Pool(segment, alloc_allowed, coarse) ==
    [segment |-> segment, alloc_allowed |-> alloc_allowed, coarse |-> coarse]
MCPools ==
    [a \in Agents |->
        IF a = "gpu" THEN <<Pool("global", TRUE, FALSE), Pool("global", TRUE, TRUE), Pool("group", FALSE, FALSE)>>
        ELSE <<Pool("global", FALSE, TRUE)>>]

\* Two addresses on different pages and one page's last, two intervals of
\* which the first starts late.
MCMessages ==
    {[kind |-> "address", space |-> "global", items |-> <<1, 2>>],
     [kind |-> "address", space |-> "flat", items |-> <<3>>],
     [kind |-> "time_interval", space |-> "",
      items |-> <<[start |-> 2, stop |-> 7], [start |-> 1, stop |-> 4]>>],
     [kind |-> "header", space |-> "", items |-> << >>]}
=============================================================================
