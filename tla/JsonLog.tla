------------------------------- MODULE JsonLog -------------------------------
(***************************************************************************)
(* A session of the omniprobe script around the application: main and      *)
(* setup_env make the environment, the application runs with the           *)
(* interceptor and its CommsManager loaded, its dispatches write to the    *)
(* log as they go and as they complete, and finalize_json_output closes    *)
(* the JSON array when the application has ended.                          *)
(***************************************************************************)
EXTENDS CommsManager

CONSTANTS
    CommandLines,   \* what is given to --instrumented, --analyzers,
                    \* --log-format and --log-location
    Fresh           \* may the log file be new (TRUE), be there (FALSE)?

ASSUME JsonLogAssumption == Fresh \subseteq BOOLEAN

VARIABLES
    handlers,       \* LOGDUR_HANDLERS, the libraries the script asks for
    written,        \* dispatches whose memory analysis reached the file, in
                    \* this order
    fresh           \* was the file empty when the session began?

scriptVars == <<handlers, fresh>>
vars == <<sessionVars, log, commsVars, dispatchVars, scriptVars, written>>

EarlierLog == Token("open", 0) \o Token("object", 0) \o Token("close", 0)

\* The log may hold the finished array of an earlier session.
Init ==
    /\ CommsInit
    /\ LOGDUR_INSTRUMENTED = ""
    /\ log_format = ""
    /\ location = ""
    /\ handlers = << >>
    /\ written = << >>
    /\ fresh \in Fresh
    /\ log = IF fresh THEN << >> ELSE EarlierLog
    /\ state = "setup"

\* load_config_files: the analyzers of analytics.py and their libraries.
analytics_config ==
    [name \in {"AddressLogger", "BasicBlockLogger", "Heatmap", "MemoryAnalysis", "BasicBlockAnalysis"} |->
        CASE name \in {"AddressLogger", "BasicBlockLogger"} -> "libLogMessages64.so"
          [] name = "Heatmap" -> "libdefaultMessageHandlers64.so"
          [] name = "MemoryAnalysis" -> "libMemAnalysis64.so"
          [] name = "BasicBlockAnalysis" -> "libBasicBlocks64.so"]

\* main: a name becomes its library, a path to a library stays, anything else
\* is ignored.
LibrariesOf(analyzers) ==
    LET IsLib(a) == a \in Exporting \cup {"missing.so"}
        valid == SelectSeq(analyzers, LAMBDA a : a \in DOMAIN analytics_config \/ IsLib(a))
    IN  [i \in DOMAIN valid |-> IF IsLib(valid[i]) THEN valid[i] ELSE analytics_config[valid[i]]]

\* setup_env: what --log-format and --log-location come to. An unknown format
\* is csv; a directory, and a parent that cannot be made, is the console.
LogFormat(t) == CASE t = "" -> "" [] t \in {"json", "csv"} -> t [] OTHER -> "csv"
LogLocation(l) == IF l \in {"", "console", "directory", "unmakeable"}
                  THEN "console" ELSE "file"

setup_env(parms) ==
    /\ state = "setup"
    /\ handlers' = LibrariesOf(parms.analyzers)
    /\ LOGDUR_INSTRUMENTED' = IF parms.instrumented THEN "true" ELSE ""
    /\ log_format' = LogFormat(parms.log_format)
    /\ location' = LogLocation(parms.log_location)
    /\ state' = "loading"
    /\ UNCHANGED <<log, commsVars, dispatchVars, fresh, written>>

\* The application completes a dispatch; written follows report_json.
Checkin(d, n, flushed) ==
    /\ checkinCommsObject(d, n, flushed)
    /\ written' = IF location = "file" /\ json /\ flushed
                     /\ \E i \in 1..n : objects[d].handlers[i].type = "memory_analysis"
                  THEN Append(written, d) ELSE written
    /\ UNCHANGED scriptVars

\* capture_subprocess_output returns when the application has ended, with
\* what was still open then unreported.
ApplicationEnds ==
    /\ state \in {"loading", "running"}
    /\ state' = "ended"
    /\ UNCHANGED <<environment, log, commsVars, dispatchVars, scriptVars, written>>

\* Ctrl+C: the application is terminated and the script exits.
KeyboardInterrupt ==
    /\ state \in {"loading", "running"}
    /\ state' = "interrupted"
    /\ UNCHANGED <<environment, log, commsVars, dispatchVars, scriptVars, written>>

\* finalize_json_output on the text of the file.
Closed(text) ==
    CASE text = << >> -> text
      [] text # << >> /\ Head(text).kind = "open" -> text \o Token("close", 0)
      [] text # << >> /\ Head(text).kind \in {"object", "record"}
            /\ Last(text).kind # "close" -> Token("open", 0) \o text \o Token("close", 0)
      [] OTHER -> text

\* Only for a session with the memory analysis.
finalize_json_output ==
    /\ state = "ended"
    /\ log' = IF location = "file" /\ Contains(handlers, "libMemAnalysis64.so")
                 /\ log_format = "json" THEN Closed(log) ELSE log
    /\ state' = "finalized"
    /\ UNCHANGED <<environment, commsVars, dispatchVars, scriptVars, written>>

Next ==
    \/ \E parms \in CommandLines : setup_env(parms)
    \/ Load(handlers) /\ UNCHANGED <<scriptVars, written>>
    \/ CommsNext /\ UNCHANGED <<scriptVars, written>>
    \/ \E d \in DOMAIN objects, flushed \in BOOLEAN :
          \E n \in 0..Len(objects[d].handlers) : Checkin(d, n, flushed)
    \/ ApplicationEnds
    \/ KeyboardInterrupt
    \/ finalize_json_output

Spec == Init /\ [][Next]_vars

-----------------------------------------------------------------------------
(* Properties.                                                             *)

\* A JSON array of reports: "open" report "comma" ... "comma" report "close".
IsArray(text) ==
    /\ Len(text) % 2 = 1 /\ Len(text) >= 3
    /\ Head(text).kind = "open" /\ Last(text).kind = "close"
    /\ \A i \in 2..(Len(text) - 1) :
          IF i % 2 = 0 THEN text[i].kind \in {"object", "record"} ELSE text[i].kind = "comma"

\* finalize_json_output "complete[s] the JSON array": the log file of a
\* memory analysis, if it is not empty, is one array of reports.
FinalizedIsArray ==
    /\ state = "finalized" /\ location = "file" /\ log_format = "json"
    /\ run_instrumented_ /\ handlers = <<"libMemAnalysis64.so">> /\ log # << >>
    => IsArray(log)

\* What it takes: the log did not exist, the memory analysis is the only
\* analyzer, and the first report to be written through is that of dispatch 1
\* (report_json opens the array for it alone). Later dispatches may then
\* complete in any order, and some without report.
ArrayIfFirst == fresh /\ written # << >> /\ written[1] = 1 => FinalizedIsArray

\* Whatever the analyzers, the order in which kernels complete and however
\* the session ends, each memory analysis that was written through is in the
\* log once, and no other is (report_json appends, finalize_json_output
\* rewrites); without instrumentation the log of a session in a file has one
\* line for each dispatch that has completed.
EveryReportOnce ==
    \A id \in 1..dispatch_count_ :
        LET Places(kind) == {i \in DOMAIN log : log[i] = Token(kind, id)[1]}
        IN  /\ Cardinality(Places("object")) = IF id \in Range(written) THEN 1 ELSE 0
            /\ ~run_instrumented_ /\ location = "file" =>
                  Cardinality(Places("text")) = IF id \in timed THEN 0 ELSE 1
=============================================================================
