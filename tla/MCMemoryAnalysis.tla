--------------------------- MODULE MCMemoryAnalysis ---------------------------
(***************************************************************************)
(* Small instances of MemoryAnalysis: masks whose lanes fall into one and  *)
(* two phases, addresses on shared and on different banks, a               *)
(* position with a wider ISA instruction, one combined away, one unknown,  *)
(* one in another file.                                                    *)
(***************************************************************************)
EXTENDS MemoryAnalysis

MCPositions == {"narrow", "wide", "combined", "unknown", "elsewhere"}
MCIsa == [p \in MCPositions |->
             CASE p = "narrow" -> [fname |-> "f", access_size |-> 4]
               [] p = "wide" -> [fname |-> "f", access_size |-> 16]
               [] p = "combined" -> [fname |-> "", access_size |-> Combined]
               [] p = "unknown" -> [fname |-> "", access_size |-> Unmatched]
               [] p = "elsewhere" -> [fname |-> "g", access_size |-> 4]]
MCHash == [p \in MCPositions |-> IF p = "elsewhere" THEN 2 ELSE 1]

\* LDS: dwords 0, 1, 32 and 64, on banks 0, 1, 0 and 0; 32 is not a size the
\* handler has conflict sets for. Global memory: within and across lines.
MCInputs == [mspace \in {"global", "shared", "flat"} |->
    CASE mspace = "shared" -> [masks |-> {{0, 17, 20}, {16, 40}},
                               addresses |-> {0, 4, 128, 256},
                               sizes |-> {2, 8, 16, 32}, positions |-> {"narrow"}]
      [] mspace = "global" -> [masks |-> {{0, 1}}, addresses |-> {0, 2, 12, 16},
                               sizes |-> {4}, positions |-> MCPositions]
      [] mspace = "flat" -> [masks |-> {{0}}, addresses |-> {0},
                             sizes |-> {4}, positions |-> {"narrow"}]]
=============================================================================
