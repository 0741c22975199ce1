---------------------------- MODULE MCKernelCache ----------------------------
(***************************************************************************)
(* Small instances of KernelCache: kernel k with its clone c in the        *)
(* application's file A, a newer build of both in the cached file W, and a *)
(* clone in the excluded file E. The loader cannot locate k.               *)
(***************************************************************************)
EXTENDS KernelCache, TLC

CONSTANTS k1, c1, k2, c2, ce

MCSymbols == {k1, c1, k2, c2, ce}
MCName == k1 :> "k" @@ c1 :> "c" @@ k2 :> "k" @@ c2 :> "c" @@ ce :> "c"
MCFile == k1 :> "A" @@ c1 :> "A" @@ k2 :> "W" @@ c2 :> "W" @@ ce :> "E"
MCInstrumentedName == "k" :> "c" @@ "c" :> "cc"
MCAppSymbols == {k1, c1, ce}
MCWatchedFiles == {<<k2, c2>>}
MCLocated == MCSymbols \ {k1}
MCExcluded == {"E"}
MCStartSymbols == [cache \in BOOLEAN |-> {ce}]

\* No filter, and one that matches nothing.
MCFilters == {{"k", "c"}, {}}

ThreadSymmetry == Permutations(Threads)
=============================================================================
