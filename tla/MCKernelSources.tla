--------------------------- MODULE MCKernelSources ---------------------------
(***************************************************************************)
(* A cache with the directory of an old kernel, that of a new one and a    *)
(* file of its own; and a small file system: the application, a chain of   *)
(* libraries head, mid, tail, two libraries two directories down, one of   *)
(* them loaded, and a text file.                                           *)
(***************************************************************************)
EXTENDS KernelSources, TLC

CONSTANTS d1, d2, old, new, top
MCHomeOf == (old :> d1) @@ (new :> d2) @@ (top :> Root)

App == <<"/", "app">>
Head1 == <<"/", "lib", "head">>
Mid == <<"/", "lib", "mid">>
Tail1 == <<"/", "lib", "tail">>
Blas == <<"/", "opt", "rocblas", "blas">>
Tensile == <<"/", "opt", "rocblas", "tensile">>
Text == <<"/", "lib", "text">>

MCPaths == {App, Head1, Mid, Tail1, Blas, Tensile, Text}
MCElf == MCPaths \ {Text}
MCLoaded == {App, Blas}
MCNeeded == [p \in MCPaths |-> CASE p = Head1 -> {Mid, Text}
                                 [] p = Mid -> {Tail1}
                                 [] OTHER -> {}]

\* /lib/head, /lib/*, **/rocblas/**
MCPatterns == {Head1, <<"/", "lib", "*">>, <<"**", "rocblas", "**">>}
=============================================================================
