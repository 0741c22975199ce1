---------------------------- MODULE LibraryFilter ----------------------------
(***************************************************************************)
(* Which files the constructor of hsaInterceptor hands to addFile when no  *)
(* kernel cache is given: the executable and its shared libraries, what    *)
(* the library filter includes, with or without dependencies, less what it *)
(* excludes (src/src/library_filter.cc).                                   *)
(*                                                                         *)
(* A path is the sequence of its components, "/" first if it is absolute,  *)
(* and so is a pattern, which may have "*" and "**" among them: the globs  *)
(* the documentation promises (docs/usage.md:259). A file has one path:    *)
(* the one it is named by in a pattern and the realpath it is resolved to  *)
(* as a dependency are taken to be the same, so there are no symbolic      *)
(* links. The parsing of the JSON file is left out but for its failure.    *)
(***************************************************************************)
EXTENDS Naturals, Sequences

CONSTANTS
    Paths,          \* the files that exist
    Elf,            \* the ELF files among them
    needed,         \* path |-> its DT_NEEDED entries, as resolved
    Loaded,         \* the executable and the libraries loaded at startup
    Patterns        \* patterns a filter file can have

Component == STRING

ASSUME FilterAssumption ==
    /\ Elf \subseteq Paths /\ Loaded \subseteq Paths
    /\ DOMAIN needed = Paths
    /\ \A p \in Paths : needed[p] \subseteq Paths
    /\ Paths \subseteq Seq(Component) /\ Patterns \subseteq Seq(Component)
    /\ \A p \in Paths : \A i \in 2..Len(p) : p[i] # "/"

VARIABLES
    active_,
    includePatterns_,
    includeWithDepsPatterns_,
    excludeRegexes_,
    files,          \* what the loop of the constructor has still to look at
    added,          \* what it has handed to addFile
    parsed,         \* did the filter file parse?
    stage

filterVars == <<active_, includePatterns_, includeWithDepsPatterns_, excludeRegexes_,
                files, added, parsed, stage>>

FilterInit ==
    /\ active_ = FALSE
    /\ includePatterns_ = {} /\ includeWithDepsPatterns_ = {} /\ excludeRegexes_ = {}
    /\ files = {} /\ added = {}
    /\ parsed = TRUE
    /\ stage = "load"

-----------------------------------------------------------------------------
(* Matching. cut[i] is where the match of the i-th component ends.         *)

\* The regular expression of globToRegex: "**" is ".*", which matches "/".
RegexMatch(pattern, path) ==
    \E cut \in [0..Len(pattern) -> 0..Len(path)] :
        /\ cut[0] = 0 /\ cut[Len(pattern)] = Len(path)
        /\ \A i \in 1..Len(pattern) :
              IF pattern[i] = "**" THEN cut[i] > cut[i - 1]
              ELSE /\ cut[i] = cut[i - 1] + 1
                   /\ pattern[i] \in {"*", path[cut[i]]}

\* glob(3) (external): "**" is no more than "*", and neither stands for the
\* root an absolute path begins with.
GlobMatch(pattern, path) ==
    /\ Len(pattern) = Len(path)
    /\ \A i \in 1..Len(path) :
          pattern[i] = path[i] \/ (pattern[i] \in {"*", "**"} /\ path[i] # "/")

isExcluded(path) == active_ /\ \E p \in excludeRegexes_ : RegexMatch(p, path)

\* expandGlob and isValidElf.
expandGlob(patterns) == {f \in Elf : \E p \in patterns : GlobMatch(p, f)}

getIncludedFiles == expandGlob(includePatterns_)

\* The DT_NEEDED entries that resolve to ELF files.
getElfDependencies(path) == needed[path] \cap Elf

\* Variant: an excluded library is not asked for its dependencies.
DepsOfKept ==
    LET named == {f \in expandGlob(includeWithDepsPatterns_) : ~isExcluded(f)}
    IN  named \cup UNION {getElfDependencies(f) : f \in named}

getIncludedFilesWithDeps ==
    LET named == expandGlob(includeWithDepsPatterns_)
    IN  named \cup UNION {getElfDependencies(f) : f \in named}

-----------------------------------------------------------------------------

\* Which of the arrays of the filter file, read in this order, does not parse.
Bad == {"none", "include", "include_with_deps", "exclude"}

\* Variant: the filter is active although part of it could not be read.
LoadActive(inc, deps, exc, bad) ==
    /\ stage = "load"
    /\ includePatterns_' = IF bad = "include" THEN {} ELSE inc
    /\ includeWithDepsPatterns_' = IF bad \in {"include", "include_with_deps"}
                                   THEN {} ELSE deps
    /\ excludeRegexes_' = IF bad # "none" THEN {} ELSE exc
    /\ active_' = (bad # "include")
    /\ parsed' = (bad = "none")
    /\ stage' = "collect"
    /\ UNCHANGED <<files, added>>

\* loadConfig: an array that does not parse ends it, with what was read before
\* in place and the filter inactive.
loadConfig(inc, deps, exc, bad) ==
    /\ stage = "load"
    /\ includePatterns_' = IF bad = "include" THEN {} ELSE inc
    /\ includeWithDepsPatterns_' = IF bad \in {"include", "include_with_deps"}
                                   THEN {} ELSE deps
    /\ excludeRegexes_' = IF bad # "none" THEN {} ELSE exc
    /\ active_' = (bad = "none")
    /\ parsed' = (bad = "none")
    /\ stage' = "collect"
    /\ UNCHANGED <<files, added>>

\* The constructor's list of files.
CollectFiles ==
    /\ stage = "collect"
    /\ files' = Loaded \cup IF active_ THEN getIncludedFiles \cup getIncludedFilesWithDeps
                            ELSE {}
    /\ stage' = "add"
    /\ UNCHANGED <<active_, includePatterns_, includeWithDepsPatterns_,
                   excludeRegexes_, added, parsed>>

\* One turn of the constructor's loop.
AddFile(f) ==
    /\ stage = "add"
    /\ f \in files
    /\ files' = files \ {f}
    /\ added' = IF isExcluded(f) THEN added ELSE added \cup {f}
    /\ UNCHANGED <<active_, includePatterns_, includeWithDepsPatterns_,
                   excludeRegexes_, parsed, stage>>

FilterNext ==
    \/ \E inc, deps, exc \in SUBSET Patterns, bad \in Bad :
          loadConfig(inc, deps, exc, bad)
    \/ CollectFiles
    \/ \E f \in Paths : AddFile(f)

-----------------------------------------------------------------------------
(* Properties.                                                             *)

Done == stage = "add" /\ files = {}

\* What a pattern means (docs/usage.md:259, "glob patterns with `*` and `**`";
\* globToRegex, "** matches anything including /"), in whatever list it is.
Names(pattern, f) == RegexMatch(pattern, f)

\* The files in S and what they need to be loaded, directly or not: the least
\* set of ELF files that has its own dependencies.
WithDependencies(S) ==
    {f \in Paths : \A T \in SUBSET Paths :
        S \subseteq T /\ (\A g \in T : getElfDependencies(g) \subseteq T) => f \in T}

Excepted(f) == \E p \in excludeRegexes_ : Names(p, f)

NamedBy(patterns) == {f \in Elf : \E p \in patterns : Names(p, f)}

\* Absolute patterns without "**", on which the two matchers are to agree.
Simple(patterns) == {p \in patterns : p # <<>> /\ p[1] = "/" /\ \A i \in 1..Len(p) : p[i] # "**"}

\* The filter does what its lists say, with one meaning of the patterns for
\* glob(3), which expands the included ones, and for the regular expressions
\* that exclude. Nothing is added but the application's own libraries, what is
\* named and what that depends on, and no file that is excepted; and what is
\* loaded or named by a simple pattern is added unless it is excepted itself,
\* a direct dependency also when the library that needs it is excepted
\* (the constructor's loop, getIncludedFiles, getIncludedFilesWithDeps).
FilterRespected ==
    Done /\ active_ =>
        LET named == NamedBy(Simple(includePatterns_ \cup includeWithDepsPatterns_))
            direct == UNION {getElfDependencies(g) : g \in NamedBy(Simple(includeWithDepsPatterns_))}
        IN  /\ added \subseteq Loaded \cup NamedBy(includePatterns_)
                                \cup WithDependencies(NamedBy(includeWithDepsPatterns_))
            /\ \A f \in Loaded \cup named \cup direct : f \in added <=> ~Excepted(f)

\* A filter file that cannot be parsed is no filter, whatever was read before
\* the error: exactly the files loaded at startup are added (loadConfig).
BadFilterIgnored == Done /\ ~parsed => added = Loaded

-----------------------------------------------------------------------------
(* The inductive invariant.                                                *)

\* Nothing is read, collected or added before its time, and what is active
\* has been parsed to its end.
InOrder ==
    /\ stage \in {"load", "collect", "add"} /\ active_ \in BOOLEAN /\ parsed \in BOOLEAN
    /\ stage # "add" => files = {} /\ added = {}
    /\ stage = "load" => parsed /\ ~active_
    /\ stage # "load" => (active_ <=> parsed)
    /\ includePatterns_ \cup includeWithDepsPatterns_ \cup excludeRegexes_ \subseteq Patterns

\* The files the constructor looks at under the filter it has loaded.
Selected == Loaded \cup IF active_ THEN getIncludedFiles \cup getIncludedFilesWithDeps ELSE {}

\* At every turn of the constructor's loop exactly the selected files that it
\* has looked at and that are not excluded have been added, in whatever order
\* it comes to them and whether a pattern or a dependency selects them.
FilterInv ==
    /\ InOrder
    /\ stage = "add" => files \subseteq Selected /\ added = {f \in Selected \ files : ~isExcluded(f)}
=============================================================================
