------------------------ MODULE InstrumentationPass ------------------------
(***************************************************************************)
(* The LLVM passes that produce instrumented kernels (src/instrumentation):*)
(* AMDGCNSubmitAddressMessage, AMDGCNSubmitBBStart and                     *)
(* AMDGCNSubmitBBInterval.  Each clones every GPU kernel of a module, adds *)
(* a pointer argument to the clone, and inserts calls that submit messages *)
(* to the host.  The address pass reads an instrumentation scope from the  *)
(* environment.                                                            *)
(*                                                                         *)
(* A file name is a sequence of tokens, so that a suffix of a name need    *)
(* not start at a directory separator.  An instruction is its opcode and   *)
(* its debug location.  A call that a pass inserts has the opcode "submit" *)
(* and also records what it reports; the application's own calls have      *)
(* others.                                                                 *)
(***************************************************************************)
EXTENDS Naturals, FiniteSets, Sequences, SequencesExt

CONSTANTS
    Instruction,   \* what the compiled kernels are made of: [op, loc]
    Definition,    \* scope definitions: [file, specs]
    Passes,        \* which of the three plugins may run
    InputModules,  \* modules to compile: [amdgpu, fns]
    ScopeTexts,    \* INSTRUMENTATION_SCOPE as definitions, <<>> when unset or empty
    ScopeFiles     \* INSTRUMENTATION_SCOPE_FILE: [opens, defs], opens when unset

NoLoc == [file |-> <<>>, line |-> 0]   \* an instruction without a DILocation

\* A basic block has a terminator, and phis come before anything else.
BasicBlock == {block \in Seq(Instruction) :
                  /\ block # <<>> /\ block[Len(block)].op # "phi"
                  /\ \A n \in 2..Len(block) : block[n].op = "phi" => block[n - 1].op = "phi"}

ASSUME PassAssumption ==
    /\ Passes \subseteq {"address", "bbstart", "bbinterval"}
    /\ \A inst \in Instruction : inst.op # "submit" /\ inst.loc.line \in Nat
    /\ \A def \in Definition : def.specs \in Seq(Seq(Nat))
    /\ ScopeTexts \subseteq Seq(Definition)
    /\ \A file \in ScopeFiles : file.opens \in BOOLEAN /\ file.defs \in Seq(Definition)
    /\ \A mod \in InputModules :
          mod.fns \in Seq([cc : {"kernel", "device"}, of : {0}, body : Seq(BasicBlock)])

DeviceLibrary == [cc |-> "device", of |-> 0, body |-> <<>>]

VARIABLES
    input,            \* the pass, the module before it and the two variables
    pc,               \* how far runOnModule has got
    M,                \* the functions of the module
    entries_,         \* InstrumentationScope::entries_
    active_,          \* InstrumentationScope::active_
    GpuKernels,       \* indices in M of the kernels still to be cloned, taken in order
    at,               \* the clone, block and instruction being visited
    LocationCounter,
    ModifiedCodeGen

vars == <<input, pc, M, entries_, active_, GpuKernels, at, LocationCounter, ModifiedCodeGen>>

Inputs == [pass : Passes, mod : InputModules, text : ScopeTexts, file : ScopeFiles]
Function(cc, body) == [cc |-> cc, of |-> 0, body |-> body]

Init ==
    /\ input \in Inputs
    /\ pc = "target"
    /\ M = input.mod.fns
    /\ entries_ = <<>> /\ active_ = FALSE
    /\ GpuKernels = {} /\ at = [fn |-> 0, bb |-> 1, i |-> 1]
    /\ LocationCounter = 0 /\ ModifiedCodeGen = FALSE

-----------------------------------------------------------------------------
(* Target check, device library, scope *)

validateAMDGPUTarget ==
    /\ pc = "target"
    /\ pc' = IF input.mod.amdgpu THEN "link" ELSE "done"
    /\ UNCHANGED <<input, M, entries_, active_, GpuKernels, at, LocationCounter, ModifiedCodeGen>>

\* A missing or unreadable bitcode file ends the pass.
loadAndLinkBitcode ==
    /\ pc = "link"
    /\ \/ pc' = "done" /\ M' = M
       \/ /\ pc' = IF input.pass = "address" THEN "scope" ELSE "collect"
          /\ M' = Append(M, DeviceLibrary)
    /\ UNCHANGED <<input, entries_, active_, GpuKernels, at, LocationCounter, ModifiedCodeGen>>

\* A line spec is N, N:M with N < M, or a syntax error. Line numbers are those
\* of source files, far below 2^32, where strtoul's result would be cut off.
SpecOK(spec) == Len(spec) = 1 \/ (Len(spec) = 2 /\ spec[2] > spec[1])
SpecRange(spec) == <<spec[1], IF Len(spec) = 1 THEN spec[1] + 1 ELSE spec[2]>>

DefinitionsOK(defs) == \A d \in Range(defs) : \A spec \in Range(d.specs) : SpecOK(spec)

Entry(def) ==
    [file_pattern |-> def.file,
     is_full_path |-> def.file # <<>> /\ Head(def.file) = "/",
     ranges |-> {SpecRange(spec) : spec \in Range(def.specs)}]

parseDefinitions(defs) == [n \in 1..Len(defs) |-> Entry(defs[n])]

\* Blank lines and comments have been dropped from defs.
parseFileOK == input.file.opens /\ DefinitionsOK(input.file.defs)

\* A syntax error or an unreadable file disables the whole scope.
InstrumentationScope ==
    /\ pc = "scope"
    /\ LET ok == DefinitionsOK(input.text) /\ parseFileOK
       IN  entries_' = IF ok THEN parseDefinitions(input.text) \o parseDefinitions(input.file.defs)
                             ELSE <<>>
    /\ active_' = (entries_' # <<>>)
    /\ pc' = "collect"
    /\ UNCHANGED <<input, M, GpuKernels, at, LocationCounter, ModifiedCodeGen>>

\* Variant: the end of a range taken as part of it.
InRangeClosed(line, r) == r[1] <= line /\ line <= r[2]

InRange(line, r) == r[1] <= line /\ line < r[2]

FileMatches(e, file) ==
    IF e.is_full_path THEN file = e.file_pattern ELSE IsSuffix(e.file_pattern, file)

matches(file, line) ==
    active_ => \E e \in Range(entries_) :
                   /\ FileMatches(e, file)
                   /\ e.ranges = {} \/ \E r \in e.ranges : InRange(line, r)

-----------------------------------------------------------------------------
(* Cloning *)

\* Variant: the calling convention is not looked at.
KernelsAndHelpers(fns) == 1..Len(fns)

KernelsOf(fns) == {n \in 1..Len(fns) : fns[n].cc = "kernel"}

collectGPUKernels ==
    /\ pc = "collect"
    /\ GpuKernels' = KernelsOf(M)
    /\ pc' = "clone"
    /\ UNCHANGED <<input, M, entries_, active_, at, LocationCounter, ModifiedCodeGen>>

Clone(k) == [cc |-> "kernel", of |-> k, body |-> M[k].body]

cloneKernelWithExtraArg ==
    /\ pc = "clone" /\ GpuKernels # {}
    /\ M' = Append(M, Clone(Min(GpuKernels)))
    /\ GpuKernels' = GpuKernels \ {Min(GpuKernels)}
    /\ at' = [fn |-> Len(M) + 1, bb |-> 1, i |-> 1]
    /\ LocationCounter' = 0
    /\ pc' = "visit"
    /\ UNCHANGED <<input, entries_, active_, ModifiedCodeGen>>

Return ==
    /\ pc = "clone" /\ GpuKernels = {}
    /\ pc' = "done"
    /\ UNCHANGED <<input, M, entries_, active_, GpuKernels, at, LocationCounter, ModifiedCodeGen>>

-----------------------------------------------------------------------------
(* Inserting calls *)

Block == M[at.fn].body[at.bb]
KernelEnds == at.bb > Len(M[at.fn].body)

SetBlock(block) == M' = [M EXCEPT ![at.fn].body[at.bb] = block]

\* Variant: LocationCounter is not passed on.
CallUnnumbered(f, target, user) == [op |-> "submit", loc |-> target.loc, callee |-> f, of |-> target, user |-> 0]

Call(f, target, user) == [op |-> "submit", loc |-> target.loc, callee |-> f, of |-> target, user |-> user]

KernelDone ==
    /\ pc = "visit" /\ KernelEnds
    /\ pc' = "clone"
    /\ UNCHANGED <<input, M, entries_, active_, GpuKernels, at, LocationCounter, ModifiedCodeGen>>

MemoryOps == {"load", "store", "buffer.load", "buffer.store"}

OutOfScope(inst) == active_ /\ (inst.loc = NoLoc \/ ~matches(inst.loc.file, inst.loc.line))

\* The call, with the casts of its operands, goes before the access, and the iterator stays on the access.
InjectAddress(inst) ==
    /\ SetBlock(InsertAt(Block, at.i, Call("v_submit_address", inst, LocationCounter)))
    /\ at' = [at EXCEPT !.i = @ + 2]
    /\ LocationCounter' = LocationCounter + 1
    /\ ModifiedCodeGen' = TRUE

VisitInstruction ==
    /\ input.pass = "address" /\ pc = "visit" /\ ~KernelEnds
    /\ \/ /\ at.i > Len(Block)
          /\ at' = [at EXCEPT !.bb = @ + 1, !.i = 1]
          /\ UNCHANGED <<M, LocationCounter, ModifiedCodeGen>>
       \/ /\ at.i <= Len(Block)
          /\ IF OutOfScope(Block[at.i]) \/ Block[at.i].op \notin MemoryOps
               THEN at' = [at EXCEPT !.i = @ + 1] /\ UNCHANGED <<M, LocationCounter, ModifiedCodeGen>>
               ELSE InjectAddress(Block[at.i])
    /\ UNCHANGED <<input, pc, entries_, active_, GpuKernels>>

FirstNonPhi(block) == SelectInSeq(block, LAMBDA inst : inst.op # "phi")

\* AMDGCNSubmitBBStart: one wave header at the start of each block.
Started(block, n) ==
    InsertAt(block, FirstNonPhi(block), Call("s_submit_wave_header", block[FirstNonPhi(block)], n))

VisitBlockStart ==
    /\ input.pass = "bbstart" /\ pc = "visit" /\ ~KernelEnds
    /\ SetBlock(Started(Block, LocationCounter))
    /\ LocationCounter' = LocationCounter + 1
    /\ at' = [at EXCEPT !.bb = @ + 1]
    /\ ModifiedCodeGen' = TRUE
    /\ UNCHANGED <<input, pc, entries_, active_, GpuKernels>>

\* Variant: no second clock read, and the message after the terminator.
IntervalNotClosed(block, n) ==
    LET first == block[FirstNonPhi(block)]
    IN  Append(InsertAt(block, FirstNonPhi(block), Call("s_clock64", first, n)),
               Call("s_submit_time_interval", first, n))

\* AMDGCNSubmitBBInterval: a clock read at the start of the block, a second
\* one and the message before its terminator.
Interval(block, n) ==
    LET first == block[FirstNonPhi(block)]
        opened == InsertAt(block, FirstNonPhi(block), Call("s_clock64", first, n))
        timed == InsertAt(opened, Len(opened), Call("s_clock64", first, n))
    IN  InsertAt(timed, Len(timed), Call("s_submit_time_interval", first, n))

VisitBlockInterval ==
    /\ input.pass = "bbinterval" /\ pc = "visit" /\ ~KernelEnds
    /\ SetBlock(Interval(Block, LocationCounter))
    /\ LocationCounter' = LocationCounter + 1
    /\ at' = [at EXCEPT !.bb = @ + 1]
    /\ ModifiedCodeGen' = TRUE
    /\ UNCHANGED <<input, pc, entries_, active_, GpuKernels>>

Done == pc = "done" /\ UNCHANGED vars

Next ==
    \/ validateAMDGPUTarget \/ loadAndLinkBitcode
    \/ InstrumentationScope
    \/ collectGPUKernels \/ cloneKernelWithExtraArg \/ KernelDone \/ Return
    \/ VisitInstruction \/ VisitBlockStart \/ VisitBlockInterval
    \/ Done

Spec == Init /\ [][Next]_vars

-----------------------------------------------------------------------------
(* Properties *)

Originals == 1..Len(input.mod.fns)
Clones == {n \in 1..Len(M) : M[n].of # 0}
Linked == pc = "done" /\ Len(M) > Len(input.mod.fns)
Linkage == Len(input.mod.fns) + 1   \* where the device library was linked in

\* Without the inserted calls, block is orig.
SameCode(block, orig) ==
    LET own == {n \in 1..Len(block) : block[n].op # "submit"}
    IN  /\ Cardinality(own) = Len(orig)
        /\ \A n \in own : block[n] = orig[Cardinality({m \in own : m <= n})]

(* The pass leaves the application's own code alone: original functions    *)
(* keep their bodies, only kernels of the input are cloned and each at     *)
(* most once, and a clone with the calls removed is its original.  After a *)
(* pass that got past linking every kernel has its clone.                  *)
ClonesFaithful ==
    /\ \A n \in Originals : M[n] = input.mod.fns[n]
    /\ \A n \in Clones : /\ M[n].of \in Originals /\ M[M[n].of].cc = "kernel"
                         /\ Len(M[n].body) = Len(M[M[n].of].body)
                         /\ \A b \in 1..Len(M[n].body) : SameCode(M[n].body[b], M[M[n].of].body[b])
    /\ \A m, n \in Clones : M[m].of = M[n].of => m = n
    /\ Linked => \A n \in Originals : M[n].cc = "kernel" => \E c \in Clones : M[c].of = n

\* What a user asked for, read off the definitions rather than the entries.
Wanted(in, loc) ==
    LET defs == in.text \o in.file.defs
        valid == in.file.opens /\ DefinitionsOK(defs)
    IN  \/ ~valid \/ defs = <<>>
        \/ /\ loc # NoLoc
           /\ \E d \in Range(defs) :
                 /\ IF d.file # <<>> /\ Head(d.file) = "/" THEN d.file = loc.file ELSE IsSuffix(d.file, loc.file)
                 /\ \/ d.specs = <<>>
                    \/ \E s \in Range(d.specs) : loc.line \in s[1]..(IF Len(s) = 1 THEN s[1] ELSE s[2] - 1)

\* The first k instructions of a block are reported as the scope asks.
Reported(in, block, k) ==
    \A n \in 1..k :
        IF block[n].op = "submit"
          THEN n < k /\ block[n].of = block[n + 1]
               /\ block[n + 1].op \in MemoryOps /\ Wanted(in, block[n + 1].loc)
          ELSE block[n].op \in MemoryOps /\ Wanted(in, block[n].loc)
                  => n > 1 /\ block[n - 1].op = "submit"

(* After the address pass every memory access of a clone that the scope    *)
(* definitions select is reported exactly once, by the call directly       *)
(* before it, and no other instruction is reported, whatever was inserted  *)
(* before it and however many definitions, files or errors the scope has.  *)
ReportsFollowScope ==
    pc = "done" /\ input.pass = "address" =>
        \A c \in Clones : \A b \in 1..Len(M[c].body) : Reported(input, M[c].body[b], Len(M[c].body[b]))

Numbered(block, b) ==
    LET subs == {n \in 1..Len(block) : block[n].op = "submit" /\ block[n].callee # "s_clock64"}
    IN  \E n \in subs : /\ subs = {n}
                        /\ block[n].user = b - 1
                        /\ \A p \in 1..Len(block) : block[p].op = "phi" => p < n

\* Some instruction of the block is one the user asked for.
InScope(in, block) ==
    \E n \in 1..Len(block) : block[n].op # "submit" /\ Wanted(in, block[n].loc)

(* Block messages name their block: after the pass block b of a clone, if  *)
(* the scope selects some of it, holds exactly one submission, after the   *)
(* phis, and its user data is b - 1, the index the host uses to look the   *)
(* block up.                                                               *)
BlocksNumbered ==
    pc = "done" /\ input.pass # "address" =>
        \A c \in Clones : \A b \in 1..Len(M[c].body) :
            InScope(input, M[c].body[b]) => Numbered(M[c].body[b], b)

Bracketed(block) ==
    LET clocks == {n \in 1..Len(block) : block[n].op = "submit" /\ block[n].callee = "s_clock64"}
    IN  \E s, e \in clocks :
           /\ clocks = {s, e} /\ s < e
           /\ \A n \in 1..Len(block) : block[n].op # "submit" =>
                 /\ n < s <=> block[n].op = "phi"
                 /\ n > e <=> n = Len(block)

(* A timed block in scope is bracketed: nothing of the original block but  *)
(* phis runs before the first clock read, and only the terminator after    *)
(* the second.                                                             *)
IntervalsBracket ==
    pc = "done" /\ input.pass = "bbinterval" =>
        \A c \in Clones : \A b \in 1..Len(M[c].body) :
            InScope(input, M[c].body[b]) => Bracketed(M[c].body[b])

-----------------------------------------------------------------------------
(* The inductive strengthening of these properties *)

Callee == {"v_submit_address", "s_submit_wave_header", "s_clock64", "s_submit_time_interval"}
Submission == [op : {"submit"}, loc : {inst.loc : inst \in Instruction}, callee : Callee,
               of : Instruction, user : Nat]
Code == Instruction \cup Submission

Fn == [cc : {"kernel", "device"}, of : Nat, body : Seq(Seq(Code))]

\* fn is a clone of a kernel of the input, with calls inserted.
IsCloneOf(fn, fns) ==
    /\ fn.cc = "kernel" /\ fn.of \in KernelsOf(fns)
    /\ Len(fn.body) = Len(fns[fn.of].body)
    /\ \A b \in 1..Len(fn.body) : SameCode(fn.body[b], fns[fn.of].body[b])

\* Block b of a clone is as the properties of the pass ask.
BlockDone(in, block, b) ==
    /\ in.pass = "address" => Reported(in, block, Len(block))
    /\ in.pass # "address" => Numbered(block, b)
    /\ in.pass = "bbinterval" => Bracketed(block)

\* The module is the input, then the device library, then the clones.
Layout ==
    /\ input \in Inputs
    /\ pc \in {"target", "link", "scope", "collect", "clone", "visit", "done"}
    /\ M \in Seq(Fn)
    /\ Len(M) >= Len(input.mod.fns)
    /\ \A n \in Originals : M[n] = input.mod.fns[n]
    /\ pc \in {"target", "link"} => Len(M) = Len(input.mod.fns)
    /\ pc \in {"scope", "collect"} => Len(M) = Linkage
    /\ pc \in {"clone", "visit"} => Len(M) >= Linkage
    /\ Len(M) >= Linkage => M[Linkage] = DeviceLibrary
    /\ \A c \in (Linkage + 1)..Len(M) : IsCloneOf(M[c], input.mod.fns)

\* Every kernel is still to be cloned or has its clone.
ClonedOnce ==
    /\ pc \notin {"clone", "visit"} => GpuKernels = {}
    /\ GpuKernels \subseteq KernelsOf(input.mod.fns)
    /\ \A c \in (Linkage + 1)..Len(M) :
          /\ M[c].of \notin GpuKernels
          /\ \A d \in (Linkage + 1)..Len(M) : M[c].of = M[d].of => c = d
    /\ pc \in {"clone", "visit"} \/ Linked =>
          \A k \in KernelsOf(input.mod.fns) :
              k \in GpuKernels \/ \E c \in (Linkage + 1)..Len(M) : M[c].of = k

\* The scope is what its definitions say, or none.
ScopeRead ==
    input.pass = "address" /\ pc \in {"collect", "clone", "visit"} =>
        /\ entries_ = IF DefinitionsOK(input.text) /\ parseFileOK
                        THEN parseDefinitions(input.text) \o parseDefinitions(input.file.defs)
                        ELSE <<>>
        /\ active_ = (entries_ # <<>>)

\* The pass is in the newest clone; what is ahead of it is as it was.
Ahead ==
    /\ LocationCounter \in Nat
    /\ pc = "visit" =>
        LET body == M[Len(M)].body
            orig == input.mod.fns[M[Len(M)].of].body
        IN  /\ Len(M) > Linkage
            /\ at \in [fn : {Len(M)}, bb : 1..(Len(body) + 1), i : Nat \ {0}]
            /\ \A b \in (at.bb + 1)..Len(body) : body[b] = orig[b]
            /\ input.pass # "address" => /\ LocationCounter = at.bb - 1
                                         /\ at.bb <= Len(body) => body[at.bb] = orig[at.bb]
            /\ input.pass = "address" /\ at.bb <= Len(body) =>
                  /\ at.i <= Len(body[at.bb]) + 1
                  /\ \A n \in at.i..Len(body[at.bb]) : body[at.bb][n] \in Instruction
                  /\ Reported(input, body[at.bb], at.i - 1)

\* What the pass has behind it is as the properties ask.
Behind ==
    \A c \in (Linkage + 1)..Len(M) : \A b \in 1..Len(M[c].body) :
        (pc = "visit" /\ c = Len(M) => b < at.bb) => BlockDone(input, M[c].body[b], b)

PassInv == Layout /\ ClonedOnce /\ ScopeRead /\ Ahead /\ Behind
=============================================================================
