------------------------------- MODULE KernArgs -------------------------------
(***************************************************************************)
(* Rewriting the kernel arguments of an instrumented dispatch:             *)
(* KernelArgHelper::computeKernargData reads the layout of a kernel from   *)
(* its metadata, coCache::getArgDescriptor combines the layouts of the     *)
(* original and of its clone, hsaInterceptor::fixupKernArgs builds the     *)
(* clone's kernarg segment from the application's.                         *)
(*                                                                         *)
(* Memory is a function from byte offsets to tokens that say which byte of *)
(* what is there, so a byte that ends up in the wrong place is seen. How   *)
(* the compiler lays arguments out is external (the AMDGPU kernarg ABI):   *)
(* explicit arguments at their natural alignment, the clone's extra void*  *)
(* after them, hidden arguments from the next multiple of 8.               *)
(***************************************************************************)
EXTENDS Naturals, Sequences

CONSTANTS
    ArgSizes,       \* sizes in bytes of explicit arguments
    MaxArgs,        \* bound on their number
    HiddenSizes     \* sizes in bytes of the hidden part, 0: none

ARG_ALIGN == 8
PtrSize == 8

ASSUME KernArgsAssumption ==
    /\ ArgSizes \subseteq {1, 2, 4, 8}
    /\ MaxArgs \in Nat
    /\ \A h \in HiddenSizes : h \in Nat /\ h % 8 = 0

VARIABLES
    sizes,      \* the explicit arguments of the original kernel
    hidden,     \* bytes of hidden arguments of the original
    cloneHidden,\* bytes of hidden arguments of the clone
    args,       \* the descriptor fixupPacket works with
    dst,        \* the clone's kernarg segment, while it is being built
    stage

argsVars == <<sizes, hidden, cloneHidden, args, dst, stage>>

-----------------------------------------------------------------------------
(* The compiler's layouts (external).                                      *)

AlignUp(n, a) == ((n + a - 1) \div a) * a

\* Where each of the explicit arguments ends, and the last of them; offset of
\* the i-th.
ArgEnds(ss) ==
    LET end[i \in 0..Len(ss)] ==
            IF i = 0 THEN 0 ELSE AlignUp(end[i - 1], ss[i]) + ss[i]
    IN  end
ArgEnd(ss) == ArgEnds(ss)[Len(ss)]
ArgOffset(ss, i) == ArgEnd(SubSeq(ss, 1, i)) - ss[i]

HiddenOffset(ss) == AlignUp(ArgEnd(ss), 8)
SegmentSize(ss, h) == IF h = 0 THEN AlignUp(ArgEnd(ss), 4) ELSE HiddenOffset(ss) + h

CloneSizes(ss) == Append(ss, PtrSize)

-----------------------------------------------------------------------------
(* The descriptors.                                                        *)

\* Variant: the end of the last explicit argument is taken as it is.
NoRounding(number) == number

roundArgsLength(number) == ((number + (ARG_ALIGN - 1)) \div ARG_ALIGN) * ARG_ALIGN

\* computeKernargData on a kernel with explicit arguments ss and h bytes of
\* hidden ones.
computeKernargData(ss, h) ==
    LET length == SegmentSize(ss, h)
        rounded == roundArgsLength(ArgEnd(ss))
        explicit == IF rounded < length THEN rounded ELSE length
    IN  [kernarg_length |-> length,
         explicit_args_length |-> explicit,
         hidden_args_length |-> length - explicit]

\* Variant: the hidden length is taken from the clone.
DescriptorOfClone(ss, h, ch) ==
    LET clone == computeKernargData(CloneSizes(ss), ch)
    IN  [kernarg_length |-> clone.kernarg_length,
         explicit_args_length |-> clone.explicit_args_length,
         clone_hidden_args_length |-> clone.hidden_args_length]

\* getArgDescriptor(instrumented): the clone's descriptor, with the length of
\* the original's hidden part.
getArgDescriptor(ss, h, ch) ==
    LET orig == computeKernargData(ss, h)
        clone == computeKernargData(CloneSizes(ss), ch)
    IN  [kernarg_length |-> clone.kernarg_length,
         explicit_args_length |-> clone.explicit_args_length,
         clone_hidden_args_length |->
             IF orig.hidden_args_length # 0
             THEN orig.kernarg_length - orig.explicit_args_length ELSE 0]

-----------------------------------------------------------------------------
(* The application's segment and the rewriting.                            *)

\* A byte is the k-th of explicit argument i, of the hidden part, of the
\* comms pointer, or nothing anybody wrote.
Pad == <<"pad", 0, 0>>
Zero == <<"zero", 0, 0>>
ArgByte(i, k) == <<"arg", i, k>>
HiddenByte(k) == <<"hidden", 0, k>>
CommsByte(k) == <<"comms", 0, k>>

\* What a kernel finds at offset o of a segment with arguments ss and h bytes
\* of hidden ones: its own view of the layout.
SrcByte(ss, h, o) ==
    IF \E i \in 1..Len(ss) : o \in ArgOffset(ss, i)..(ArgOffset(ss, i) + ss[i] - 1)
    THEN LET i == CHOOSE i \in 1..Len(ss) :
                      o \in ArgOffset(ss, i)..(ArgOffset(ss, i) + ss[i] - 1)
         IN  ArgByte(i, o - ArgOffset(ss, i))
    ELSE IF h # 0 /\ o \in HiddenOffset(ss)..(HiddenOffset(ss) + h - 1)
    THEN HiddenByte(o - HiddenOffset(ss))
    ELSE Pad

\* The packet's kernarg_address.
Src(o) == SrcByte(sizes, hidden, o)

Layouts == UNION {[1..n -> ArgSizes] : n \in 0..MaxArgs}

ArgsInit ==
    /\ sizes \in Layouts
    /\ hidden \in HiddenSizes
    /\ cloneHidden \in {h \in HiddenSizes : h >= hidden}
    /\ args = [kernarg_length |-> 0, explicit_args_length |-> 0,
               clone_hidden_args_length |-> 0]
    /\ dst = << >>
    /\ stage = "describe"

\* fixupPacket: getArgDescriptor, then allocate(args.kernarg_length).
Describe ==
    /\ stage = "describe"
    /\ args' = getArgDescriptor(sizes, hidden, cloneHidden)
    /\ stage' = "memset"
    /\ UNCHANGED <<sizes, hidden, cloneHidden, dst>>

\* fixupKernArgs: memset
ZeroFill ==
    /\ stage = "memset"
    /\ dst' = [o \in 0..(args.kernarg_length - 1) |-> Zero]
    /\ stage' = "explicit"
    /\ UNCHANGED <<sizes, hidden, cloneHidden, args>>

\* memcpy of n bytes from src + from to dst + to
Copied(to, from, n) ==
    [o \in DOMAIN dst |-> IF o \in to..(to + n - 1) THEN Src(from + (o - to)) ELSE dst[o]]

\* fixupKernArgs: the explicit arguments, all but the clone's pointer
CopyExplicit ==
    /\ stage = "explicit"
    /\ dst' = Copied(0, 0, args.explicit_args_length - PtrSize)
    /\ stage' = "hidden"
    /\ UNCHANGED <<sizes, hidden, cloneHidden, args>>

\* Variant: hidden arguments are copied to where they were.
CopyHiddenUnmoved ==
    /\ stage = "hidden"
    /\ dst' = Copied(args.explicit_args_length - PtrSize,
                     args.explicit_args_length - PtrSize, args.clone_hidden_args_length)
    /\ stage' = "comms"
    /\ UNCHANGED <<sizes, hidden, cloneHidden, args>>

\* fixupKernArgs: the hidden arguments, one pointer further on
CopyHidden ==
    /\ stage = "hidden"
    /\ dst' = Copied(args.explicit_args_length, args.explicit_args_length - PtrSize,
                     args.clone_hidden_args_length)
    /\ stage' = "comms"
    /\ UNCHANGED <<sizes, hidden, cloneHidden, args>>

\* fixupKernArgs: *comms_loc = comms
StoreComms ==
    /\ stage = "comms"
    /\ LET at == args.explicit_args_length - PtrSize
       IN  dst' = [o \in DOMAIN dst |-> IF o \in at..(at + PtrSize - 1)
                                        THEN CommsByte(o - at) ELSE dst[o]]
    /\ stage' = "done"
    /\ UNCHANGED <<sizes, hidden, cloneHidden, args>>

ArgsNext == Describe \/ ZeroFill \/ CopyExplicit \/ CopyHidden \/ StoreComms

ArgsSpec == ArgsInit /\ [][ArgsNext]_argsVars

-----------------------------------------------------------------------------
(* Properties.                                                             *)

\* The clone finds in the rewritten segment (fixupKernArgs), at the offsets
\* its own layout gives them, every byte of every explicit argument, the
\* comms pointer in its last one, and every hidden byte the original had.
CloneSeesItsArguments ==
    stage = "done" =>
        /\ \A i \in 1..Len(sizes), k \in 0..(PtrSize - 1) : k < sizes[i] =>
              dst[ArgOffset(CloneSizes(sizes), i) + k] = ArgByte(i, k)
        /\ \A k \in 0..(PtrSize - 1) :
              dst[ArgOffset(CloneSizes(sizes), Len(sizes) + 1) + k] = CommsByte(k)
        /\ hidden # 0 =>
              \A k \in 0..(hidden - 1) :
                  dst[HiddenOffset(CloneSizes(sizes)) + k] = HiddenByte(k)

\* Hidden arguments the original was not given read as zero in the clone,
\* never as bytes of something else (the memset of fixupKernArgs).
ExtraHiddenIsZero ==
    stage = "done" /\ cloneHidden > hidden =>
        \A k \in hidden..(cloneHidden - 1) :
            dst[HiddenOffset(CloneSizes(sizes)) + k] = Zero

\* No copy writes outside the allocated segment: in particular the assertion
\* "that we aren't going to copy a larger kernarg segment into a smaller one"
\* holds (clone_hidden_args_length comes from the original's descriptor, the
\* room from the clone's).
CopiesFit ==
    stage # "describe" =>
        /\ args.explicit_args_length >= PtrSize
        /\ args.explicit_args_length <= args.kernarg_length
        /\ args.clone_hidden_args_length <= args.kernarg_length - args.explicit_args_length

-----------------------------------------------------------------------------
(* The inductive invariant.                                                *)

\* What offset o of the segment holds, as far as fixupKernArgs has got: the
\* explicit arguments, then the comms pointer, then the hidden arguments.
Built(o) ==
    LET at == args.explicit_args_length - PtrSize
    IN  IF o < at THEN IF stage = "explicit" THEN Zero ELSE Src(o)
        ELSE IF o < at + PtrSize THEN IF stage = "done" THEN CommsByte(o - at) ELSE Zero
        ELSE IF /\ stage \in {"comms", "done"}
                /\ o < args.explicit_args_length + args.clone_hidden_args_length
             THEN Src(o - PtrSize)
        ELSE Zero

\* The descriptor is that of the clone, and each copy has left every byte of
\* the segment outside its own range as the steps before it made it.
SegmentInv ==
    /\ sizes \in Layouts /\ hidden \in HiddenSizes /\ cloneHidden \in HiddenSizes
    /\ hidden <= cloneHidden
    /\ stage \in {"describe", "memset", "explicit", "hidden", "comms", "done"}
    /\ stage # "describe" => args = getArgDescriptor(sizes, hidden, cloneHidden)
    /\ stage \notin {"describe", "memset"} =>
          dst = [o \in 0..(args.kernarg_length - 1) |-> Built(o)]
=============================================================================
