----------------------- MODULE MCInstrumentationPass -----------------------
(* Small modules and scopes for the instrumentation passes.               *)
EXTENDS InstrumentationPass

Kernel == <<"/", "app", "/", "kernel.cpp">>
Memcpy == <<"/", "app", "/", "memcpy_", "kernel.cpp">>

I(op, file, line) == [op |-> op, loc |-> [file |-> file, line |-> line]]
NoDebug(op) == [op |-> op, loc |-> NoLoc]

OneBlock == << <<I("load", Kernel, 1), I("add", Kernel, 1), I("store", Kernel, 2), I("ret", Kernel, 3)>> >>
TwoBlocks ==
    << <<I("buffer.load", Memcpy, 2), NoDebug("load"), I("br", Memcpy, 2)>>,
       <<I("phi", Memcpy, 3), I("buffer.store", Memcpy, 3), NoDebug("ret")>> >>

MCInstructions == UNION {Range(block) : block \in Range(OneBlock \o TwoBlocks)}

MCModules ==
    {[amdgpu |-> a, fns |-> <<Function("kernel", OneBlock), Function("device", OneBlock),
                              Function("kernel", TwoBlocks)>>] : a \in BOOLEAN}
    \cup {[amdgpu |-> TRUE, fns |-> <<Function("device", TwoBlocks)>>]}

Specs == {<<>>, << <<2>> >>, << <<1, 3>> >>, << <<2, 3>>, <<1>> >>, << <<3, 1>> >>, << <<1, 2, 3>> >>}
Files == {<<>>, <<"kernel.cpp">>, Kernel, <<"other.cpp">>}
Defs == [file : Files, specs : Specs]

FewDefs == [file : {<<"kernel.cpp">>, Memcpy}, specs : {<<>>, << <<3>> >>, << <<3, 1>> >>}]
AllDefs == Defs \cup FewDefs

MCTexts == {<<>>} \cup {<<d>> : d \in Defs}
File(opens, defs) == [opens |-> opens, defs |-> defs]
MCFiles == {File(TRUE, <<>>), File(FALSE, <<>>)} \cup {File(TRUE, <<d>>) : d \in FewDefs}
=============================================================================
