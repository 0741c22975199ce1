--------------------------- MODULE MCBasicBlocks ---------------------------
(* A kernel with a loop and a block without instructions, run by two waves *)
(* of different workgroups on one compute unit.                            *)
EXTENDS BasicBlocks

MCBlock == 0..3
MCSucc == [b \in MCBlock |-> CASE b = 0 -> {0, 1, 3} [] b = 1 -> {2} [] b = 2 -> {} [] b = 3 -> {2}]
MCInsts == [b \in MCBlock |-> CASE b = 0 -> <<"s_add", "v_add", "s_add">> [] b = 1 -> <<"v_add", "s_branch">>
                                [] b = 2 -> <<"s_endpgm">> [] b = 3 -> <<>>]
MCCuOf == [w \in Wave |-> "cu0"]
MCWgOf == [w \in Wave |-> w]
Symmetry == Permutations(Wave) \cup Permutations(Paddings)
=============================================================================
