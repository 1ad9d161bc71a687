------------------------------ MODULE MCLight ------------------------------
(***************************************************************************)
(* State proofs over two chains that fork at the genesis block.            *)
(* Heights:   0   1   2   3   4                                            *)
(*            0 - 2 - 4 - 6 - 8                                            *)
(*            \-- 1 - 3             3 has more work than 6, less than 8    *)
(* "gen" is the balance that the genesis block is rewarded with, "acc"     *)
(* that of a miner who spends, "com" a commitment that is made in 4 and    *)
(* revealed in 6, "con" a contract.                                        *)
(***************************************************************************)
EXTENDS Light, TLC

MCBlocks == {0, 1, 2, 3, 4, 6, 8}
MCPrev == 1 :> 0 @@ 2 :> 0 @@ 3 :> 1 @@ 4 :> 2 @@ 6 :> 4 @@ 8 :> 6
TreeHeight[b \in MCBlocks] == IF b = 0 THEN 0 ELSE TreeHeight[MCPrev[b]] + 1
Chainwards[b \in MCBlocks] == IF b = 0 THEN {0} ELSE {b} \cup Chainwards[MCPrev[b]]
MCHeight == [b \in MCBlocks |-> TreeHeight[b]]
MCAncestors == [b \in MCBlocks |-> Chainwards[b]]
MCCumWork == [b \in MCBlocks |-> IF b = 3 THEN 9 ELSE 2 * TreeHeight[b] + 2]
MCMaxHeight == 4
MCUncles == [b \in MCBlocks |-> {}]
MCTxs == {}
MCTxsOf == [b \in MCBlocks |-> {}]

MCKeys == {"gen", "acc", "com", "con"}
MCLeafPath ==
    "gen" :> <<0, 0, 0>> @@ "acc" :> <<0, 0, 1>> @@ "com" :> <<0, 1, 1>> @@ "con" :> <<1, 0, 1>>

W(k, n) == [key |-> k, add |-> n]
MCWrites ==
    0 :> <<W("gen", 1)>>
    @@ 1 :> <<W("acc", 1), W("gen", -1)>>
    @@ 2 :> <<W("acc", 2), W("con", 1)>>
    @@ 3 :> <<W("con", 2), W("acc", 1)>>
    @@ 4 :> <<W("com", 1), W("acc", -2), W("gen", 1)>>
    @@ 6 :> <<W("com", -1), W("con", 1)>>
    @@ 8 :> <<W("acc", 1), W("gen", -2)>>
=============================================================================
