------------------------------ MODULE MCSync ------------------------------
(***************************************************************************)
(* Synchronisation over two chains that fork at the genesis block.         *)
(* Heights:   0   1   2   3   4                                            *)
(*            0 - 2 - 4 - 6 - 8     the chain of the peers                 *)
(*            \-- 1 - 3             3 has the work of 8 and a smaller hash *)
(* A smaller hash has the greater actual difficulty.                       *)
(***************************************************************************)
EXTENDS Sync, TLC

MCBlocks == {0, 1, 2, 3, 4, 6, 8}
MCPrev == 1 :> 0 @@ 2 :> 0 @@ 3 :> 1 @@ 4 :> 2 @@ 6 :> 4 @@ 8 :> 6
TreeHeight[b \in MCBlocks] == IF b = 0 THEN 0 ELSE TreeHeight[MCPrev[b]] + 1
Chainwards[b \in MCBlocks] == IF b = 0 THEN {0} ELSE {b} \cup Chainwards[MCPrev[b]]
MCHeight == [b \in MCBlocks |-> TreeHeight[b]]
MCAncestors == [b \in MCBlocks |-> Chainwards[b]]
MCCumWork == [b \in MCBlocks |-> IF b = 3 THEN 5 ELSE TreeHeight[b] + 1]
MCActualDiff == [b \in MCBlocks |-> 10 - b]
MCMaxHeight == 4
MCUncles == [b \in MCBlocks |-> {}]
MCTxs == {}
MCTxsOf == [b \in MCBlocks |-> {}]
=============================================================================
