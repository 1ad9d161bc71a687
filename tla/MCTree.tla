------------------------------ MODULE MCTree ------------------------------
(***************************************************************************)
(* A tree of twelve blocks in which every decision of block import occurs. *)
(* Heights:   0   1   2   3   4                                            *)
(*            0 - 3 - 5 - 7 - 9         the long chain                     *)
(*                |   |    \- 10        (10 repeats the uncle of 7)        *)
(*                |   \-- 8             heavy: 8 beats 9 although shorter  *)
(*                |-- 6 - 11            uncle of 7; 11 has invalid txs     *)
(*            \-- 2 - 4 - 12            2 - 4 ties with 3 - 5; 12 is heavy *)
(***************************************************************************)
EXTENDS Integers, TLC

CONSTANTS
    LeftOut,        \* blocks of the tree an instance does without
    InvalidBlocks,  \* blocks whose transactions do not apply
    OffTarget       \* blocks that fail the target check

TreePrev == 2 :> 0 @@ 3 :> 0 @@ 4 :> 2 @@ 5 :> 3 @@ 6 :> 3 @@ 7 :> 5
            @@ 8 :> 5 @@ 9 :> 7 @@ 10 :> 7 @@ 11 :> 6 @@ 12 :> 4
MCBlocks == (DOMAIN TreePrev \cup {0}) \ LeftOut
MCPrev == [b \in MCBlocks \ {0} |-> TreePrev[b]]

TreeHeight[b \in MCBlocks] == IF b = 0 THEN 0 ELSE TreeHeight[MCPrev[b]] + 1
Chainwards[b \in MCBlocks] == IF b = 0 THEN {0} ELSE {b} \cup Chainwards[MCPrev[b]]
MCHeight == [b \in MCBlocks |-> TreeHeight[b]]
MCAncestors == [b \in MCBlocks |-> Chainwards[b]]

(* Block 8 declares difficulty 3, blocks 11 and 12 declare 4, the others 1. *)
MCDiff(b) == CASE b = 8 -> 3 [] b \in {11, 12} -> 4 [] OTHER -> 1
TreeWork[b \in MCBlocks] == IF b = 0 THEN 1 ELSE TreeWork[MCPrev[b]] + MCDiff(b)
MCCumWork == [b \in MCBlocks |-> TreeWork[b]]

MCMaxHeight == 4

MCUncles == [b \in MCBlocks |-> CASE b \in {7, 10} -> {6} [] OTHER -> {}]

(* t1 is in both blocks of height 1, t2 in 5 and 6. *)
MCTxs == {"t1", "t2", "t3"}
MCTxsOf == [b \in MCBlocks |-> CASE b \in {2, 3} -> {"t1"} [] b \in {5, 6} -> {"t2"}
                                 [] b = 8 -> {"t3"} [] OTHER -> {}]

MCValid == MCBlocks \ InvalidBlocks
MCOnTarget == MCBlocks \ OffTarget
=============================================================================
