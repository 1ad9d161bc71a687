------------------------------ MODULE MCMining ------------------------------
(***************************************************************************)
(* One node that mines for "me" beside the blocks of another miner.  The   *)
(* reward changes at height 2; t1 spends the other miner's first reward and*)
(* t2 one of "me", both at height 2.                                       *)
(***************************************************************************)
EXTENDS Mining, TLC

MCGenesisBlock ==
    [prev |-> 0, height |-> 0, time |-> -1, diff |-> 4, fee |-> 2, uncles |-> {}, txs |-> {},
     gen |-> [to |-> "genesis", height |-> 0, value |-> 0], rewards |-> <<>>, root |-> "genesis"]
MCForkHeight == "feeMarket" :> 0 @@ "randomBeacon" :> 0
MCTxHeight == "t1" :> 2 @@ "t2" :> 2
MCTxFrom == "t1" :> "other" @@ "t2" :> "me"
MCTxFee == "t1" :> 8 @@ "t2" :> 6
MCTxBytes == "t1" :> 4 @@ "t2" :> 3
=============================================================================
