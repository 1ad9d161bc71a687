----------------------------- MODULE MCHistory -----------------------------
(***************************************************************************)
(* History over the tree of MCTree.  Transaction t1 is in both blocks of   *)
(* height 1, t3 in both blocks of height 3 of the two long branches.       *)
(***************************************************************************)
EXTENDS History, MCTree

NoUncles == [b \in MCBlocks |-> {}]
HistoryTxs == {"t1", "t2", "t3"}
HistoryTxsOf == [b \in MCBlocks |-> CASE b \in {2, 3} -> {"t1"} [] b \in {5, 6} -> {"t2"}
                                      [] b \in {7, 12} -> {"t3"} [] OTHER -> {}]
MCAddresses == "t1" :> {"alice"} @@ "t2" :> {"alice", "bob"} @@ "t3" :> {"bob"}
MCRank == "t1" :> 2 @@ "t2" :> 1 @@ "t3" :> 3
=============================================================================
