----------------------------- MODULE MCLogFeed -----------------------------
(* The chain and a log subscriber over the tree of MCTree. *)
EXTENDS LogFeed, MCTree
=============================================================================
