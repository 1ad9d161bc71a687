---------------------------- MODULE MCContracts ----------------------------
(***************************************************************************)
(* Two addresses and three modules: one without imports, one that imports  *)
(* address 1 and has a validate hook, and one that imports address 2.      *)
(***************************************************************************)
EXTENDS Contracts, TLC

CONSTANTS plain, uses1, uses2

MCImports == plain :> {} @@ uses1 :> {1} @@ uses2 :> {2}

MCExports == plain :> {"main", "init", "upgrade"}
               @@ uses1 :> {"main", "upgrade", "validate"}
               @@ uses2 :> {"init", "upgrade"}

MCTxs ==
    [from : {1}, to : {1, 2, 3}, value : {1}] \cup [from : {1}, code : {plain, uses2, NoCode}]
      \cup [from : {2}, code : {plain, uses1, NoCode}]
=============================================================================
