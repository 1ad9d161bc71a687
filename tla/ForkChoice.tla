----------------------------- MODULE ForkChoice -----------------------------
(***************************************************************************)
(* What the chain promises about its tip, whatever it does inside: the tip *)
(* is the best block among all blocks it holds, and it only ever moves to  *)
(* a strictly better block.  Held blocks may come and go in any way that   *)
(* respects this.                                                          *)
(***************************************************************************)
CONSTANTS Blocks, Genesis,
    Better(_, _)    \* the order of the fork choice

VARIABLES known, tip

BestOf(b, K) == b \in K /\ \A c \in K : ~Better(c, b)

Init == known = {Genesis} /\ tip = Genesis

Next ==
    /\ known' \in SUBSET Blocks
    /\ BestOf(tip', known')
    /\ tip' = tip \/ Better(tip', tip)

Spec == Init /\ [][Next]_<<known, tip>>
=============================================================================
