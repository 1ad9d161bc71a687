---------------------------- MODULE ImportRules ----------------------------
(***************************************************************************)
(* What block import makes of the stored blocks and the tip.  A view of    *)
(* the chain is the record [bodies, tip]; an operation is accepted or      *)
(* refused by a view alone, and changes it as stated here.                 *)
(***************************************************************************)
EXTENDS BlockStore

GenesisView == [bodies |-> {Genesis}, tip |-> Genesis]

(* Maintenance at a checkpoint tip: side blocks below the prune line go. *)
Pruned(c) ==
    IF IsHead(c.tip)
    THEN [c EXCEPT !.bodies = {b \in c.bodies : \/ b \in Ancestors[c.tip]
                                 \/ Height[b] >= sideBlockPruneHeight(Height[c.tip])}]
    ELSE c

(* The highest block b's chain shares with the tip's. *)
ForkPoint(c, b) ==
    CHOOSE p \in Ancestors[b] \cap Ancestors[c.tip] :
        \A a \in Ancestors[b] \cap Ancestors[c.tip] : Height[a] <= Height[p]

BlockFits(bodies, b) == b \in OnTarget /\ validateUncles(bodies, b)

(* ApplyBlock takes a block on the tip ... *)
ExtendsTip(c, b) ==
    /\ Prev[b] = c.tip
    /\ Prev[b] # Genesis => b \in OnTarget
    /\ validateUncles(c.bodies, b)
    /\ b \in Valid

(* ... or a block on another stored block, which becomes the tip if it is  *)
(* better, unless its branch forks off below the finality line or does     *)
(* not apply.                                                              *)
JoinsSide(c, b) ==
    /\ Prev[b] # c.tip
    /\ Prev[b] \in c.bodies
    /\ BlockFits(c.bodies, b)
    /\ Better(b, c.tip) =>
          LET p == ForkPoint(c, b)
          IN  /\ Height[p] >= finalityHeight(Height[c.tip])
              /\ \A a \in Path(p, b) : a \in Valid /\ Prev[a] \in c.bodies

CanApply(c, b) == ExtendsTip(c, b) \/ JoinsSide(c, b)

Applied(c, b) ==
    IF Prev[b] = c.tip \/ Better(b, c.tip)
    THEN Pruned([bodies |-> c.bodies \cup {b}, tip |-> b])
    ELSE [c EXCEPT !.bodies = @ \cup {b}]

(* A fetched segment above p that ends in n. *)
Attaches(c, p, n) ==
    /\ p \in Ancestors[n] \ {n}
    /\ p \in Ancestors[c.tip]
    /\ \A b \in Path(p, n) : BlockFits(c.bodies \cup Path(p, n), b)

Extended(c, p, n) == [bodies |-> c.bodies \cup Path(p, n), tip |-> n]

(* SwitchToBranch: a better branch that applies, however deep the fork. *)
CanSwitch(c, p, n) == Attaches(c, p, n) /\ Better(n, c.tip) /\ Path(p, n) \subseteq Valid

Switched(c, p, n) == Pruned(Extended(c, p, n))
=============================================================================
