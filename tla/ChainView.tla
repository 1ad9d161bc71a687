----------------------------- MODULE ChainView -----------------------------
(***************************************************************************)
(* The chain as its users see it: the blocks it stores and its tip, and    *)
(* how the operations of block import move them (module ImportRules gives  *)
(* the operators).  The height index, the work memo, the state and its     *)
(* changesets are the chain's own affair: modules Chain and LogFeed        *)
(* implement this, modules Sync and Light build on it.                     *)
(***************************************************************************)
CONSTANTS Blocks, Genesis, GenesisView,
    CanApply(_, _), Applied(_, _),
    Attaches(_, _, _), Extended(_, _, _), CanSwitch(_, _, _), Switched(_, _, _)

VARIABLE chain      \* [bodies, tip]

Init == chain = GenesisView

Next ==
    \/ \E b \in Blocks \ {Genesis} : CanApply(chain, b) /\ chain' = Applied(chain, b)
    \/ \E p, n \in Blocks : CanSwitch(chain, p, n) /\ chain' = Switched(chain, p, n)

Spec == Init /\ [][Next]_chain

(* ApplySnapshot: the segment becomes the chain whatever its work. *)
NextSnapshot ==
    Next \/ \E p, n \in Blocks : Attaches(chain, p, n) /\ chain' = Extended(chain, p, n)

SpecSnapshot == Init /\ [][NextSnapshot]_chain
=============================================================================
