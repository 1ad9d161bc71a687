------------------------------ MODULE LogFeed ------------------------------
(***************************************************************************)
(* The chain together with a subscriber to contract logs (jsonrpc          *)
(* subscribe.go).  After the write transaction of an import committed, and *)
(* still under Chain.mu, notifyReorg sends the logs of the replaced blocks *)
(* as removed and those of the branch below its tip as added, and          *)
(* notifyTipChanged sends the logs of the new tip.  The subscriber keeps   *)
(* up: its 64-entry queue is never full.                                   *)
(***************************************************************************)
EXTENDS Chain, ImportRules

VARIABLE feed       \* block -> copies of its logs the subscriber holds

FeedCap == 2        \* bound: copies counted

feedVars == <<vars, feed>>

Deliver(removed, added, tip) ==
    feed' = [b \in Blocks |->
               LET kept == IF b \in removed /\ feed[b] > 0 THEN feed[b] - 1 ELSE feed[b]
                   sent == kept + (IF b \in added THEN 1 ELSE 0) + (IF b = tip THEN 1 ELSE 0)
               IN  IF sent > FeedCap THEN FeedCap ELSE sent]

(* Faulty: the tip is announced twice. *)
NotifySwitchTwice(p, n) == Deliver(CanonAbove(store, p), Path(p, n), n)

(* notifyReorg, then notifyTipChanged, after a switch to the branch of n. *)
NotifySwitch(p, n) == Deliver(CanonAbove(store, p), Path(p, n) \ {n}, n)

(* Without a reorg only notifyTipChanged has something to say. *)
NotifyTip(b) == Deliver({}, {}, b)

FeedInit == Init /\ feed = [b \in Blocks |-> 0]

FeedNext ==
    \/ \E b \in Blocks \ {Genesis} :
          \/ ExtendTip(b) /\ NotifyTip(b)
          \/ StoreSide(b) /\ UNCHANGED feed
          \/ \E p \in Ancestors[b] : Reorg(p, b) /\ NotifySwitch(p, b)
    \/ \E p, n \in Blocks : ConvergeTo(p, n) /\ NotifySwitch(p, n)
    \/ /\ Restart(archive)          \* a reconnecting subscriber starts over
       /\ feed' = [b \in Blocks |-> IF b # Genesis /\ isCanonical(store, b) THEN 1 ELSE 0]

FeedSpec == FeedInit /\ [][FeedNext]_feedVars

(* A log subscriber that rolls back removed logs and adds the announced    *)
(* ones holds exactly one copy of the logs of every canonical block:       *)
(* notifyReorg announces the branch one block short because the tip's own  *)
(* logs come with notifyTipChanged.                                        *)
FeedFollowsChain ==
    \A b \in Blocks \ {Genesis} : feed[b] = IF isCanonical(store, b) THEN 1 ELSE 0

(* ApplyBlock and SwitchToBranch accept and refuse, and move the tip and   *)
(* the stored blocks, by the stored blocks and the tip alone, as the users *)
(* of the chain assume (module Sync and others).                           *)
CV == INSTANCE ChainView WITH chain <- [bodies |-> store.bodies, tip |-> store.latest]

ImplementsChainView == CV!Spec
=============================================================================
