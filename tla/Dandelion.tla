----------------------------- MODULE Dandelion -----------------------------
(***************************************************************************)
(* Propagation of locally submitted transactions and commitments (ngp2p    *)
(* dandelion.go over wired_stem.go and the pubsub validators).  An item    *)
(* first hops from node to node (stem) and is then flooded (fluff); a      *)
(* fail-safe timer floods it when the stem path loses it.                  *)
(*                                                                         *)
(* A router's calls run on goroutines of their own and share seen, timers  *)
(* and closed under its mutex: the steps below are the critical sections   *)
(* and the sends and publications between them.  The map of timers and the *)
(* timers themselves are kept apart, because a timer that has expired is   *)
(* no longer stopped by the deletion of its entry.                         *)
(***************************************************************************)
EXTENDS Naturals, FiniteSets

CONSTANTS
    Nodes,
    Items,
    Submissions,    \* <<node, item>>: what is submitted where
    Foreign,        \* stem messages of other peers, under way at the start
    Wellformed,     \* items that pass the stateless gates
    InitialTTL,
    StempoolCap,    \* dandelionStempoolCap
    SeenCap         \* dandelionSeenCap

VARIABLES
    seen,       \* node -> items observed in the flood or flooded
    timers,     \* node -> items with an entry in the stempool
    armed,      \* node -> items with a running timer
    closed,
    expired,    \* <<node, item>>: timer callbacks that wait for the mutex
    calls,      \* calls of originate and relay in progress
    fluffing,   \* <<node, item>>: publications about to be made
    stems,      \* stem messages under way
    flooded,    \* items published to the network
    submitted

stemVars == <<seen, timers, armed, closed, expired, calls, fluffing, stems, flooded, submitted>>

ASSUME StemAssumption ==
    /\ Submissions \subseteq Nodes \X Wellformed /\ Wellformed \subseteq Items
    /\ Foreign \subseteq [to : Nodes, item : Items, ttl : Nat]
    /\ InitialTTL \in Nat /\ StempoolCap \in Nat /\ SeenCap \in Nat \ {0}

(* A call with the successor it picked and the hop budget it sends. *)
Call == [node : Nodes, item : Items, at : {"arm", "send", "dismiss", "mark"},
         to : Nodes, ttl : Nat]

Stem == [to : Nodes, item : Items, ttl : Nat]

StemTypeOK ==
    /\ seen \in [Nodes -> SUBSET Items]
    /\ timers \in [Nodes -> SUBSET Items]
    /\ armed \in [Nodes -> SUBSET Items]
    /\ closed \in [Nodes -> BOOLEAN]
    /\ expired \subseteq Nodes \X Items
    /\ calls \subseteq Call
    /\ fluffing \subseteq Nodes \X Items
    /\ stems \subseteq Stem
    /\ flooded \subseteq Items
    /\ submitted \subseteq Nodes \X Items

-----------------------------------------------------------------------------
(* markSeenLocked: a full set is dropped first. *)
markSeenLocked(n, i) ==
    seen' = [seen EXCEPT ![n] = (IF Cardinality(seen[n]) >= SeenCap THEN {} ELSE seen[n]) \cup {i}]

(* timer.Stop and the deletion of the entry, if there is one. *)
cancel(n, i) ==
    /\ timers' = [timers EXCEPT ![n] = timers[n] \ {i}]
    /\ armed' = IF i \in timers[n] THEN [armed EXCEPT ![n] = armed[n] \ {i}] ELSE armed

markSeen(n, i) == markSeenLocked(n, i) /\ cancel(n, i)

-----------------------------------------------------------------------------
(* RouteTx and RouteCommitment.  originate goes to stemWithFailsafe with   *)
(* the successor of the epoch, or to an immediate fluff without peers.     *)
Originate(n, i) ==
    /\ <<n, i>> \in Submissions \ submitted
    /\ submitted' = submitted \cup {<<n, i>>}
    /\ \/ \E p \in Nodes \ {n} :
             calls' = calls \cup {[node |-> n, item |-> i, at |-> "arm",
                                   to |-> p, ttl |-> InitialTTL]}
       \/ calls' = calls \cup {[node |-> n, item |-> i, at |-> "mark", to |-> n, ttl |-> 0]}
    /\ UNCHANGED <<seen, timers, armed, closed, expired, fluffing, stems, flooded>>

(* onStemTx and onStemCommit: an item of another network, without a valid  *)
(* envelope or signature, or too large, is dropped in silence.             *)
PassesGates(i) == i \in Wellformed

(* relay drops what was seen; at hop budget zero, by the coin or without   *)
(* peers it fluffs, else it stems on.                                      *)
Relay(m) ==
    LET n == m.to i == m.item
        ignored == ~PassesGates(i) \/ i \in seen[n]
    IN  /\ m \in stems
        /\ stems' = stems \ {m}
        /\ \/ ignored /\ calls' = calls
           \/ /\ ~ignored
              /\ calls' = calls \cup {[node |-> n, item |-> i, at |-> "mark",
                                       to |-> n, ttl |-> 0]}
           \/ /\ ~ignored /\ m.ttl # 0
              /\ \E p \in Nodes \ {n} :
                    calls' = calls \cup {[node |-> n, item |-> i, at |-> "arm",
                                          to |-> p, ttl |-> m.ttl - 1]}
        /\ UNCHANGED <<seen, timers, armed, closed, expired, fluffing, flooded, submitted>>

Moved(c, at) ==
    (calls \ {c}) \cup
        {[node |-> c.node, item |-> c.item, at |-> at, to |-> c.to, ttl |-> c.ttl]}

(* scheduleFailsafe.  Faulty: an item past the cap is left to the stem. *)
scheduleFailsafeDropping(c) ==
    LET n == c.node i == c.item
        covered == closed[n] \/ i \in seen[n] \/ i \in timers[n]
        full == Cardinality(timers[n]) >= StempoolCap
    IN  /\ c \in calls /\ c.at = "arm"
        /\ calls' = Moved(c, "send")
        /\ IF covered \/ full THEN UNCHANGED <<timers, armed>>
           ELSE /\ timers' = [timers EXCEPT ![n] = timers[n] \cup {i}]
                /\ armed' = [armed EXCEPT ![n] = armed[n] \cup {i}]
        /\ UNCHANGED <<seen, fluffing, closed, expired, stems, flooded, submitted>>

scheduleFailsafe(c) ==
    LET n == c.node i == c.item
        covered == closed[n] \/ i \in seen[n] \/ i \in timers[n]
        full == Cardinality(timers[n]) >= StempoolCap
    IN  /\ c \in calls /\ c.at = "arm"
        /\ calls' = Moved(c, "send")
        /\ \/ /\ covered
              /\ UNCHANGED <<seen, timers, armed, fluffing>>
           \/ /\ ~covered /\ full
              /\ markSeenLocked(n, i)
              /\ fluffing' = fluffing \cup {<<n, i>>}
              /\ UNCHANGED <<timers, armed>>
           \/ /\ ~covered /\ ~full
              /\ timers' = [timers EXCEPT ![n] = timers[n] \cup {i}]
              /\ armed' = [armed EXCEPT ![n] = armed[n] \cup {i}]
              /\ UNCHANGED <<seen, fluffing>>
        /\ UNCHANGED <<closed, expired, stems, flooded, submitted>>

(* sendStem succeeds, which does not mean that the message arrives, ... *)
SendStem(c) ==
    /\ c \in calls /\ c.at = "send"
    /\ calls' = calls \ {c}
    /\ stems' = stems \cup {[to |-> c.to, item |-> c.item, ttl |-> c.ttl]}
    /\ UNCHANGED <<seen, timers, armed, closed, expired, fluffing, flooded, submitted>>

(* ... or fails: the fail-safe is dismissed, then the item fluffed. *)
SendFails(c) ==
    /\ c \in calls /\ c.at = "send"
    /\ calls' = Moved(c, "dismiss")
    /\ UNCHANGED <<seen, timers, armed, closed, expired, fluffing, stems, flooded, submitted>>

(* Faulty: the caller takes the dismissed item for handled. *)
dismissAndReturn(c) ==
    /\ c \in calls /\ c.at = "dismiss"
    /\ calls' = calls \ {c}
    /\ cancel(c.node, c.item)
    /\ UNCHANGED <<seen, closed, expired, fluffing, stems, flooded, submitted>>

dismissFailsafe(c) ==
    /\ c \in calls /\ c.at = "dismiss"
    /\ calls' = Moved(c, "mark")
    /\ cancel(c.node, c.item)
    /\ UNCHANGED <<seen, closed, expired, fluffing, stems, flooded, submitted>>

(* markSeen, before the publication. *)
fluffQuietly(c) ==
    /\ c \in calls /\ c.at = "mark"
    /\ calls' = calls \ {c}
    /\ markSeen(c.node, c.item)
    /\ fluffing' = fluffing \cup {<<c.node, c.item>>}
    /\ UNCHANGED <<closed, expired, stems, flooded, submitted>>

-----------------------------------------------------------------------------
Expire(n, i) ==
    /\ i \in armed[n]
    /\ armed' = [armed EXCEPT ![n] = armed[n] \ {i}]
    /\ expired' = expired \cup {<<n, i>>}
    /\ UNCHANGED <<seen, timers, closed, calls, fluffing, stems, flooded, submitted>>

(* The callback of scheduleFailsafe.  Faulty: the mark is forgotten. *)
FailsafeUnmarked(n, i) ==
    /\ <<n, i>> \in expired
    /\ expired' = expired \ {<<n, i>>}
    /\ fluffing' = IF closed[n] \/ i \in seen[n] THEN fluffing ELSE fluffing \cup {<<n, i>>}
    /\ UNCHANGED <<seen, timers, armed, closed, calls, stems, flooded, submitted>>

Failsafe(n, i) ==
    /\ <<n, i>> \in expired
    /\ expired' = expired \ {<<n, i>>}
    /\ timers' = [timers EXCEPT ![n] = timers[n] \ {i}]
    /\ IF closed[n] \/ i \in seen[n]
       THEN UNCHANGED <<seen, fluffing>>
       ELSE markSeenLocked(n, i) /\ fluffing' = fluffing \cup {<<n, i>>}
    /\ UNCHANGED <<armed, closed, calls, stems, flooded, submitted>>

(* BroadcastTx and BroadcastCommitment; a closed node publishes nothing. *)
Publish(n, i) ==
    /\ <<n, i>> \in fluffing
    /\ fluffing' = fluffing \ {<<n, i>>}
    /\ flooded' = IF closed[n] THEN flooded ELSE flooded \cup {i}
    /\ UNCHANGED <<seen, timers, armed, closed, expired, calls, stems, submitted>>

(* A flooded item passes the pubsub validator of a node, its publisher's   *)
(* own included, which notifies the router.                                *)
Hear(n, i) ==
    /\ i \in flooded \cap Wellformed
    /\ markSeen(n, i)
    /\ UNCHANGED <<closed, expired, calls, fluffing, stems, flooded, submitted>>

(* Close stops every timer in the map. *)
Close(n) ==
    /\ ~closed[n]
    /\ closed' = [closed EXCEPT ![n] = TRUE]
    /\ armed' = [armed EXCEPT ![n] = armed[n] \ timers[n]]
    /\ timers' = [timers EXCEPT ![n] = {}]
    /\ UNCHANGED <<seen, expired, calls, fluffing, stems, flooded, submitted>>

(* The network, or a peer without a router, loses a stem. *)
Lose(m) ==
    /\ m \in stems
    /\ stems' = stems \ {m}
    /\ UNCHANGED <<seen, timers, armed, closed, expired, calls, fluffing, flooded, submitted>>

-----------------------------------------------------------------------------
StemInit ==
    /\ seen = [n \in Nodes |-> {}]
    /\ timers = [n \in Nodes |-> {}]
    /\ armed = [n \in Nodes |-> {}]
    /\ closed = [n \in Nodes |-> FALSE]
    /\ expired = {}
    /\ calls = {}
    /\ fluffing = {}
    /\ stems = Foreign
    /\ flooded = {}
    /\ submitted = {}

CallStep(c) ==
    scheduleFailsafe(c) \/ SendStem(c) \/ SendFails(c) \/ dismissFailsafe(c) \/ fluffQuietly(c)

StemNext ==
    \/ \E c \in calls : CallStep(c)
    \/ \E m \in stems : Relay(m) \/ Lose(m)
    \/ \E n \in Nodes, i \in Items :
          \/ Originate(n, i) \/ Expire(n, i) \/ Failsafe(n, i)
          \/ Publish(n, i) \/ Hear(n, i)
    \/ \E n \in Nodes : Close(n)

(* Goroutines keep running and timers expire; nothing is asked of the      *)
(* network or of the other nodes.                                          *)
StemFairness ==
    /\ \A n \in Nodes, i \in Items :
          /\ WF_stemVars(\E c \in calls : c.node = n /\ c.item = i /\ CallStep(c))
          /\ WF_stemVars(Expire(n, i))
          /\ WF_stemVars(Failsafe(n, i))
          /\ WF_stemVars(Publish(n, i))

StemSpec == StemInit /\ [][StemNext]_stemVars /\ StemFairness

-----------------------------------------------------------------------------
(* Somebody at n still answers for i: a timer, a callback, a publication   *)
(* or a call that ends in one of these.                                    *)
InHand(n, i) ==
    \/ i \in armed[n]
    \/ <<n, i>> \in expired
    \/ <<n, i>> \in fluffing
    \/ \E c \in calls : c.node = n /\ c.item = i /\ c.at # "send"

(* "So a submission is never lost": in every state, whatever sends fail,   *)
(* stems echo or are lost and however full the stempool is, a submitted    *)
(* item is flooded or its origin still answers for it, unless the origin   *)
(* was closed.                                                             *)
Covered ==
    \A n \in Nodes, i \in Items :
        <<n, i>> \in submitted /\ ~closed[n] => i \in flooded \/ InHand(n, i)

(* What a router has seen is flooded or about to be: a seen item may drop  *)
(* its fail-safe.                                                          *)
SeenFlooded ==
    \A n \in Nodes, i \in Items :
        i \in seen[n] /\ ~closed[n] => i \in flooded \/ <<n, i>> \in fluffing

(* An entry of the stempool stands for a timer that runs or has expired,   *)
(* and a seen item (or one of a closed node) has none: no fail-safe is     *)
(* forgotten in the pool, where it would take up its room for ever.        *)
StempoolSound ==
    \A n \in Nodes : \A i \in timers[n] :
        /\ i \in armed[n] \/ <<n, i>> \in expired
        /\ i \notin seen[n] /\ ~closed[n]

(* The fail-safe's promise: every submitted item is flooded in the end,    *)
(* although all stems may be lost.                                         *)
NeverLost ==
    \A s \in Submissions : s \in submitted ~> s[2] \in flooded \/ closed[s[1]]
=============================================================================
