------------------------------- MODULE Rules -------------------------------
(***************************************************************************)
(* The consensus formulas of package ngtypes that a template and the check *)
(* of a block both compute: difficulty, base fee, rewards, fork schedule.  *)
(* The constants of the code are parameters, so that small numbers reach   *)
(* the clamps, the truncations and the boundaries.                         *)
(***************************************************************************)
EXTENDS Integers

CONSTANTS
    ForkHeight,             \* fork -> its activation height, NoFork for never
    NoFork,
    MinBaseFee,
    BaseFeeTargetBytes,
    BaseFeeMaxChangeDenom,  \* 8
    TargetTime,             \* 4000 ms
    DiffQuotient,           \* 2048
    DownSteps,              \* 99: the clamp of a step down
    BombEpoch,              \* 100000
    MinimumDiff,
    rewardEra,              \* 1000000
    minReward, floatingReward,
    UncleMaxDepth

ASSUME RulesAssumption ==
    /\ \A f \in DOMAIN ForkHeight : ForkHeight[f] \in Nat \cup {NoFork}
    /\ {MinBaseFee, BaseFeeTargetBytes, BaseFeeMaxChangeDenom, TargetTime, DiffQuotient,
        BombEpoch, MinimumDiff, rewardEra} \subseteq Nat \ {0}
    /\ {DownSteps, minReward, floatingReward, UncleMaxDepth} \subseteq Nat

IsForkActive(fork, height) == ForkHeight[fork] # NoFork /\ height >= ForkHeight[fork]

-----------------------------------------------------------------------------
clampMinBaseFee(x) == IF x < MinBaseFee THEN MinBaseFee ELSE x

(* The part of the parent's base fee that a distance from the target moves. *)
FeeDelta(fee, distance) == ((fee * distance) \div BaseFeeTargetBytes) \div BaseFeeMaxChangeDenom

NextBaseFee(parentHeight, parentBaseFee, used) ==
    LET parent == IF parentBaseFee <= 0 THEN MinBaseFee ELSE parentBaseFee
        up == FeeDelta(parent, used - BaseFeeTargetBytes)
    IN  IF ~IsForkActive("feeMarket", parentHeight + 1) THEN MinBaseFee
        ELSE clampMinBaseFee(
               IF used > BaseFeeTargetBytes THEN parent + (IF up = 0 THEN 1 ELSE up)
               ELSE parent - FeeDelta(parent, BaseFeeTargetBytes - used))

-----------------------------------------------------------------------------
(* big.Int.Quo truncates towards zero. *)
Quo(a, b) == IF a >= 0 THEN a \div b ELSE -((-a) \div b)

(* The height-driven bump: 2^(height/epoch - 2) from the second epoch on. *)
Bump(height) ==
    LET exp == height \div BombEpoch - 2 IN IF exp >= 0 THEN 2 ^ exp ELSE 0

GetNextDiff(height, time, parent) ==
    LET ahead == TargetTime - (time - parent.time)
        factor == IF ahead > TargetTime THEN TargetTime
                  ELSE IF ahead < -DownSteps * TargetTime THEN -DownSteps * TargetTime
                  ELSE ahead
        diff == parent.diff + Quo(parent.diff * factor, DiffQuotient * TargetTime) + Bump(height)
    IN  IF diff < MinimumDiff THEN MinimumDiff ELSE diff

-----------------------------------------------------------------------------
(* The floating part loses a tenth, rounded down, in every era. *)
Floating[era \in Nat] ==
    IF era = 0 THEN floatingReward
    ELSE Floating[era - 1] - Floating[era - 1] \div 10

GetBlockReward(height) == Floating[height \div rewardEra] + minReward

UncleReward(uncleHeight, nephewHeight) ==
    LET depth == nephewHeight - uncleHeight
    IN  IF depth \notin 1 .. UncleMaxDepth THEN 0
        ELSE (GetBlockReward(uncleHeight) * (UncleMaxDepth + 1 - depth)) \div (UncleMaxDepth + 1)
=============================================================================
