-------------------------- MODULE WeightAllocation --------------------------
(***************************************************************************)
(* The weight allocation engine: from the category lists of                *)
(* get_miners_by_gpu_category to the integer weight vector handed to the   *)
(* chain.  The engine itself is not in src/; this follows spec section 4.5 *)
(* and the arithmetic the weight-setting integration test performs         *)
(* (crates/integration-tests/tests/validator_weight_setting_flow.rs):      *)
(* every division rounds down, an empty category's pool goes to the burn   *)
(* uid, and the burn entry is always emitted.                              *)
(***************************************************************************)
EXTENDS Integers, FiniteSets, FiniteSetsExt, Ratios

CONSTANTS
    TotalWeight,       \* u16::MAX, the whole weight budget
    BurnPercentage,    \* percent of TotalWeight burned off the top
    CategoryShare,     \* rewardable category -> percent of the remainder
    BurnUid            \* uid of the burn sink

ASSUME TotalWeight \in Nat \ {0}
ASSUME BurnPercentage \in 0..100
\* Configuration validation: the shares cover the remainder exactly.
ASSUME /\ \A c \in DOMAIN CategoryShare : CategoryShare[c] \in 0..100
       /\ MapThenSumSet(LAMBDA c : CategoryShare[c], DOMAIN CategoryShare) = 100

\* Mutant: the burn percentage applied without the division by 100.
BaseBurnWithoutPercent == TotalWeight * BurnPercentage

\* (total_weight * burn_percentage / 100) as u16
BaseBurn == (TotalWeight * BurnPercentage) \div 100

RemainingWeight == TotalWeight - BaseBurn

\* Mutant: pools cut from the whole budget instead of what the burn leaves.
CategoryPoolOfTotal(c) == (TotalWeight * CategoryShare[c]) \div 100

\* (remaining_weight * share) as u64
CategoryPool(c) == (RemainingWeight * CategoryShare[c]) \div 100

\* (pool * score / total_score) as u16.  A category whose scores sum to 0
\* divides 0 by 0: the f64 NaN saturates to 0 in the cast.
MinerWeight(pool, score, totalScore) ==
    IF totalScore = RZero THEN 0 ELSE RFloorTimes(pool, RDiv(score, totalScore))

\* Weight entries of one non-empty category list.
CategoryWeights(c, list) ==
    LET totalScore == RSum(list, LAMBDA e : e.score)
    IN  {[uid |-> e.uid, weight |-> MinerWeight(CategoryPool(c), e.score, totalScore)]
            : e \in list}

\* Pools of the categories with no eligible miner, burned instead.
EmptyCategoryBurn(byCategory) ==
    MapThenSumSet(LAMBDA c : CategoryPool(c),
                  {c \in DOMAIN CategoryShare :
                      c \notin DOMAIN byCategory \/ byCategory[c] = {}})

\* The weight vector: entries per rewardable category plus the burn entry.
AllocateWeights(byCategory) ==
    [perCategory |-> [c \in DOMAIN CategoryShare |->
                        IF c \in DOMAIN byCategory /\ byCategory[c] # {}
                        THEN CategoryWeights(c, byCategory[c]) ELSE {}],
     burn        |-> [uid |-> BurnUid,
                      weight |-> BaseBurn + EmptyCategoryBurn(byCategory)]]

\* Sum of all weights of a vector, burn included.
TotalAllocated(w) ==
    w.burn.weight
      + MapThenSumSet(LAMBDA c : MapThenSumSet(LAMBDA e : e.weight, w.perCategory[c]),
                      DOMAIN w.perCategory)
=============================================================================
