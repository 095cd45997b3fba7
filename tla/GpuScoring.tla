----------------------------- MODULE GpuScoring -----------------------------
(***************************************************************************)
(* The pure functions of the validator's GPU scoring engine               *)
(* (crates/validator/src/gpu/gpu_scoring.rs) and of the categorizer it     *)
(* calls: the verification score of a validation round, the profile built  *)
(* from it, and the per-category eligibility of the stored profiles.       *)
(*                                                                         *)
(* Data is abstracted to what the filters and the arithmetic tell apart:   *)
(* a validation result keeps its two pass flags, its raw GPU label and its *)
(* GPU count; executor id, memory size and timestamp are dropped (the      *)
(* score never reads memory, line 102-161).  Time is a natural number of   *)
(* hours.  Scores are exact ratios (module Ratios).                        *)
(***************************************************************************)
EXTENDS Integers, Sequences, FiniteSets, FiniteSetsExt, Ratios

CONSTANTS
    Miners,            \* miner uids (small naturals)
    RawGpuModels,      \* GPU labels reported by executors, canonical ones included
    GpuModelCategory,  \* the categorizer's normalisation table, label -> canonical
    MaxGpuCount,       \* MAX_GPU_COUNT, the normalisation constant of the score
    GpuCountBits,      \* width of the u32 GPU counts (reduced for TLC)
    OverflowChecks     \* TRUE: a debug build (overflow panics); FALSE: release (wraps)

ASSUME Miners \subseteq Nat
ASSUME GpuModelCategory \in [RawGpuModels -> {"H100", "H200", "OTHER"}]
ASSUME MaxGpuCount \in Nat \ {0}
ASSUME GpuCountBits \in 1..30 /\ OverflowChecks \in BOOLEAN

\* One more than the largest GPU count the integer type holds.
GpuCountModulus == 2^GpuCountBits

\* A u32 sum of in-range terms as a release build computes it: the running
\* `+=` or `.sum()` wraps, which leaves the true sum modulo 2^bits.
WrappingSum(n) == n % GpuCountModulus

\* Canonical categories that earn rewards (the literals of line 218).
RewardableModels == {"H100", "H200"}

\* An ExecutorValidationResult, abstracted to the fields the code reads.
ValidationResult ==
    [is_valid: BOOLEAN, attestation_valid: BOOLEAN,
     gpu_model: RawGpuModels, gpu_count: 0..(GpuCountModulus - 1)]

\* Reserved value of a store slot that holds no profile.
NoProfile == [none |-> TRUE]

-----------------------------------------------------------------------------
(* Categorizer (crates/validator/src/gpu/categorization.rs, not in src/;  *)
(* modelled from spec section 4.1).                                        *)

NormalizeGpuModel(raw) == GpuModelCategory[raw]

\* A result counts only when both the executor and its attestation passed.
IsValidAttested(r) == r.is_valid /\ r.attestation_valid

\* Sum of gpu_count over the results with indices in I.
GpuSum(vals, I) == MapThenSumSet(LAMBDA i : vals[i].gpu_count, I)

\* Devices of canonical category c over the valid results of a round.
ValidDevicesOf(vals, c) ==
    GpuSum(vals, {i \in DOMAIN vals : IsValidAttested(vals[i])
                                      /\ NormalizeGpuModel(vals[i].gpu_model) = c})

\* Mutant: gpu_counts summed over every result, failed ones included.
NewProfileCountingFailed(uid, vals, score, now) ==
    LET cats == {NormalizeGpuModel(vals[i].gpu_model) : i \in DOMAIN vals}
        devs(c) == GpuSum(vals, {i \in DOMAIN vals : NormalizeGpuModel(vals[i].gpu_model) = c})
    IN  [miner_uid |-> uid, gpu_counts |-> [c \in {x \in cats : devs(x) > 0} |-> devs(c)],
         total_score |-> score, last_updated |-> now, validations |-> vals]

\* MinerGpuProfile::new: gpu_counts per canonical category over valid
\* results, zero counts omitted; a full replacement stamped with `now`.
\* `validations` keeps the round's input for the properties only.
NewProfile(uid, vals, score, now) ==
    LET cats == {NormalizeGpuModel(vals[i].gpu_model) : i \in DOMAIN vals}
        kept == {c \in cats : ValidDevicesOf(vals, c) > 0}
    IN  [miner_uid    |-> uid,
         gpu_counts   |-> [c \in kept |-> ValidDevicesOf(vals, c)],
         total_score  |-> score,
         last_updated |-> now,
         validations  |-> vals]

-----------------------------------------------------------------------------
(* GpuScoringEngine::calculate_verification_score                         *)

\* valid_gpu_count before it is stored in the u32 accumulator (line 122).
ValidGpuCount(vals) == GpuSum(vals, {i \in DOMAIN vals : IsValidAttested(vals[i])})

\* In a debug build the accumulation of line 122 panics on overflow.
ScoreOverflowPanics(vals) == OverflowChecks /\ ValidGpuCount(vals) >= GpuCountModulus

\* Mutant: the average GPU count taken over all results, failed ones included.
CalculateVerificationScoreOverAllResults(vals) ==
    IF vals = <<>> THEN RZero
    ELSE LET validCount == Cardinality({i \in DOMAIN vals : IsValidAttested(vals[i])})
         IN  RMul(Rat(validCount, Len(vals)),
                  RMin(RDiv(Rat(WrappingSum(ValidGpuCount(vals)), Len(vals)), Rat(MaxGpuCount, 1)), ROne))

\* Mutant: the GPU weight without the cap at 1.0.
CalculateVerificationScoreUncapped(vals) ==
    IF vals = <<>> THEN RZero
    ELSE LET validCount == Cardinality({i \in DOMAIN vals : IsValidAttested(vals[i])})
         IN  RMul(Rat(validCount, Len(vals)),
                  IF validCount > 0
                  THEN RDiv(Rat(WrappingSum(ValidGpuCount(vals)), validCount), Rat(MaxGpuCount, 1))
                  ELSE RZero)

CalculateVerificationScore(vals) ==
    IF vals = <<>> THEN RZero
    ELSE LET valid           == {i \in DOMAIN vals : IsValidAttested(vals[i])}
             validCount      == Cardinality(valid)
             validationRatio == Rat(validCount, Len(vals))
             avgGpuCount     == IF validCount > 0
                                THEN Rat(WrappingSum(ValidGpuCount(vals)), validCount)
                                ELSE RZero
             gpuWeight       == RMin(RDiv(avgGpuCount, Rat(MaxGpuCount, 1)), ROne)
         IN  RMul(validationRatio, gpuWeight)

-----------------------------------------------------------------------------
(* GpuScoringEngine::get_miners_by_gpu_category                           *)

\* Mutant: the comparison made inclusive, dropping profiles at the cutoff.
EpochFreshAtCutoffDropped(p, now, cutoffHours) == ~(p.last_updated <= now - cutoffHours)

\* Epoch filter: kept unless last_updated < now - cutoff_hours.
EpochFresh(p, now, cutoffHours) == ~(p.last_updated < now - cutoffHours)

\* Mutant: an axon counted inactive only when both ip and port are zero.
AxonActiveUnlessBothZero(uid, mg) ==
    /\ uid < mg.hotkeys
    /\ uid < Len(mg.axons)
    /\ ~(mg.axons[uid + 1].port = 0 /\ mg.axons[uid + 1].ip = 0)

\* Active-axon filter: the uid is below the metagraph's hotkey count, has
\* an axon entry, and neither its ip nor its port is zero.
AxonActive(uid, mg) ==
    /\ uid < mg.hotkeys
    /\ uid < Len(mg.axons)
    /\ ~(mg.axons[uid + 1].port = 0 \/ mg.axons[uid + 1].ip = 0)

\* The profile's gpu_counts with positive count whose normalised model is
\* rewardable, collected into a map keyed by the normalised model (two
\* keys with one normalisation keep one of their counts, as the collect
\* into a HashMap does).
RewardableGpuCounts(p) ==
    LET keys == {k \in DOMAIN p.gpu_counts :
                    p.gpu_counts[k] > 0 /\ NormalizeGpuModel(k) \in RewardableModels}
    IN  [c \in {NormalizeGpuModel(k) : k \in keys} |->
            p.gpu_counts[CHOOSE k \in keys : NormalizeGpuModel(k) = c]]

\* Mutant: the device share taken over all GPUs, OTHER included.
CategoryEntriesOverAllGpus(p) ==
    LET rc    == RewardableGpuCounts(p)
        total == MapThenSumSet(LAMBDA c : p.gpu_counts[c], DOMAIN p.gpu_counts)
    IN  {[uid |-> p.miner_uid, cat |-> c,
          score |-> IF total > 0 THEN RMul(p.total_score, Rat(rc[c], total)) ELSE RZero]
            : c \in DOMAIN rc}

\* The (uid, category, proportional score) entries one profile contributes:
\* its score split over its rewardable categories by device share, the
\* share's denominator being the u32 total_rewardable_gpus (line 235).  A
\* debug build cannot overflow here: the counts are part of a round whose
\* valid_gpu_count already passed the check of line 122.
CategoryEntries(p) ==
    LET rc    == RewardableGpuCounts(p)
        total == WrappingSum(MapThenSumSet(LAMBDA c : rc[c], DOMAIN rc))
    IN  {[uid   |-> p.miner_uid,
          cat   |-> c,
          score |-> IF total > 0 THEN RMul(p.total_score, Rat(rc[c], total))
                                 ELSE RZero] : c \in DOMAIN rc}

\* The store slots a full-table read returns.
StoredProfiles(store) == {store[m] : m \in {m \in Miners : store[m] # NoProfile}}

\* Category -> set of [uid, score], for the categories with an entry.  The
\* descending sort of each list (line 253-256) is not kept: no consumer of
\* the lists depends on their order.
GetMinersByGpuCategory(store, now, cutoffHours, mg) ==
    LET kept    == {p \in StoredProfiles(store) :
                       /\ EpochFresh(p, now, cutoffHours)
                       /\ AxonActive(p.miner_uid, mg)
                       /\ DOMAIN RewardableGpuCounts(p) # {}}
        entries == UNION {CategoryEntries(p) : p \in kept}
    IN  [c \in {e.cat : e \in entries} |->
            {[uid |-> e.uid, score |-> e.score] : e \in {x \in entries : x.cat = c}}]

-----------------------------------------------------------------------------
(* GpuScoringEngine::get_category_statistics                              *)

\* Mutant: the minimum folded from 0.0 (the max's starting value) instead of
\* from above every score.
GetCategoryStatisticsMinFromZero(store) ==
    LET entries == UNION {CategoryEntries(p) : p \in
                      {q \in StoredProfiles(store) : DOMAIN RewardableGpuCounts(q) # {}}}
        scores(c) == {e \in entries : e.cat = c}
    IN  [c \in {e.cat : e \in entries} |->
            LET es    == scores(c)
                total == RSum(es, LAMBDA e : e.score)
            IN  [miner_count   |-> Cardinality(es),
                 total_score   |-> total,
                 min_score     |-> FoldSet(LAMBDA e, acc : RMin(e.score, acc), RZero, es),
                 max_score     |-> FoldSet(LAMBDA e, acc : RMax(e.score, acc), RZero, es),
                 average_score |-> RDiv(total, Rat(Cardinality(es), 1))]]

\* CategoryStats per category with an entry, over every stored profile.
GetCategoryStatistics(store) ==
    LET entries == UNION {CategoryEntries(p) : p \in
                      {q \in StoredProfiles(store) : DOMAIN RewardableGpuCounts(q) # {}}}
        scores(c) == {e \in entries : e.cat = c}
    IN  [c \in {e.cat : e \in entries} |->
            LET es    == scores(c)
                total == RSum(es, LAMBDA e : e.score)
            IN  [miner_count   |-> Cardinality(es),
                 total_score   |-> total,
                 min_score     |-> FoldSet(LAMBDA e, acc : RMin(e.score, acc), ROne, es),
                 max_score     |-> FoldSet(LAMBDA e, acc : RMax(e.score, acc), RZero, es),
                 average_score |-> RDiv(total, Rat(Cardinality(es), 1))]]
=============================================================================
