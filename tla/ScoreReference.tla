-------------------------- MODULE ScoreReference ---------------------------
(***************************************************************************)
(* calculate_verification_score (gpu_scoring.rs:102-161) checked over     *)
(* every validation batch up to MaxBatchLen results: against a reference  *)
(* definition written from spec section 4.2 as one fold over the batch,    *)
(* and against the values the unit tests of gpu_scoring.rs assert; the     *)
(* statistics test's profiles check get_category_statistics as well.       *)
(*                                                                         *)
(* The state is the batch a validation round hands to the engine, built   *)
(* one executor result at a time, and the score the engine returns for it. *)
(***************************************************************************)
EXTENDS GpuScoring, TLC

CONSTANTS
    ResultCounts,   \* gpu_count values an executor may report
    ResultModels,   \* GPU labels an executor may report
    MaxBatchLen     \* bound on the results of one round

ASSUME ResultCounts \subseteq 0..(GpuCountModulus - 1) /\ MaxBatchLen \in Nat
ASSUME ResultModels \subseteq RawGpuModels /\ {1, 2, 3} \subseteq Miners

\* The executor results a round may contain.
Results == [is_valid : BOOLEAN, attestation_valid : BOOLEAN,
            gpu_model : ResultModels, gpu_count : ResultCounts]

VARIABLES batch, score

vars == <<batch, score>>

Init ==
    /\ batch = <<>>
    /\ score = CalculateVerificationScore(<<>>)

\* One more executor result in the round; the engine scores the batch.
Extend(r) ==
    /\ Len(batch) < MaxBatchLen
    /\ batch' = Append(batch, r)
    /\ score' = CalculateVerificationScore(batch')

\* The next round starts from an empty batch.
NextRound ==
    /\ batch # <<>>
    /\ batch' = <<>>
    /\ score' = CalculateVerificationScore(<<>>)

Next == (\E r \in Results : Extend(r)) \/ NextRound

Spec == Init /\ [][Next]_vars

-----------------------------------------------------------------------------
(* Reference: spec 4.2 as a single left fold over the batch, accumulating *)
(* total, valid and valid device counts, then the closed form.            *)

RECURSIVE Tally(_)
Tally(s) ==
    IF s = <<>> THEN [total |-> 0, valid |-> 0, devices |-> 0]
    ELSE LET t == Tally(Tail(s))
             ok == Head(s).is_valid /\ Head(s).attestation_valid
         IN  [total   |-> t.total + 1,
              valid   |-> t.valid + (IF ok THEN 1 ELSE 0),
              devices |-> t.devices + (IF ok THEN Head(s).gpu_count ELSE 0)]

RefScore(s) ==
    LET t == Tally(s)
    IN  IF t.total = 0 \/ t.valid = 0 THEN RZero
        ELSE RMul(Rat(t.valid, t.total),
                  RMin(Rat(t.devices, t.valid * MaxGpuCount), ROne))

\* The engine's score equals the reference for every batch: pass ratio,
\* average over valid results only, the cap at MAX_GPU_COUNT, and the
\* empty and all-failed cases.
ScoreMatchesReference == score = RefScore(batch)

\* A result of the unit tests: pass flags, model and GPU count.
T(v, a, n) == [is_valid |-> v, attestation_valid |-> a, gpu_model |-> "H100", gpu_count |-> n]

\* The batches and expected scores asserted by test_verification_score_calculation.
ScoreCalculationCases ==
    {[vals |-> <<T(TRUE, TRUE, 2), T(TRUE, TRUE, 1)>>,       expected |-> Rat(3, 16)],
     [vals |-> <<T(FALSE, FALSE, 2)>>,                       expected |-> RZero],
     [vals |-> <<T(TRUE, TRUE, 2), T(FALSE, FALSE, 1)>>,     expected |-> Rat(1, 8)],
     [vals |-> <<>>,                                         expected |-> RZero],
     [vals |-> <<T(TRUE, TRUE, 1)>>,                         expected |-> Rat(1, 8)]}

\* test_gpu_count_weighting: n GPUs score n/8, and 16 GPUs are capped at 1.
GpuCountWeightingCases ==
    {[vals |-> <<T(TRUE, TRUE, n)>>, expected |-> Rat(n, 8)] : n \in 1..8}
    \cup {[vals |-> <<T(TRUE, TRUE, 16)>>, expected |-> ROne]}

\* test_miner_profile_update: the second round's profile, one GPU, scores
\* 1/8 whatever the first round scored (the profile is replaced).
ProfileUpdateCases == {[vals |-> <<T(TRUE, TRUE, 1)>>, expected |-> Rat(1, 8)]}

\* test_pass_fail_scoring_edge_cases: all failed, and two of three passed.
EdgeCaseCases ==
    {[vals |-> <<T(FALSE, FALSE, 1), T(TRUE, FALSE, 1)>>,    expected |-> RZero],
     [vals |-> <<T(TRUE, TRUE, 1), T(FALSE, FALSE, 1), T(TRUE, TRUE, 1)>>,
                                                             expected |-> Rat(1, 12)]}

\* test_direct_score_update and test_scoring_ignores_gpu_memory: one passing
\* H100 scores 1/8, over a stored score of 0.2 and for every memory size
\* (memory is not a field of the model's results).
DirectUpdateCases == {[vals |-> <<T(TRUE, TRUE, 1)>>, expected |-> Rat(1, 8)]}

TestCases ==
    ScoreCalculationCases \cup GpuCountWeightingCases \cup ProfileUpdateCases
      \cup EdgeCaseCases \cup DirectUpdateCases

\* A profile of test_category_statistics: one model, its count, its score.
StatsTestProfile(uid, model, n, s) ==
    [miner_uid |-> uid, gpu_counts |-> (model :> n), total_score |-> s,
     last_updated |-> 0, validations |-> <<>>]

\* The store test_category_statistics fills: uids 1 and 2 with H100s
\* scoring 0.8 and 0.6, uid 3 with an H200 scoring 0.9.
StatsTestStore ==
    [m \in Miners |->
        CASE m = 1 -> StatsTestProfile(1, "H100", 2, Rat(4, 5))
          [] m = 2 -> StatsTestProfile(2, "H100", 1, Rat(3, 5))
          [] m = 3 -> StatsTestProfile(3, "H200", 1, Rat(9, 10))
          [] OTHER -> NoProfile]

\* The statistics that test asserts, per category.
StatsTestExpected ==
    ("H100" :> [miner_count |-> 2, average_score |-> Rat(7, 10), total_score |-> Rat(7, 5),
                min_score |-> Rat(3, 5), max_score |-> Rat(4, 5)])
    @@ ("H200" :> [miner_count |-> 1, average_score |-> Rat(9, 10), total_score |-> Rat(9, 10),
                   min_score |-> Rat(9, 10), max_score |-> Rat(9, 10)])

\* The engine reproduces every value the unit tests of gpu_scoring.rs
\* assert: whenever the round's batch is one a test scores, the engine
\* returns exactly that score (the tests allow 0.001 of f64 error; the
\* model is exact), and get_category_statistics over the test's three
\* profiles returns the counts, totals, averages, minima and maxima the
\* test asserts.
ScoreMatchesTests ==
    /\ \A tc \in TestCases : batch = tc.vals => score = tc.expected
    /\ GetCategoryStatistics(StatsTestStore) = StatsTestExpected
=============================================================================
