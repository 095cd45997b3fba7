# TLA+ models of basilica's validator scoring and collateral client

These modules model the parts of basilica (open-junius/basilica) that decide
which miners get rewarded, how much, and what happens to their collateral:

- the validator's GPU scoring engine (`crates/validator/src/gpu/gpu_scoring.rs`);
- the weight allocation that follows it, as in spec §4.5 and the
  weight-setting integration test;
- the collateral contract client (`crates/collateral/src/lib.rs`), together
  with the contract it drives, decoded from the runtime bytecode that the
  `sol!` block embeds (line 13).

The models are checked with TLC.

## 1. The system and how its parts interact

| part | code | state | operations |
|---|---|---|---|
| Verification score | `calculate_verification_score` (gpu_scoring.rs:102-161) | none (pure) | score = pass ratio × min(avg valid GPUs / 8, 1); `valid_gpu_count` is a u32 |
| Profile updater | `update_miner_profile_from_validation` (37-98) | the profile store | score → `MinerGpuProfile::new` (stamped `Utc::now()`) → awaited `upsert_gpu_profile` (full replace) |
| Category aggregator | `get_miners_by_gpu_category` (167-267) | reads store + metagraph | epoch filter; uid < hotkeys, axon present, ip≠0 and port≠0; H100/H200 counts by normalised key; score split by device share over the u32 `total_rewardable_gpus` |
| Category statistics | `get_category_statistics` (272-357) | reads store | per category count, total, min, max, average |
| Categorizer | `categorization.rs` (not in src/) | none | `normalize_gpu_model` |
| Profile store | `GpuProfileRepository` (not in src/) | SQL table keyed by uid | upsert, get_all |
| Weight allocation | engine not in src/; integration test `validator_weight_setting_flow.rs` | none | base burn = ⌊T·burn%⌋; pool(c) = ⌊rest·share(c)%⌋; miner weight = ⌊pool·s/Σs⌋; empty-category pools go to the burn uid |
| Weight setter | not in src/ (test mocks) | last submission | submit the vector each epoch |
| Collateral client + contract | `lib.rs` | contract storage: executor → miner, collateral, pending total, reclaim records, id counter | deposit, reclaim_collateral, finalize_reclaim, deny_reclaim, slash_collateral, `reclaims` → `Reclaim::from` |
| CLI | `cli/args.rs`, `cli/handlers/mod.rs` | none | argument parsing, config loading, dispatch |

How the parts interact:

- Validation rounds of different miners run concurrently, and each writes its
  miner's profile through an awaited upsert.
- A reward cycle reads every profile, filters it and splits it into
  per-category lists. The allocation turns those lists into an integer weight
  vector for the chain.
- The statistics are a second, separate read of the same store.
- The collateral client is independent of scoring. Each of its transactions
  is one contract call that executes atomically or reverts.

## 2. Modules

| module | models | state / actions |
|---|---|---|
| `Ratios` | exact non-negative rationals in place of f64 | helper only |
| `GpuScoring` | the pure functions of gpu_scoring.rs and the categorizer | `CalculateVerificationScore`, `ScoreOverflowPanics`, `NewProfile`, `EpochFresh`, `AxonActive`, `RewardableGpuCounts`, `CategoryEntries`, `GetMinersByGpuCategory`, `GetCategoryStatistics` |
| `WeightAllocation` | the allocation arithmetic | `BaseBurn`, `CategoryPool`, `MinerWeight`, `EmptyCategoryBurn`, `AllocateWeights` |
| `ScoringService` | the abstract specification: what scoring promises | VARIABLES `store`, `now`, `metagraph`, `submitted`; actions `RecordRound`, `Tick`, `Cycle` |
| `ScoringPipeline` | the composition: rounds, store, clock, reward cycles | VARIABLES `store`, `inflight`, `now`, `metagraph`, `submitted`, `panicked`; actions `BeginValidationRound`, `ValidationRoundPanics`, `UpsertGpuProfile`, `UpsertFails`, `AdvanceClock`, `RewardCycle` |
| `MCScoringPipeline` | model values for TLC | 2 miners, round and metagraph sets |
| `ScoreReference` | `calculate_verification_score` against a reference and the unit tests; `get_category_statistics` against its unit test | VARIABLES `batch`, `score`; actions `Extend`, `NextRound` |
| `MCScoreReference` | model values | results of H100 or A100, counts 0..9 and 16, up to 3 results; uids 1..3 and H200 for the statistics test |
| `CollateralClient` | the five transactions, the contract's storage, and the `reclaims` read | VARIABLES `executorToMiner`, `collaterals`, `pendingReclaims`, `reclaims`, `reclaimCount`, `now`; ghosts `paid`, `burned`, `deposited`, `slashed`, `lastReclaim` |
| `CollateralCaller` | each client call as send, mining and receipt, with the caller's retries | VARIABLES `call`, `mempool`, `ledger`, `sends`; actions `Begin`, `SendTx`, `SendFails`, `Mine`, `Receipt`, `ReceiptLost`, `Retry`, `GiveUp` |
| `MCCollateralClient` | model values, miner symmetry, `ContractSpec` (atomic calls) | the collateral cfgs |

### How the model's state and actions correspond to the code

Scoring pipeline:

- **`store`** is the profile table. `NoProfile` stands for a uid with no row.
- **`inflight`** holds the profiles built at line 49 whose upsert (line 52)
  has not returned yet.
  - `UpsertGpuProfile` is the upsert succeeding.
  - `UpsertFails` is the upsert returning `Err`, which `?` propagates, leaving
    the store as it was.
- **`panicked`** records that a round's `calculate_verification_score` hit
  the u32 overflow check of line 122 in a debug build
  (`ValidationRoundPanics`). Nothing is stored for that round.
- **`now`** is `Utc::now()` in whole hours.
- **`metagraph`** is the snapshot a caller passes to
  `get_miners_by_gpu_category`.
- **`submitted`** is the last vector the weight setter handed over.
- **`validations`** is a ghost field of each profile. It keeps the round's
  raw input, which the reference definitions are stated on. No code reads it.

Integer widths:

- GPU counts are u32 in the code. The model keeps the width as the constant
  `GpuCountBits`, reduced so that TLC's integers suffice.
- `OverflowChecks` selects the build. In a debug build an overflowing `+=`
  panics. In a release build it wraps (`WrappingSum`).
- In a debug build the sum at line 235 cannot overflow: a profile's
  rewardable counts are part of a round whose `valid_gpu_count` already passed
  the check at line 122.

Collateral contract, as the bytecode executes it:

- **deposit** requires `msg.value >= MIN_COLLATERAL_INCREASE`. The first
  depositor becomes the executor's miner, and later deposits must come from
  that miner.
- **reclaimCollateral** needs the caller to be the miner. It claims
  `collateral - pending`, a checked subtraction that reverts when the result
  would be negative and also when it is 0. It opens request `++id` with
  deadline `now + DECISION_TIMEOUT`.
- **finalizeReclaim** can be called by anyone once `deadline < now`. It
  deletes the request, lowers the pending total, requires enough collateral,
  pays the request's miner, and then sets `executorToMiner` to 0.
- **denyReclaimRequest** is for the trustee, while `now <= deadline`. It
  deletes the request and lowers the pending total.
- **slashCollateral** is for the trustee. It burns all collateral and clears
  the miner, but leaves requests and the pending total as they were.
- Each client function signs, sends and awaits one such call. In
  `CollateralClient` the call is one atomic step (`Spec`, and `ContractSpec`
  in the MC module).

Collateral transport (`CollateralCaller`):

- **`SendTx`** is `tx.send().await?` succeeding. `send` estimates gas against
  the chain's current state first, so a call that would revert now fails
  here (**`SendFails`**, which also stands for an RPC error). Nothing is sent
  then.
- **`mempool[a]`** holds a's sent, unmined transactions in nonce order.
  **`Mine(a)`** executes the oldest of them. It applies the contract
  action, or it reverts when the contract's checks no longer hold.
- **`Receipt`** is `get_receipt().await` returning, and the function
  returns `Ok(())`. **`ReceiptLost`** is that await returning `Err`,
  before or after mining. The transaction stays in the mempool.
- **`ledger`** counts, per call, how often it took effect on chain.
- The callers are not under src/. Spec §1 and §7 leave retries to them, so
  after `Err` a caller may **`Retry`** the same call or **`GiveUp`**.
- `deposited`, `paid` and `slashed` are ghost ledgers per miner, used by the
  escrow property. A slash is charged to the executor's miner at most up to
  that miner's own balance.

## 3. Runs

| run | cfg | expect | shows |
|---|---|---|---|
| pipeline | `MCScoringPipeline.cfg` | pass | Over any interleaving of rounds, panics, failed upserts, ticks and cycles: TypeOK, EligibleIffQualified, ShareMatchesDevices, BudgetNeverExceeded, NoPoolDropped, and every listed miner carries a positive score (EligibleScorePositive) (~574k states, about 2 min) |
| service | `MCScoringPipeline_service.cfg` | pass | With two rounds in flight (serialised per miner), `ScoringPipeline` implements `ScoringService` (ImplementsScoringService). Under weak fairness of the reward cycle, a miner that stays qualified is rewarded again and again (QualifiedMinerRewarded) (about 45 s) |
| score_reference | `MCScoreReference.cfg` | pass | The score equals the spec §4.2 reference on every batch of ≤ 3 results, and each unit-test batch gets its asserted score. `get_category_statistics` over the three profiles of `test_category_statistics` returns exactly the asserted statistics (ScoreMatchesTests) |
| collateral | `MCCollateralClient.cfg` | pass | Calls go through send, mining in nonce order and a receipt that may be lost, and callers retry. The pending total per executor always equals the sum of its open requests (PendingMatchesReclaims). A finalize or deny call never takes effect twice (DecisionCallsTakeEffectOnce) (~2.2M states, about 80 s) |
| stats | `MCScoringPipeline_stats.cfg` | violation | The statistics count miners that the category lists exclude for age or axon |
| overlap | `MCScoringPipeline_overlap.cfg` | violation | Two rounds of one miner in flight: an older profile overwrites a newer one |
| debug_overflow | `MCScoringPipeline_debug_overflow.cfg` | violation | A round of 9 H100 + 9 H200 panics at a 4-bit width (NoPanic) |
| release_overflow | `MCScoringPipeline_release_overflow.cfg` | violation | The same round in release wraps the share denominator, so a category score exceeds the device share |
| collateral_retry | `MCCollateralClient_retry.cfg` | violation | A deposit whose receipt is lost returns `Err` but is mined. The caller's retry deposits a second time (CallTakesEffectOnce) |
| reclaim_decode | `MCCollateralClient_decode.cfg` | violation | `reclaims()` returns executor_id 0 for a request made for executor 300 |
| collateral_slash_theft | `MCCollateralClient_theft.cfg` | violation | The slashed miner is paid out of another miner's deposit |
| collateral_finalize_theft | `MCCollateralClient_finalize.cfg` | violation | With no slashing at all, a second miner takes over an executor and reclaims the first miner's collateral |

### Mutants

Each property of a passing run has a mutant. The mutant is a plausible bug
in the mapped code, and it makes TLC report that property violated:

| mutant | property |
|---|---|
| burn percentage without the division by 100 | TypeOK (pipeline) |
| axon dead only when both ip and port are 0 | EligibleIffQualified, ImplementsScoringService |
| device share over all GPUs, OTHER included | ShareMatchesDevices |
| pools cut from the whole budget | BudgetNeverExceeded |
| GPU counts summed over failed results | NoPoolDropped, EligibleScorePositive |
| epoch comparison made inclusive (`<=`) | QualifiedMinerRewarded |
| average GPU count over all results | ScoreMatchesReference |
| GPU weight not capped at 1 | ScoreMatchesTests |
| category minimum folded from 0.0 | ScoreMatchesTests |
| finalize without the collateral check | TypeOK (collateral) |
| deny that leaves the amount pending | PendingMatchesReclaims |
| deny that keeps the request | DecisionCallsTakeEffectOnce |

### Findings

1. **Reclaim decode (code bug, `lib.rs:40`).**
   - The id is sent as 16 big-endian bytes.
   - `Reclaim::from` reads a u16 from bytes 0..2, so every realistic id reads
     back as 0.
2. **Finalize clears the owner (code bug, contract bytecode, `lib.rs:13`).**
   - `finalizeReclaim` zeroes `executorToMiner` even when collateral remains.
   - A second miner can then deposit, become the executor's miner, and
     reclaim the first miner's remaining collateral.
3. **Slash leaves requests open (code bug, `lib.rs:13`).**
   - After a slash, a later deposit by another miner pays the slashed
     miner's old request.
4. **u32 overflow (`gpu_scoring.rs:122`, `:235`, `:302`).**
   - Miner-reported counts that sum past u32 panic in debug builds, against
     spec §7.
   - In release builds they wrap. The share denominator can then be smaller
     than one category's count, inflating that category score beyond the
     miner's total.
5. **Lost receipts (spec/code divergence, `lib.rs:87`, `:114`, `:186`).**
   - Every client function returns `Err` when `get_receipt` fails after
     `send` succeeded, yet the transaction is mined. Spec §1 assumes that
     the client reports success or failure per call.
   - A caller that retries a deposit deposits twice. This is the run's trace.
   - The same model reaches two more routes:
     - a retried slash burns a deposit that the miner made after the first
       slash;
     - a retried reclaim files a new request after the trustee denied the
       first one.
   - Finalize and deny are safe to retry, because request ids are never
     reused (DecisionCallsTakeEffectOnce).
6. **Statistics unfiltered (spec/code divergence, `gpu_scoring.rs:276`).**
   - There is no epoch filter and no axon filter, unlike §4.4.
7. **Out-of-order upserts (spec gap, `gpu_scoring.rs:49/52`).**
   - Nothing serialises the rounds of one miner, so the store is
     last-writer-wins by completion.
   - The refinement holds only when the caller serialises rounds per miner
     (`OneRoundPerMiner`). With it FALSE the service run fails the same way
     the overlap run does.

## 4. Bounds and why they are enough

- **Miners {0, 1}.** Two miners give both list shapes: a miner alone in a
  category, and two miners sharing one.
- **Rounds (pipeline).** Seven rounds:
  - empty;
  - 2×H100;
  - H100 under two labels with an H200 that passes and one that fails
    attestation (two labels of one model, pass ratio);
  - A100×9 with an H200 (OTHER exclusion, the split);
  - a single failing round;
  - 9×H100 with 9×H200, whose sum 18 exceeds the 4-bit width
    (`GpuCountBits = 4`), while every single count fits;
  - a passing H100 executor reporting 0 GPUs next to a failed one with two
    (score 0, the case of `gpu_scoring.rs:133`).
- **Service run.** It keeps the two multi-model rounds, so that
  `MaxInFlight = 2` and the refinement check stay within minutes.
- **Metagraphs.** Four snapshots:
  - all axons live;
  - a uid at or past `hotkeys`;
  - port 0;
  - ip 0 with a missing axon entry.
- **MaxTime 2, CutoffHours 1.** A profile can be fresh, exactly at the cutoff
  (kept), or stale.
- **Allocation.** The real constants: 65535, 10 %, 60/40.
- **ScoreReference.** Counts 0..9 and 16 cover these cases: zero, below
  the cap, above the cap, and mixed averages. They also cover every batch the
  unit tests score. The width is 6 bits, so three results never overflow.
  With up to three results there are 689,305 batches, checked in about 50 s.
  The statistics test is evaluated in every state, which makes the run slower.
  The score never reads the GPU label, so results carry only two labels.
- **Collateral, transport (collateral and collateral_retry runs).**
  - One miner and the trustee, one executor, amount 1, one request id,
    time ≤ 2, ≤ 4 calls and ≤ 4 sends.
  - This is enough for a deposit, reclaim, slash and finalize sequence,
    which the TypeOK mutant needs, and for every retry of one call.
  - The slash and reclaim retry routes were also reached: the reclaim route
    with two request ids, the slash route with these bounds.
  - With two request ids the pass run also holds. It reaches 6.2M states in
    about 4 min 50 s with deposits ≤ 2, too close to the 5-minute budget to
    keep. One id suffices for DecisionCallsTakeEffectOnce: the contract's
    request counter never issues an id twice, so a second id adds no case
    where a retried decision could hit another request.
- **Collateral, atomic (theft and decode runs).**
  - 2 miners, 2 executors, amounts {1, 2}, total deposits ≤ 4, ≤ 3 requests,
    time ≤ 5, `DecisionTimeout` 1.
  - Both theft routes need five or six transactions plus the deadline, which
    these bounds allow.
  - The decode run uses executor id 300, whose low byte is nonzero.

Every action and every disjunct of each `Next` fires in the passing runs.
None of the systems has a terminal state: a reward cycle, `NextRound` and
`reclaims()` are always enabled. Deadlock is therefore checked.

## 5. Fairness and refinement

The spec says that validators allocate the budget every epoch (§1, §2), so a
reward cycle cannot be postponed for ever. The service run assumes exactly
that, weak fairness of `RewardCycle`, and nothing else:

- Rounds and clock ticks are not assumed to happen.
- A failed upsert is allowed to repeat.

Without this fairness QualifiedMinerRewarded fails, because cycles may stop.

An earlier version also assumed weak fairness of each miner's upsert and
checked that every miner's rounds settle. That property was withdrawn. It
followed from the assumed fairness together with the model's
one-round-per-miner guard (`OneRoundPerMiner`). That guard is a scheduling
assumption of the service run, and lines 37-49 do not contain it. So no
change to the code could break the property.

The refinement is `Service == INSTANCE ScoringService WITH store <- store,
now <- now, metagraph <- metagraph, submitted <- submitted`, checked as the
PROPERTY `ImplementsScoringService`. Under this mapping, `inflight` and
`panicked` are internal:

- a completed upsert is `RecordRound`;
- a failed upsert, a panic and the start of a round are stuttering steps;
- a reward cycle is `Cycle`.

`RewardCycleFairness` states `WF_vars(RewardCycle)` in its defining form
`[]<>~ENABLED <<A>>_vars \/ []<><<A>>_vars`, with `ENABLED` written out as
`submitted # AllocateWeights(Eligible)`. TLC's own evaluation of `ENABLED` on
the allocation is several thousand times slower. `QualifiedMinerRewarded` is
written `[]<>(~Qualified \/ Rewarded)`, the equivalent of
`<>[]Qualified => []<>Rewarded` that needs no tableau.

## 6. Abstractions and what is not modelled

- **Scores.** f64 scores are exact rationals, and f64 rounding is not
  modelled.
- **Data.**
  - Dropped because no filter or weight reads them: executor ids, memory
    size, timestamps of results, `primary_gpu_model`
    (`determine_primary_gpu_model` feeds only a log line) and
    `verification_count`.
  - Logging and metrics are left out.
- **Sort order.** The descending sort of each list is not kept, because the
  allocation is order-independent.
- **Collateral client.**
  - Provider set-up, URLs, checksums and events are left out.
  - The getters (`netuid`, `trustee`, `decision_timeout`,
    `min_collateral_increase`, `executor_to_miner`, `collaterals`) each read
    one storage slot and change nothing. No code under src/ acts on what
    they return, so they are not modelled. `reclaims` is modelled, because
    its decode is a finding.
  - The callers' retry policy is modelled from the spec (`Begin`, `Retry`,
    `GiveUp`), because no caller is under src/.
  - Gas estimation is modelled as "the call would not revert now". Gas
    prices, fees and replacement of a pending transaction are not modelled.
  - Two things are not modelled because I could not check them against the
    dependency's source: whether `get_receipt` reports a reverted receipt
    as `Ok`, and how the provider picks the nonce of a retry. Instead,
    `ReceiptLost` may fire after any mining.
- **Zero-GPU score (not a run).** A passing, attested result with
  `gpu_count` 0 scores 0. Spec §8 ties a zero score to there being no
  passing result, so the code diverges from it here (`gpu_scoring.rs:133`).
  This was a violation run in an earlier version. That run was retired to
  make room for the retry run.
  - The pipeline run checks that the divergence is harmless downstream:
    such a miner has no valid devices, so it is never listed
    (EligibleScorePositive).
  - A listed miner with score 0 would take no weight. A category whose
    listed scores all sum to 0 would divide 0 by 0 in the allocation, and
    the f64 NaN casts to 0, so its pool would be neither paid nor burned.
- **CLI.** `args.rs` and `handlers/mod.rs` parse arguments, load a TOML file
  and dispatch. They hold no state that any property concerns.
- **Tests.** The repository's SQL epoch tests and the live-network miner
  tests are not modelled. The unit-test scores of gpu_scoring.rs are
  (ScoreMatchesTests).
