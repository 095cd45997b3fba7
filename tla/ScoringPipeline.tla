-------------------------- MODULE ScoringPipeline --------------------------
(***************************************************************************)
(* The validator's scoring pipeline: validation rounds fold executor       *)
(* results into miner profiles and upsert them into the profile store      *)
(* (GpuScoringEngine::update_miner_profile_from_validation); each reward   *)
(* cycle reads every stored profile, filters it by epoch and by the        *)
(* metagraph's axons, splits scores by category                            *)
(* (get_miners_by_gpu_category) and allocates the weight budget            *)
(* (WeightAllocation), whose vector is handed to the chain.                *)
(*                                                                         *)
(* A round is two steps, as in the code: the profile (stamped with the     *)
(* clock) is built before the store's upsert is awaited (line 49 / 52);    *)
(* the upsert then completes or returns an error.  Rounds of different     *)
(* miners, up to MaxInFlight of them, are awaited concurrently.            *)
(***************************************************************************)
EXTENDS GpuScoring, WeightAllocation, Functions

CONSTANTS
    Batches,      \* the validation rounds a miner can report (sequences of results)
    Metagraphs,   \* the metagraph snapshots the caller may pass in
    CutoffHours,  \* cutoff_hours of the epoch filter
    MaxTime,      \* bound on the clock, in hours
    MaxInFlight,  \* bound on the rounds whose upsert is still awaited
    OneRoundPerMiner  \* the caller awaits a miner's round before starting its next

ASSUME Batches \subseteq Seq(ValidationResult)
ASSUME \A mg \in Metagraphs :
          /\ mg.hotkeys \in Nat
          /\ mg.axons \in Seq([ip : Nat, port : Nat])
ASSUME CutoffHours \in Nat /\ MaxTime \in Nat /\ MaxInFlight \in Nat \ {0}
ASSUME OneRoundPerMiner \in BOOLEAN

VARIABLES
    store,      \* the profile store: miner uid -> profile or NoProfile
    inflight,   \* rounds whose profile is built and whose upsert is awaited
    now,        \* the clock, in hours
    metagraph,  \* the metagraph snapshot the caller passes to each cycle
    submitted,  \* the last weight vector handed to the chain
    panicked    \* a validation round's task has panicked

vars == <<store, inflight, now, metagraph, submitted, panicked>>

\* Nothing handed to the chain yet.
NoSubmission == [none |-> TRUE]

-----------------------------------------------------------------------------
TypeOK ==
    /\ \A m \in Miners :
          \/ store[m] = NoProfile
          \/ /\ store[m].miner_uid = m
             /\ store[m].validations \in Batches
             /\ store[m].last_updated \in 0..MaxTime
    /\ \A r \in inflight : r.miner \in Miners /\ r.profile.miner_uid = r.miner
    /\ Cardinality(inflight) <= MaxInFlight
    /\ now \in 0..MaxTime
    /\ metagraph \in Metagraphs
    /\ panicked \in BOOLEAN
    /\ \/ submitted = NoSubmission
       \/ /\ submitted.burn.uid = BurnUid
          /\ submitted.burn.weight \in 0..TotalWeight
          /\ \A c \in DOMAIN submitted.perCategory :
                \A e \in submitted.perCategory[c] :
                   e.uid \in Miners /\ e.weight \in 0..TotalWeight

Init ==
    /\ store = [m \in Miners |-> NoProfile]
    /\ inflight = {}
    /\ now = 0
    /\ metagraph \in Metagraphs
    /\ submitted = NoSubmission
    /\ panicked = FALSE

-----------------------------------------------------------------------------
(* update_miner_profile_from_validation, up to the awaited upsert: score,  *)
(* then the fresh profile stamped with the current time.                   *)
BeginValidationRound(m, vals) ==
    /\ Cardinality(inflight) < MaxInFlight
    /\ OneRoundPerMiner => \A r \in inflight : r.miner # m
    /\ ~ScoreOverflowPanics(vals)
    /\ LET newScore == CalculateVerificationScore(vals)
       IN  inflight' = inflight \cup
                         {[miner |-> m, profile |-> NewProfile(m, vals, newScore, now)]}
    /\ UNCHANGED <<store, now, metagraph, submitted, panicked>>

\* calculate_verification_score overflows valid_gpu_count in a debug
\* build: the round's task unwinds before any profile is built or stored.
ValidationRoundPanics(m, vals) ==
    /\ ScoreOverflowPanics(vals)
    /\ panicked' = TRUE
    /\ UNCHANGED <<store, inflight, now, metagraph, submitted>>

\* The awaited upsert_gpu_profile completes: full replace of the slot.
UpsertGpuProfile(r) ==
    /\ r \in inflight
    /\ store' = [store EXCEPT ![r.miner] = r.profile]
    /\ inflight' = inflight \ {r}
    /\ UNCHANGED <<now, metagraph, submitted, panicked>>

\* The upsert returns an error: `?` propagates it, the store is unchanged.
UpsertFails(r) ==
    /\ r \in inflight
    /\ inflight' = inflight \ {r}
    /\ UNCHANGED <<store, now, metagraph, submitted, panicked>>

AdvanceClock ==
    /\ now < MaxTime
    /\ now' = now + 1
    /\ UNCHANGED <<store, inflight, metagraph, submitted, panicked>>

\* One reward cycle: category lists from a full read of the store, then
\* the allocation, handed to the chain.
RewardCycle ==
    /\ submitted' = AllocateWeights(
                      GetMinersByGpuCategory(store, now, CutoffHours, metagraph))
    /\ UNCHANGED <<store, inflight, now, metagraph, panicked>>

Next ==
    \/ \E m \in Miners, vals \in Batches : BeginValidationRound(m, vals)
    \/ \E m \in Miners, vals \in Batches : ValidationRoundPanics(m, vals)
    \/ \E r \in inflight : UpsertGpuProfile(r) \/ UpsertFails(r)
    \/ AdvanceClock
    \/ RewardCycle

Spec == Init /\ [][Next]_vars

-----------------------------------------------------------------------------
(* Properties                                                               *)

\* The category lists a cycle would compute in the current state.
Eligible == GetMinersByGpuCategory(store, now, CutoffHours, metagraph)

\* ENABLED <<RewardCycle>>_vars: a cycle run now would change the vector
\* (RewardCycle changes nothing but submitted).
CycleWouldChange == submitted # AllocateWeights(Eligible)

\* The weight setter runs a reward cycle every epoch, so a cycle is never
\* postponed for ever: WF_vars(RewardCycle), written out as
\* []<>~ENABLED <<A>>_vars \/ []<><<A>>_vars with ENABLED stated directly
\* (TLC evaluates ENABLED of the allocation far too slowly).
RewardCycleFairness == []<>~CycleWouldChange \/ []<><<RewardCycle>>_vars

FairSpec == Spec /\ RewardCycleFairness

\* Reference definition of reward eligibility, from the last stored round's
\* raw results: a miner is listed iff its profile is within the epoch, its
\* axon is live in the metagraph, and that round had a passing, attested
\* executor with GPUs of a rewardable model.
Qualified(m) ==
    /\ store[m] # NoProfile
    /\ store[m].last_updated + CutoffHours >= now
    /\ m < metagraph.hotkeys /\ m < Len(metagraph.axons)
    /\ metagraph.axons[m + 1].ip # 0 /\ metagraph.axons[m + 1].port # 0
    /\ \E r \in Range(store[m].validations) :
          IsValidAttested(r) /\ r.gpu_count > 0
          /\ NormalizeGpuModel(r.gpu_model) \in RewardableModels

\* get_miners_by_gpu_category lists exactly the qualified miners: the
\* epoch filter, the uid range and axon checks, the rewardable filter and
\* the profile built from only the valid results must agree.
EligibleIffQualified ==
    \A m \in Miners :
        (\E c \in DOMAIN Eligible : \E e \in Eligible[c] : e.uid = m) <=> Qualified(m)

\* A miner's entry in category c carries its score times the share of its
\* valid devices of model c among its valid rewardable devices (OTHER GPUs
\* excluded), so its entries add up to its score and no score is counted
\* twice across categories.
ShareMatchesDevices ==
    \A c \in DOMAIN Eligible : \A e \in Eligible[c] :
        LET vals == store[e.uid].validations
            rewardable == MapThenSumSet(LAMBDA x : ValidDevicesOf(vals, x), RewardableModels)
        IN  e.score = RMul(store[e.uid].total_score, Rat(ValidDevicesOf(vals, c), rewardable))

\* Every miner get_miners_by_gpu_category lists carries a positive score.
\* The score (calculate_verification_score, where a passing result with 0
\* GPUs scores 0) and the device counts that list the miner
\* (MinerGpuProfile::new) are computed separately from the same round; a
\* listed zero score would take no weight, and a category whose listed
\* scores are all zero would lose its pool in the 0/0 of the allocation.
EligibleScorePositive ==
    \A c \in DOMAIN Eligible : \A e \in Eligible[c] : e.score # RZero

\* No validation round panics, whatever the miners report (spec section 7:
\* no panic path is reachable from valid, even unusual, input data).
NoPanic == ~panicked

\* A miner that from some point on stays qualified (fresh, live, with
\* passing rewardable devices) is handed positive weight by the chain
\* submission again and again: the filters, the split and the floor
\* rounding of the allocation never starve it, and cycles keep coming.
Rewarded(m) ==
    /\ submitted # NoSubmission
    /\ \E c \in DOMAIN submitted.perCategory :
          \E e \in submitted.perCategory[c] : e.uid = m /\ e.weight > 0

\* (<>[]Q => []<>R is []<>~Q \/ []<>R, which is []<>(~Q \/ R).)
QualifiedMinerRewarded ==
    \A m \in Miners : []<>(~Qualified(m) \/ Rewarded(m))

\* The vector handed to the chain never distributes more than the budget.
BudgetNeverExceeded ==
    submitted # NoSubmission => TotalAllocated(submitted) <= TotalWeight

\* Every category's pool is accounted for: what the vector leaves out of
\* the budget is only rounding, less than one unit per rounded division
\* (one per pool, one per miner entry).
NoPoolDropped ==
    submitted # NoSubmission =>
        TotalWeight - TotalAllocated(submitted)
          < Cardinality(DOMAIN CategoryShare)
            + MapThenSumSet(LAMBDA c : Cardinality(submitted.perCategory[c]),
                            DOMAIN submitted.perCategory)

\* get_category_statistics describes the miners that get_miners_by_gpu_category
\* lists: same categories and the same number of miners in each (spec 4.4:
\* statistics come from the same filtered, proportionally scored data).
StatsMatchEligible ==
    LET stats == GetCategoryStatistics(store)
    IN  /\ DOMAIN stats = DOMAIN Eligible
        /\ \A c \in DOMAIN stats : stats[c].miner_count = Cardinality(Eligible[c])

\* The pipeline implements the scoring service (module ScoringService): each
\* completed upsert records its round at a stamp between the miner's last
\* record and now, a failed upsert or a panic records nothing, and every
\* reward cycle submits the allocation of exactly the lists the service
\* promises; the refinement maps every variable to itself.
Service == INSTANCE ScoringService
               WITH store <- store, now <- now, metagraph <- metagraph,
                    submitted <- submitted

ImplementsScoringService == Service!Spec

\* A stored profile is never replaced by one built earlier: the profile
\* store only moves forward in time for each miner.
StoreNeverRegresses ==
    [][\A m \in Miners :
          (store[m] # NoProfile /\ store'[m] # NoProfile)
             => store'[m].last_updated >= store[m].last_updated]_vars
=============================================================================
