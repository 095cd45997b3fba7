-------------------------- MODULE ScoringService ---------------------------
(***************************************************************************)
(* What the validator's scoring service promises, without its mechanism:  *)
(* each validation round of a miner atomically records the profile built   *)
(* from it, stamped with a time no earlier than the miner's recorded       *)
(* profile and no later than now; a reward cycle hands the chain the       *)
(* allocation of the reward lists, where a miner is listed in a rewardable *)
(* category exactly when its recorded profile is within the epoch, its     *)
(* axon is live and its last round had passing devices of that category,  *)
(* at its score times the category's share of those devices.               *)
(*                                                                         *)
(* The lists are stated on the raw results of the recorded round, not on  *)
(* the profile's counts nor on the engine's filters, so ScoringPipeline    *)
(* (which awaits the store, filters, and splits by the stored counts)      *)
(* implements this specification only if those steps agree with it.       *)
(***************************************************************************)
EXTENDS GpuScoring, WeightAllocation

CONSTANTS Batches, Metagraphs, CutoffHours, MaxTime

VARIABLES store, now, metagraph, submitted

vars == <<store, now, metagraph, submitted>>

NoSubmission == [none |-> TRUE]

\* The stamp of the miner's recorded profile (0 when it has none).
RecordedSince(m) == IF store[m] = NoProfile THEN 0 ELSE store[m].last_updated

\* Passing devices of category c in the miner's recorded round.
Devices(m, c) == ValidDevicesOf(store[m].validations, c)

RewardableDevices(m) == MapThenSumSet(LAMBDA c : Devices(m, c), RewardableModels)

Live(m) ==
    /\ m < metagraph.hotkeys /\ m < Len(metagraph.axons)
    /\ metagraph.axons[m + 1].ip # 0 /\ metagraph.axons[m + 1].port # 0

Listed(m, c) ==
    /\ store[m] # NoProfile
    /\ store[m].last_updated + CutoffHours >= now
    /\ Live(m)
    /\ Devices(m, c) > 0

RewardLists ==
    [c \in {x \in RewardableModels : \E m \in Miners : Listed(m, x)} |->
        {[uid   |-> m,
          score |-> RMul(store[m].total_score, Rat(Devices(m, c), RewardableDevices(m)))]
            : m \in {y \in Miners : Listed(y, c)}}]

Init ==
    /\ store = [m \in Miners |-> NoProfile]
    /\ now = 0
    /\ metagraph \in Metagraphs
    /\ submitted = NoSubmission

RecordRound(m, vals) ==
    /\ ~ScoreOverflowPanics(vals)
    /\ \E t \in RecordedSince(m)..now :
          store' = [store EXCEPT ![m] =
                      NewProfile(m, vals, CalculateVerificationScore(vals), t)]
    /\ UNCHANGED <<now, metagraph, submitted>>

Tick ==
    /\ now < MaxTime
    /\ now' = now + 1
    /\ UNCHANGED <<store, metagraph, submitted>>

Cycle ==
    /\ submitted' = AllocateWeights(RewardLists)
    /\ UNCHANGED <<store, now, metagraph>>

Next ==
    \/ \E m \in Miners, vals \in Batches : RecordRound(m, vals)
    \/ Tick
    \/ Cycle

Spec == Init /\ [][Next]_vars
=============================================================================
