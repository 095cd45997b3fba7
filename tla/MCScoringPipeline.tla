------------------------- MODULE MCScoringPipeline -------------------------
(***************************************************************************)
(* Model of the scoring pipeline for TLC: two miners, four metagraph       *)
(* snapshots, seven kinds of validation round, a three-hour clock with a    *)
(* one-hour epoch, and the reference budget (u16::MAX, 10% burn, 60/40).  *)
(***************************************************************************)
EXTENDS ScoringPipeline

MCMiners == {0, 1}

\* Raw labels: both canonical spellings, a vendor variant of H100, a
\* non-rewardable model, and the canonical catch-all itself.
MCRawGpuModels == {"H100", "NVIDIA H100 PCIe", "H200", "A100", "OTHER"}
MCGpuModelCategory ==
    [x \in MCRawGpuModels |->
        CASE x \in {"H100", "NVIDIA H100 PCIe"} -> "H100"
          [] x = "H200"                         -> "H200"
          [] OTHER                              -> "OTHER"]

Res(v, a, g, n) == [is_valid |-> v, attestation_valid |-> a, gpu_model |-> g, gpu_count |-> n]

\* Rounds: empty; one H100 executor with two GPUs; H100s under two labels
\* and an H200 passing next to an H200 failing attestation; a large A100
\* executor next to one H200; a single failed H100 executor; nine H100s
\* next to nine H200s, whose sum 18 exceeds a 4-bit count; a passing H100
\* executor reporting 0 GPUs next to a failed one with two (score 0).
MCBatches ==
    { <<>>,
      <<Res(TRUE, TRUE, "H100", 2)>>,
      <<Res(TRUE, TRUE, "NVIDIA H100 PCIe", 1), Res(TRUE, TRUE, "H100", 1),
        Res(TRUE, TRUE, "H200", 1), Res(TRUE, FALSE, "H200", 4)>>,
      <<Res(TRUE, TRUE, "A100", 9), Res(TRUE, TRUE, "H200", 1)>>,
      <<Res(FALSE, FALSE, "H100", 1)>>,
      <<Res(TRUE, TRUE, "H100", 9), Res(TRUE, TRUE, "H200", 9)>>,
      <<Res(TRUE, TRUE, "H100", 0), Res(FALSE, FALSE, "H100", 2)>> }

\* Rounds for the refinement run, where two rounds are in flight at once:
\* H100s under two labels with a passing and a failing H200; an A100
\* executor next to one H200.
MCServiceBatches ==
    { <<Res(TRUE, TRUE, "NVIDIA H100 PCIe", 1), Res(TRUE, TRUE, "H100", 1),
        Res(TRUE, TRUE, "H200", 1), Res(TRUE, FALSE, "H200", 4)>>,
      <<Res(TRUE, TRUE, "A100", 9), Res(TRUE, TRUE, "H200", 1)>> }

Axon(ip, port) == [ip |-> ip, port |-> port]

\* Snapshots: both axons live; uid 1 beyond the hotkeys though it has an
\* axon; uid 1 with port 0; uid 0 with ip 0 and no axon entry for uid 1.
MCMetagraphs ==
    { [hotkeys |-> 2, axons |-> <<Axon(1, 8091), Axon(1, 8091)>>],
      [hotkeys |-> 1, axons |-> <<Axon(1, 8091), Axon(1, 8091)>>],
      [hotkeys |-> 2, axons |-> <<Axon(1, 8091), Axon(1, 0)>>],
      [hotkeys |-> 2, axons |-> <<Axon(0, 8091)>>] }

MCCategoryShare == [c \in {"H100", "H200"} |-> IF c = "H100" THEN 60 ELSE 40]
=============================================================================
