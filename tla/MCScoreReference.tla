------------------------- MODULE MCScoreReference --------------------------
(* Model values for ScoreReference: H100, H200 and a non-rewardable      *)
(* model, the labels of the statistics test; executors report H100 or    *)
(* the non-rewardable one (the score never reads the label).  The cfg's  *)
(* GPU counts 0..9 and 16 (above MAX_GPU_COUNT) reach every batch of the *)
(* unit tests within three results; uids 1..3 hold the statistics test's *)
(* profiles.                                                             *)
EXTENDS ScoreReference

MCRawGpuModels == {"H100", "H200", "A100"}
MCGpuModelCategory == [x \in MCRawGpuModels |-> IF x = "A100" THEN "OTHER" ELSE x]
MCResultModels == {"H100", "A100"}
=============================================================================
