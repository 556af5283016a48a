-------------------------- MODULE MCAssetAnalysis --------------------------
(* Instances of AssetAnalysis.                                             *)
EXTENDS AssetAnalysis, TLC

CONSTANTS a1, a2, j1, j2

OneAsset == [j \in Jobs |-> a1]
OwnAsset == [j \in Jobs |-> IF j = j1 THEN a1 ELSE a2]
OneOfEach == [e \in Events |-> 1]
OneCrash == [e \in Events |-> IF e = "crash" THEN 1 ELSE 0]
WorkerSymmetry == Permutations(Workers)
=============================================================================
