---------------------------- MODULE MCPaidLedger ----------------------------
(* Two workers execute the generation step of a run with two candidates.    *)
EXTENDS PaidLedger, TLC

WorkerSymmetry == Permutations(Workers)
=============================================================================
