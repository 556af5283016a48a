--------------------------- MODULE MCRunScheduler ---------------------------
(* Instances of RunScheduler.                                               *)
EXTENDS RunScheduler, TLC

WorkerSymmetry == Permutations(Workers)
Chain == [s \in Steps |-> {s - 1} \ {0}]

\* Two events together are followed as long as the steps have had two attempts
\* between them, a single one until the run is over.
FewAttempts == used.lapse + used.call = 2 => step[1].att + step[2].att <= 2
=============================================================================
