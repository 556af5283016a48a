--------------------------- MODULE MCRunAdmission ---------------------------
(* TLC instance of RunAdmission.                                           *)
EXTENDS RunAdmission, TLC

CONSTANTS k1, k2, b1, c2, w2

Other == k1 :> k2 @@ k2 :> k1

\* Each kind of request beside the one it is most entangled with.
Webpages == k1 :> "webpage" @@ k2 :> "webpage"
Single == k1 :> "run" @@ k2 :> "full_ai"
Batches == k1 :> "batch" @@ k2 :> "retry"
Plain == k1 :> "run" @@ k2 :> "run"

Entangled == {Webpages, Single, Batches, Plain}

\* What is played with each of them.  Bodies of different keys are never
\* compared: the first one recorded for a key is b1.  The second client and
\* the second worker are there where they make a difference; only single runs
\* suffer two faults, and batches none after they are retried.  No fair action is cut
\* off: the first worker can always go on.
Scenarios ==
    /\ \A k \in Keys : record'[k] # record[k] => record'[k].print = b1 \/ kind[k] = "retry"
    /\ born' <= CASE kind \in {Single, Plain} -> 1 [] kind = Batches -> 3 [] OTHER -> 2
    /\ kind # Single => faults' <= IF born' = 3 THEN 0 ELSE 1
    /\ kind \in {Plain, Batches} => req'[c2] = Idle
    /\ kind # Plain => wk'[w2] = Free
=============================================================================
