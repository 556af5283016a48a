---------------------------- MODULE LeaseContract ----------------------------
(***************************************************************************)
(* What a leased queue promises about its jobs, whatever scripts,          *)
(* transactions and sorted sets implement it: a job is on one holder's     *)
(* lease at a time, is taken a bounded number of times, and leaves a lease *)
(* only through its holder, a cancellation, or the end of the lease.       *)
(***************************************************************************)
EXTENDS Integers

CONSTANTS Jobs, MaxAttempts

VARIABLES state,   \* "absent", "waiting", "leased", "succeeded", "failed", "cancelled"
          taken,   \* how often the job was leased
          live     \* the job's lease has not ended

Initially == /\ state = [j \in Jobs |-> "absent"]
             /\ taken = [j \in Jobs |-> 0] /\ live = [j \in Jobs |-> FALSE]

Goes(j, s, t, l) == state'[j] = s /\ taken'[j] = t /\ live'[j] = l
Stays(j) == Goes(j, state[j], taken[j], live[j])

Add(j)    == state[j] = "absent" /\ Goes(j, "waiting", 0, FALSE)
Extend(j) == state[j] = "leased" /\ Goes(j, "leased", taken[j], live'[j])
Return(j) == state[j] = "leased" /\ Goes(j, "waiting", taken[j], FALSE)
Settle(j) == state[j] = "leased" /\ Goes(j, "succeeded", taken[j], FALSE)
Cancel(j) == state[j] \in {"waiting", "leased"} /\ Goes(j, "cancelled", taken[j], FALSE)
GiveUp(j) == /\ state[j] \in {"waiting", "leased"} /\ taken[j] = MaxAttempts[j]
             /\ Goes(j, "failed", taken[j], FALSE)

\* A waiting job is leased, or one whose lease has ended, never another one.
Take(j) == /\ state[j] = "waiting" \/ (state[j] = "leased" /\ ~live[j])
           /\ taken[j] < MaxAttempts[j]
           /\ Goes(j, "leased", taken[j] + 1, TRUE)

\* One step may settle many jobs but takes at most one.
Promise ==
  \/ \E k \in Jobs : Take(k) /\ \A j \in Jobs \ {k} : Stays(j) \/ Return(j) \/ GiveUp(j)
  \/ \A j \in Jobs : \/ Stays(j) \/ Add(j) \/ Extend(j) \/ Return(j)
                     \/ Settle(j) \/ Cancel(j) \/ GiveUp(j)

Contract == Initially /\ [][Promise]_<<state, taken, live>>
=============================================================================
