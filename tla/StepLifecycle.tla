---------------------------- MODULE StepLifecycle ----------------------------
(***************************************************************************)
(* What a run promises about its steps, whoever executes them: the         *)
(* transition table of runtime/state_machine.py, dependencies before       *)
(* dependents, one attempt per start, no work after cancellation, and      *)
(* terminal states that only a manual retry reopens.                       *)
(***************************************************************************)
EXTENDS Naturals

CONSTANTS Steps, Deps

VARIABLES st,       \* status of each step, "absent" before its row exists
          att,      \* attempts each step has started
          stopped   \* cancellation of the run was accepted

vars == <<st, att, stopped>>

\* ALLOWED_TRANSITIONS, a start excepted.
Allowed ==
  [absent          |-> {"queued"},
   queued          |-> {"cancelled"},
   running         |-> {"awaiting_review", "retrying", "succeeded", "failed",
                        "cancelled"},
   awaiting_review |-> {"succeeded", "retrying", "failed", "cancelled"},
   retrying        |-> {"failed", "cancelled"},
   succeeded       |-> {}, failed |-> {}, cancelled |-> {}]

Init ==
  /\ st \in [Steps -> {"absent", "queued"}]
  /\ att = [s \in Steps |-> 0]
  /\ stopped = FALSE

Start(s) ==
  /\ st[s] \in {"queued", "retrying"} /\ ~stopped
  /\ \A d \in Deps[s] : st[d] = "succeeded"
  /\ st' = [st EXCEPT ![s] = "running"]
  /\ att' = [att EXCEPT ![s] = @ + 1]
  /\ UNCHANGED stopped

\* Once stopped, a step may fail, retry on paper or be cancelled, never deliver.
Move(s) ==
  /\ \E to \in Allowed[st[s]] :
       /\ stopped => to \notin {"succeeded", "awaiting_review"}
       /\ st' = [st EXCEPT ![s] = to]
  /\ UNCHANGED <<att, stopped>>

\* Cancellation ends every step that is not executing.
Stop ==
  /\ st' = [s \in Steps |->
              IF st[s] \in {"queued", "retrying", "awaiting_review"}
              THEN "cancelled" ELSE st[s]]
  /\ stopped' = TRUE
  /\ UNCHANGED att

\* The steps that depend on s, directly or through others.
Behind(s) ==
  LET Closed(U) == \A t \in Steps : Deps[t] \intersect (U \union {s}) # {} => t \in U
  IN  {t \in Steps : \A U \in SUBSET Steps : Closed(U) => t \in U}

\* A manual retry reopens a failed step and what was cancelled behind it.
Reopen(s) ==
  /\ st[s] = "failed" /\ ~stopped
  /\ \E behind \in SUBSET {t \in Behind(s) : st[t] = "cancelled"} :
       /\ st' = [t \in Steps |-> IF t = s THEN "retrying"
                                 ELSE IF t \in behind THEN "queued" ELSE st[t]]
  /\ UNCHANGED <<att, stopped>>

Next == Stop \/ \E s \in Steps : Start(s) \/ Move(s) \/ Reopen(s)

Spec == Init /\ [][Next]_vars
=============================================================================
