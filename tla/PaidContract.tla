---------------------------- MODULE PaidContract ----------------------------
(***************************************************************************)
(* What the database promises about paid Full-AI provider operations: the  *)
(* CHECK constraints and the BEFORE triggers of migration 0020, with no    *)
(* worker, no lease clock and no provider.  PaidLedger is shown to         *)
(* implement this contract, i.e. the worker's SQL never attempts a write   *)
(* that the triggers would have to reject.                                 *)
(***************************************************************************)
EXTENDS Naturals

CONSTANTS Ops,        \* paid operations of one Full-AI run
          ClipCost    \* authorized_amount_minor of every operation

VARIABLE row          \* full_ai_paid_operations, one record per operation

Terminal == {"succeeded", "failed", "cancelled"}
Statuses == {"absent", "reserved", "submitting", "submitted",
             "submit_unknown"} \union Terminal

NoTask == 0

\* CHECK constraints task_shape, cost_bounds and result_shape.
RowShape(r) ==
  /\ r.status \in {"submitted", "succeeded"} => r.task # NoTask
  /\ r.incurred <= ClipCost
  /\ (r.status = "succeeded") <=> (r.result # "none")

\* The status graph of the trigger; staying put is always allowed.
Moves(s) ==
  CASE s = "reserved"       -> {"submitting", "failed", "cancelled"}
    [] s = "submitting"     -> {"reserved", "submitted", "submit_unknown",
                                "failed", "cancelled"}
    [] s = "submitted"      -> {"succeeded", "submit_unknown", "failed",
                                "cancelled"}
    [] s = "submit_unknown" -> {"submitted", "succeeded", "failed",
                                "cancelled"}
    [] OTHER                -> {}

\* validate_full_ai_paid_operation_transition.
TransitionAllowed(old, new) ==
  /\ new.status = old.status \/ new.status \in Moves(old.status)
  /\ old.task # NoTask => new.task = old.task
  /\ new.incurred >= old.incurred
  /\ old.status \in Terminal =>
       /\ new.incurred = old.incurred
       /\ new.task = old.task
       /\ new.result = old.result
  /\ (old.status = "submitting" /\ new.status = "reserved") =>
       /\ old.task = NoTask /\ new.task = NoTask
       /\ new.incurred = 0
       /\ new.rejected

Absent == [status |-> "absent", task |-> NoTask, incurred |-> 0,
           result |-> "none", rejected |-> FALSE]

CInit == row = [o \in Ops |-> Absent]

\* One statement writes one operation; its new value is row'[o].
Writes(o) == row' = [row EXCEPT ![o] = row'[o]] /\ RowShape(row'[o])

Insert(o) ==
  /\ row[o].status = "absent" /\ row'[o].status # "absent"
  /\ Writes(o)

Update(o) ==
  /\ row[o].status # "absent"
  /\ Writes(o)
  /\ TransitionAllowed(row[o], row'[o])

CNext == \E o \in Ops : Insert(o) \/ Update(o)

ContractSpec == CInit /\ [][CNext]_row
=============================================================================
