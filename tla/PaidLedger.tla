----------------------------- MODULE PaidLedger -----------------------------
(***************************************************************************)
(* Paid video generation: PostgresPaidOperationLedger, the capability that *)
(* drives it for every candidate of a Full-AI run, and the provider that   *)
(* charges for each POST it accepts.  Several workers may execute the same *)
(* step at once, because a step whose lease expired is claimed again while *)
(* the first worker still runs.                                            *)
(*                                                                         *)
(* The wall clock is abstracted: a submit lease expires at any moment      *)
(* (LeaseExpires).  The fresh uuid4 lease token is represented by the      *)
(* worker that drew it: one worker holds at most one token at a time, and  *)
(* a row leaves "submitting" before that worker can draw another for it.   *)
(***************************************************************************)
EXTENDS Naturals, FiniteSets, FiniteSetsExt

CONSTANTS Workers,      \* processes able to execute the media.generate step
          NoWorker,     \* no lease holder
          N,            \* candidate_count of the frozen plan
          ClipCost,     \* authorized_amount_minor of one candidate
          RunBudget,    \* authorized_amount_minor of the run
          Costs         \* final costs the provider may report

ASSUME NAssumption == N \in Nat \ {0}
ASSUME MoneyAssumption ==
  /\ ClipCost \in Nat
  /\ RunBudget \in Nat
  /\ Costs \subseteq Nat
ASSUME WorkerAssumption == NoWorker \notin Workers

Ops == 1..N

VARIABLES op,        \* full_ai_paid_operations rows
          run,       \* the full_ai_runs row
          wk,        \* where each worker is in the capability
          posts,     \* POST requests on their way to the provider
          accepted,  \* tasks the provider accepted (and charges) per operation
          final      \* the provider's verdict on the task of an operation

vars == <<op, run, wk, posts, accepted, final>>

NoTask == 0
Terminal == {"succeeded", "failed", "cancelled"}
Statuses == {"absent", "reserved", "submitting", "submitted",
             "submit_unknown"} \union Terminal
RunBlocked == {"reconciliation_required"} \union Terminal

BlankRow(status) ==
  [status |-> status, owner |-> NoWorker, expired |-> FALSE, task |-> NoTask,
   incurred |-> 0, result |-> "none", rejected |-> FALSE]

IdleWorker == [pc |-> "idle", pos |-> 1, task |-> NoTask, cost |-> 0,
               arg |-> "none"]

Pending == [st |-> "pending", cost |-> 0]

Init ==
  /\ op = [o \in Ops |-> BlankRow("absent")]
  /\ run = [status |-> "queued", billing |-> "not_started",
            incurred |-> 0, recon |-> FALSE]
  /\ wk = [w \in Workers |-> IdleWorker]
  /\ posts = {}
  /\ accepted = [o \in Ops |-> 0]
  /\ final = [o \in Ops |-> Pending]

-----------------------------------------------------------------------------
(* The AFTER trigger: every write of an operation recomputes the run.      *)

Total(value(_), S) == MapThenSumSet(value, S)
IncurredTotal(rows) == Total(LAMBDA o : rows[o].incurred, Ops)
Reserved(rows) == {o \in Ops : rows[o].status # "absent"}
Some(rows, states) == \E o \in Ops : rows[o].status \in states
EverySucceeded(rows) == \A o \in Ops : rows[o].status = "succeeded"

AggregateBilling(r, rows) ==
  [status   |-> IF Some(rows, {"submit_unknown"}) THEN "reconciliation_required"
                ELSE IF Some(rows, {"failed", "cancelled"}) THEN "failed"
                ELSE IF r.status = "reconciliation_required" THEN "generating"
                ELSE r.status,
   billing  |-> CASE Some(rows, {"submit_unknown"}) -> "submit_unknown"
                  [] ~Some(rows, {"submit_unknown"})
                     /\ Some(rows, {"failed", "cancelled"}) -> "failed"
                  [] EverySucceeded(rows) -> "settled"
                  [] OTHER -> IF Some(rows, {"submitting"}) THEN "submitting"
                              ELSE IF Some(rows, {"submitted", "succeeded"})
                                   THEN "submitted" ELSE "not_started",
   incurred |-> IncurredTotal(rows),
   recon    |-> Some(rows, {"submit_unknown"})]

Write(o, new) ==
  /\ op' = [op EXCEPT ![o] = new]
  /\ run' = AggregateBilling(run, op')

Compatible(r, task) == r.task = NoTask \/ task = NoTask \/ r.task = task
CostAllowed(r, cost) == r.incurred <= cost /\ cost <= ClipCost
Known(r, task) == IF r.task # NoTask THEN r.task ELSE task
SubmissionAllowed == ~run.recon /\ run.status \notin RunBlocked

\* One ledger transaction of worker w on its current operation: it writes
\* `new` when it applies, returns the row when it replays, else raises.
LedgerCall(w, applies, new, replays, next) ==
  /\ IF applies THEN Write(wk[w].pos, new) ELSE UNCHANGED <<op, run>>
  /\ wk' = [wk EXCEPT ![w] = IF applies \/ replays THEN next ELSE IdleWorker]
  /\ UNCHANGED <<posts, accepted, final>>

At(w, pc) == wk[w].pc = pc
Goto(w, pc) == wk' = [wk EXCEPT ![w].pc = pc]
Advance(w) ==
  [pc |-> IF wk[w].pos = N THEN "settle" ELSE "reserve",
   pos |-> wk[w].pos + 1, task |-> NoTask, cost |-> 0, arg |-> "none"]

-----------------------------------------------------------------------------
(* RunwayMediaGenerationCapability: one candidate after the other.         *)

Start(w) == At(w, "idle") /\ Goto(w, "reserve")
            /\ UNCHANGED <<op, run, posts, accepted, final>>

\* reserve() on a candidate with no row yet.
ReserveNew(w) ==
  LET o == wk[w].pos IN
  /\ At(w, "reserve") /\ op[o].status = "absent"
  /\ LedgerCall(w,
       /\ SubmissionAllowed
       /\ Cardinality(Reserved(op)) < N
       /\ (Cardinality(Reserved(op)) + 1) * ClipCost <= RunBudget,
       BlankRow("reserved"),
       FALSE, [wk[w] EXCEPT !.pc = "begin"])

\* reserve() on an existing row: what _submit_or_resume does next.
ResumeAt(w, r) ==
  CASE r.status = "reserved" /\ SubmissionAllowed -> [wk[w] EXCEPT !.pc = "begin"]
    [] r.status = "submitted"
       \/ (r.status = "submit_unknown" /\ r.task # NoTask) ->
         [wk[w] EXCEPT !.pc = "poll", !.task = r.task]
    [] r.status = "succeeded" -> Advance(w)
    [] OTHER -> IdleWorker

ReserveExisting(w) ==
  LET o == wk[w].pos IN
  /\ At(w, "reserve") /\ op[o].status # "absent"
  /\ ~(op[o].status = "submitting" /\ op[o].expired)
  /\ wk' = [wk EXCEPT ![w] = ResumeAt(w, op[o])]
  /\ UNCHANGED <<op, run, posts, accepted, final>>

\* Faulty: an expired lease makes the candidate submittable again.
ReserveExpiredResubmits(w) ==
  /\ At(w, "reserve")
  /\ op[wk[w].pos].status = "submitting" /\ op[wk[w].pos].expired
  /\ Write(wk[w].pos, BlankRow("reserved"))
  /\ Goto(w, "begin")
  /\ UNCHANGED <<posts, accepted, final>>

\* An expired submit lease is an unknown paid outcome, never a new POST.
ReserveExpired(w) ==
  LET o == wk[w].pos
      unknown == [op[o] EXCEPT !.status = "submit_unknown", !.owner = NoWorker,
                               !.expired = FALSE, !.rejected = FALSE] IN
  /\ At(w, "reserve") /\ op[o].status = "submitting" /\ op[o].expired
  /\ Write(o, unknown)
  /\ wk' = [wk EXCEPT ![w] = ResumeAt(w, unknown)]
  /\ UNCHANGED <<posts, accepted, final>>

BeginSubmit(w) ==
  LET o == wk[w].pos IN
  /\ At(w, "begin")
  /\ LedgerCall(w, SubmissionAllowed /\ op[o].status = "reserved",
       [op[o] EXCEPT !.status = "submitting", !.owner = w, !.expired = FALSE,
                     !.rejected = FALSE],
       FALSE, [wk[w] EXCEPT !.pc = "post"])

SendPost(w) ==
  /\ At(w, "post")
  /\ posts' = posts \union {<<w, wk[w].pos>>}
  /\ Goto(w, "await")
  /\ UNCHANGED <<op, run, accepted, final>>

ReleaseDefiniteRejection(w) ==
  LET r == op[wk[w].pos] IN
  /\ At(w, "release_definite_rejection")
  /\ LedgerCall(w,
       /\ r.status = "submitting" /\ r.owner = w
       /\ r.task = NoTask /\ r.incurred = 0,
       [r EXCEPT !.status = "reserved", !.owner = NoWorker, !.expired = FALSE,
                 !.rejected = TRUE],
       FALSE, IdleWorker)

MarkSubmitted(w) ==
  LET r == op[wk[w].pos] IN
  /\ At(w, "mark_submitted")
  /\ LedgerCall(w, r.status = "submitting" /\ r.owner = w,
       [r EXCEPT !.status = "submitted", !.task = wk[w].task,
                 !.owner = NoWorker, !.expired = FALSE],
       r.status = "submitted" /\ r.task = wk[w].task,
       [wk[w] EXCEPT !.pc = "poll"])

\* Called with the lease token while submitting, without it afterwards.
MarkSubmitUnknown(w) ==
  LET r == op[wk[w].pos] IN
  /\ At(w, "mark_submit_unknown")
  /\ LedgerCall(w,
       /\ \/ r.status = "submitting" /\ wk[w].arg = "leased" /\ r.owner = w
          \/ r.status = "submitted" /\ wk[w].arg = "unleased"
       /\ Compatible(r, wk[w].task),
       [r EXCEPT !.status = "submit_unknown", !.task = Known(r, wk[w].task),
                 !.owner = NoWorker, !.expired = FALSE, !.rejected = FALSE],
       FALSE, IdleWorker)

MarkSucceeded(w) ==
  LET r == op[wk[w].pos] IN
  /\ At(w, "mark_succeeded")
  /\ LedgerCall(w,
       /\ r.status \in {"submitted", "submit_unknown"}
       /\ CostAllowed(r, wk[w].cost) /\ Compatible(r, wk[w].task),
       [r EXCEPT !.status = "succeeded", !.task = Known(r, wk[w].task),
                 !.incurred = wk[w].cost, !.result = wk[w].arg],
       /\ r.status = "succeeded" /\ r.incurred = wk[w].cost
       /\ r.result = wk[w].arg /\ Compatible(r, wk[w].task),
       Advance(w))

\* wk[w].arg is the destination, "failed" or "cancelled".
MarkFailed(w) ==
  LET r == op[wk[w].pos] IN
  /\ At(w, "mark_failed")
  /\ LedgerCall(w,
       /\ r.status \in {"reserved", "submitting", "submitted", "submit_unknown"}
       /\ CostAllowed(r, wk[w].cost) /\ Compatible(r, wk[w].task),
       [r EXCEPT !.status = wk[w].arg, !.task = Known(r, wk[w].task),
                 !.incurred = wk[w].cost, !.owner = NoWorker,
                 !.expired = FALSE, !.rejected = FALSE],
       FALSE, IdleWorker)

\* _wait_for_task: poll, give up for now, or learn the task's verdict.
Unresolved(w) == [wk[w] EXCEPT !.pc = "mark_submit_unknown", !.arg = "unleased"]

\* Faulty: a task that failed at the provider is booked as free.
VerdictFreeUnlessSucceeded(w, v) ==
  IF v.st = "succeeded" THEN [wk[w] EXCEPT !.pc = "verify", !.cost = v.cost]
  ELSE [wk[w] EXCEPT !.pc = "mark_failed", !.arg = v.st]

Verdict(w, v) ==
  IF v.cost > ClipCost THEN Unresolved(w)
  ELSE IF v.st = "succeeded" THEN [wk[w] EXCEPT !.pc = "verify", !.cost = v.cost]
  ELSE [wk[w] EXCEPT !.pc = "mark_failed", !.cost = v.cost, !.arg = v.st]

Poll(w) ==
  LET v == final[wk[w].pos] IN
  /\ At(w, "poll")
  /\ \E next \in {Unresolved(w), IdleWorker}
                 \union (IF v.st = "pending" THEN {} ELSE {Verdict(w, v)}) :
       wk' = [wk EXCEPT ![w] = next]
  /\ UNCHANGED <<op, run, posts, accepted, final>>

\* Download, audio strip and visual verification of a finished task.
Verify(w) ==
  /\ At(w, "verify")
  /\ \E next \in {IdleWorker,
                  [wk[w] EXCEPT !.pc = "mark_failed", !.arg = "failed"]}
                 \union {[wk[w] EXCEPT !.pc = "mark_succeeded", !.arg = res] :
                           res \in {"accepted", "rejected"}} :
       wk' = [wk EXCEPT ![w] = next]
  /\ UNCHANGED <<op, run, posts, accepted, final>>

SettleRun(w) ==
  /\ At(w, "settle")
  /\ run' = IF /\ EverySucceeded(op)
               /\ IncurredTotal(op) <= RunBudget
            THEN [status |-> run.status, billing |-> "settled",
                  incurred |-> IncurredTotal(op), recon |-> FALSE]
            ELSE run
  /\ wk' = [wk EXCEPT ![w] = IdleWorker]
  /\ UNCHANGED <<op, posts, accepted, final>>

\* A crash, or a checkpoint that raises StepCancelled or LeaseLost.
Abandon(w) ==
  /\ ~At(w, "idle")
  /\ wk' = [wk EXCEPT ![w] = IdleWorker]
  /\ UNCHANGED <<op, run, posts, accepted, final>>

-----------------------------------------------------------------------------
(* The provider and the clock.                                             *)

\* What the waiting worker does with the answer to its POST.
Hear(w, o, answers) ==
  IF At(w, "await") /\ wk[w].pos = o
  THEN \E a \in answers : wk' = [wk EXCEPT ![w] = a]
  ELSE UNCHANGED wk

LostAnswer(w) ==
  [wk[w] EXCEPT !.pc = "mark_submit_unknown", !.arg = "leased"]

ProviderAccepts(w, o) ==
  /\ <<w, o>> \in posts
  /\ posts' = posts \ {<<w, o>>}
  /\ accepted' = [accepted EXCEPT ![o] = @ + 1]
  /\ Hear(w, o, {LostAnswer(w),
                 [LostAnswer(w) EXCEPT !.task = accepted'[o]],
                 [wk[w] EXCEPT !.pc = "mark_submitted", !.task = accepted'[o]]})
  /\ UNCHANGED <<op, run, final>>

ProviderRejects(w, o) ==
  /\ <<w, o>> \in posts
  /\ posts' = posts \ {<<w, o>>}
  /\ Hear(w, o, {LostAnswer(w),
                 [wk[w] EXCEPT !.pc = "release_definite_rejection"],
                 [wk[w] EXCEPT !.pc = "mark_failed", !.arg = "failed"]})
  /\ UNCHANGED <<op, run, accepted, final>>

ProviderFinishes(o) ==
  /\ accepted[o] > 0 /\ final[o] = Pending
  /\ \E st \in Terminal, c \in Costs :
       final' = [final EXCEPT ![o] = [st |-> st, cost |-> c]]
  /\ UNCHANGED <<op, run, wk, posts, accepted>>

LeaseExpires(o) ==
  /\ op[o].status = "submitting" /\ ~op[o].expired
  /\ op' = [op EXCEPT ![o].expired = TRUE]
  /\ UNCHANGED <<run, wk, posts, accepted, final>>

WorkerStep(w) ==
  \/ Start(w) \/ ReserveNew(w) \/ ReserveExisting(w) \/ ReserveExpired(w)
  \/ BeginSubmit(w) \/ SendPost(w) \/ ReleaseDefiniteRejection(w)
  \/ MarkSubmitted(w) \/ MarkSubmitUnknown(w) \/ MarkSucceeded(w)
  \/ MarkFailed(w) \/ Poll(w) \/ Verify(w) \/ SettleRun(w) \/ Abandon(w)

Next ==
  \/ \E w \in Workers : WorkerStep(w)
  \/ \E w \in Workers, o \in Ops : ProviderAccepts(w, o) \/ ProviderRejects(w, o)
  \/ \E o \in Ops : ProviderFinishes(o) \/ LeaseExpires(o)

Spec == Init /\ [][Next]_vars

-----------------------------------------------------------------------------
WorkerPcs == {"idle", "reserve", "begin", "post", "await", "poll", "verify",
              "settle", "release_definite_rejection", "mark_submitted",
              "mark_submit_unknown", "mark_succeeded", "mark_failed"}

TypeOK ==
  /\ op \in [Ops -> [status : Statuses, owner : Workers \union {NoWorker},
                     expired : BOOLEAN, task : Nat, incurred : Nat,
                     result : {"none", "accepted", "rejected"},
                     rejected : BOOLEAN]]
  /\ wk \in [Workers -> [pc : WorkerPcs, pos : 1..(N + 1), task : Nat,
                         cost : Nat,
                         arg : {"none", "leased", "unleased", "accepted",
                                "rejected", "failed", "cancelled", "succeeded"}]]
  /\ posts \subseteq Workers \X Ops
  /\ accepted \in [Ops -> Nat]
  /\ final \in [Ops -> [st : {"pending"} \union Terminal, cost : Nat]]
  /\ run.status \in {"queued", "generating", "failed", "reconciliation_required"}
  /\ run.billing \in {"not_started", "submitting", "submitted",
                      "submit_unknown", "settled", "failed"}
  /\ run.recon \in BOOLEAN

\* "Exactly-once paid Full-AI Provider submissions": whatever crashes, lost
\* answers, lease expiries and concurrent executions of the step happen, the
\* provider never accepts a second paid task for one operation.
AtMostOnePaidTask == \A o \in Ops : accepted[o] <= 1

\* An accepted task is never forgotten: its operation either names it, or is
\* still submitting, or waits for manual reconciliation.
PaidTaskNeverForgotten ==
  \A o \in Ops : accepted[o] > 0 =>
    \/ op[o].task = accepted[o]
    \/ op[o].status \in {"submitting", "submit_unknown"}

\* What the provider charged for the tasks of the operations S.
ChargedTotal(S) == Total(LAMBDA o : final[o].cost, S)

\* The run's books are what the provider charged for the operations that
\* ended, failed and cancelled ones included, and neither they nor what is
\* still reserved exceeds the authorized amount.  They are closed as settled
\* only when each planned candidate succeeded and was paid for exactly once.
BooksMatchProvider ==
  LET ended == {o \in Ops : op[o].status \in Terminal /\ op[o].task # NoTask} IN
  /\ \A o \in ended : final[o] # Pending /\ op[o].incurred = final[o].cost
  /\ run.incurred = ChargedTotal(ended)
  /\ run.incurred <= RunBudget
  /\ Cardinality(Reserved(op)) * ClipCost <= RunBudget
  /\ run.billing = "settled" => \A o \in Ops : op[o].status = "succeeded" /\ accepted[o] = 1

\* The worker's ledger implements the contract of migration 0020.
Rows == [o \in Ops |-> [status |-> op[o].status, task |-> op[o].task,
                        incurred |-> op[o].incurred, result |-> op[o].result,
                        rejected |-> op[o].rejected]]
Contract == INSTANCE PaidContract WITH row <- Rows
ImplementsContract == Contract!ContractSpec
=============================================================================
