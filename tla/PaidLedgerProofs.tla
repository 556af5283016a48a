-------------------------- MODULE PaidLedgerProofs --------------------------
(***************************************************************************)
(* Machine-checked facts about PaidLedger, for any number of workers and   *)
(* candidates.  The invariant IInv follows the one permission to POST that *)
(* a reserved operation can give out: it is with a worker about to send,   *)
(* or in flight, or was accepted, or was definitely refused.  BooksOK adds *)
(* the money: what each worker was told, each row was charged and the run  *)
(* was billed.  From both follow the run's properties and the refinement   *)
(* of the database contract.                                               *)
(***************************************************************************)
EXTENDS PaidLedger, FiniteSetTheorems, NaturalsInduction,
        WellFoundedInduction, TLAPS

\* A permission to POST for o: a worker about to send, or a POST in flight.
Armed(w, o) == wk[w].pc = "post" /\ wk[w].pos = o
NoToken(o) == \A w \in Workers : <<w, o>> \notin posts /\ ~Armed(w, o)
Clean(o) == accepted[o] = 0 /\ NoToken(o)

\* w began the submission of its candidate and has not heard of a task.
HoldsSubmission(w) ==
  \/ wk[w].pc \in {"post", "await", "release_definite_rejection",
                   "mark_submitted"}
  \/ wk[w].pc = "mark_submit_unknown" /\ wk[w].arg = "leased"
  \/ wk[w].pc = "mark_failed" /\ wk[w].task = NoTask

PosOK == \A w \in Workers : wk[w].pc # "settle" => wk[w].pos \in Ops

ArgsOK ==
  \A w \in Workers :
    /\ wk[w].pc \in {"mark_submitted", "poll", "verify", "mark_succeeded"}
         => wk[w].task # NoTask
    /\ wk[w].pc = "mark_succeeded" => wk[w].arg \in {"accepted", "rejected"}
    /\ wk[w].pc = "mark_failed" => wk[w].arg \in {"failed", "cancelled"}

TasksAreReal ==
  /\ \A w \in Workers : wk[w].task # NoTask => accepted[wk[w].pos] = wk[w].task
  /\ \A o \in Ops : op[o].task # NoTask => accepted[o] = op[o].task

PermissionOK(o) ==
  /\ accepted[o] <= 1
  /\ op[o].status \in {"absent", "reserved"} => Clean(o)
  /\ \A v, w \in Workers :
       /\ Armed(w, o) => accepted[o] = 0 /\ <<v, o>> \notin posts
       /\ Armed(v, o) /\ Armed(w, o) => v = w
       /\ <<w, o>> \in posts => accepted[o] = 0
       /\ <<v, o>> \in posts /\ <<w, o>> \in posts => v = w

OnePermission == \A o \in Ops : PermissionOK(o)

InFlightUnresolved ==
  \A o \in Ops, w \in Workers :
    (<<w, o>> \in posts \/ Armed(w, o)) =>
      op[o].status \in {"submitting", "submit_unknown"}

RefusedIsClean ==
  \A w \in Workers :
    (\/ wk[w].pc = "release_definite_rejection"
     \/ wk[w].pc = "mark_failed" /\ wk[w].task = NoTask) => Clean(wk[w].pos)

HolderOwns ==
  \A w \in Workers : HoldsSubmission(w) =>
    /\ op[wk[w].pos].status \notin {"absent", "reserved"}
    /\ op[wk[w].pos].status = "submitting" => op[wk[w].pos].owner = w

RowsOK ==
  \A o \in Ops :
    /\ op[o].status \in {"absent", "reserved", "submitting"} => op[o].task = NoTask
    /\ op[o].status \in {"submitted", "succeeded"} => op[o].task # NoTask
    /\ op[o].incurred <= ClipCost
    /\ op[o].status = "succeeded" <=> op[o].result # "none"

IInv ==
  /\ TypeOK /\ PosOK /\ ArgsOK /\ TasksAreReal /\ OnePermission
  /\ InFlightUnresolved /\ RefusedIsClean /\ HolderOwns /\ RowsOK
  /\ PaidTaskNeverForgotten

RowType == [status : Statuses, owner : Workers \union {NoWorker},
            expired : BOOLEAN, task : Nat, incurred : Nat,
            result : {"none", "accepted", "rejected"}, rejected : BOOLEAN]

WorkerType == [pc : WorkerPcs, pos : 1..(N + 1), task : Nat, cost : Nat,
               arg : {"none", "leased", "unleased", "accepted", "rejected",
                      "failed", "cancelled", "succeeded"}]

RunTyped(r) ==
  /\ r.status \in {"queued", "generating", "failed", "reconciliation_required"}
  /\ r.billing \in {"not_started", "submitting", "submitted",
                    "submit_unknown", "settled", "failed"}
  /\ r.recon \in BOOLEAN

\* The next state x of a worker is outside the submission of its candidate.
Outside(x) ==
  /\ x \in WorkerType
  /\ x.pc # "settle" => x.pos \in Ops
  /\ x.pc \notin {"post", "await", "release_definite_rejection", "mark_submitted"}
  /\ x.pc = "mark_submit_unknown" => x.arg # "leased"
  /\ x.pc = "mark_failed" => x.task # NoTask /\ x.arg \in {"failed", "cancelled"}
  /\ x.pc \in {"poll", "verify", "mark_succeeded"} => x.task # NoTask
  /\ x.pc = "mark_succeeded" => x.arg \in {"accepted", "rejected"}
  /\ x.task # NoTask => accepted[x.pos] = x.task

\* A value that one ledger transaction of w may give to operation o.
GoodRow(w, o, new) ==
  /\ new \in RowType
  /\ new.status \notin {"absent", "submitting"}
  /\ new.status = "reserved" => new.task = NoTask /\ accepted[o] = 0
       /\ \A v \in Workers \ {w} : ~(HoldsSubmission(v) /\ wk[v].pos = o)
  /\ new.status \in {"submitted", "succeeded"} => new.task # NoTask
  /\ new.status # "submit_unknown" => NoToken(o)
  /\ new.incurred <= ClipCost
  /\ new.status = "succeeded" <=> new.result # "none"
  /\ new.task # NoTask => accepted[o] = new.task
  /\ accepted[o] > 0 => new.task = accepted[o] \/ new.status = "submit_unknown"

LEMMA AggregateTyped ==
  ASSUME NEW r, NEW rows, RunTyped(r) PROVE RunTyped(AggregateBilling(r, rows))
<1> DEFINE unknown == Some(rows, {"submit_unknown"})
           failing == Some(rows, {"failed", "cancelled"})
<1>1. unknown \in BOOLEAN /\ failing \in BOOLEAN BY DEF Some
<1>2. CASE unknown BY <1>1, <1>2 DEF AggregateBilling, RunTyped
<1>3. CASE ~unknown /\ failing BY <1>1, <1>3 DEF AggregateBilling, RunTyped
<1>4. CASE ~unknown /\ ~failing BY <1>1, <1>4 DEF AggregateBilling, RunTyped
<1> QED BY <1>1, <1>2, <1>3, <1>4

\* A transaction of w on its operation, or a step of w that writes nothing.
LEMMA WorkerStepKeepsIInv ==
  ASSUME IInv, NEW w \in Workers, NEW x, Outside(x), NEW o \in Ops, NEW new,
         \/ op' = op
         \/ GoodRow(w, o, new) /\ op' = [op EXCEPT ![o] = new],
         wk' = [wk EXCEPT ![w] = x],
         RunTyped(run'),
         UNCHANGED <<posts, accepted, final>>
  PROVE  IInv'
<1> USE NAssumption, WorkerAssumption DEF NoTask
<1>0. op \in [Ops -> RowType] /\ wk \in [Workers -> WorkerType]
  BY DEF IInv, TypeOK, RowType, WorkerType
<1>1. op' \in [Ops -> RowType] /\ wk' \in [Workers -> WorkerType]
  BY <1>0 DEF Outside, GoodRow
<1>2. TypeOK'
  BY <1>1 DEF IInv, TypeOK, RunTyped, RowType, WorkerType
<1>3. \A v \in Workers : wk'[v] = IF v = w THEN x ELSE wk[v]
  BY <1>0
<1>4. \A q \in Ops : op'[q] = op[q] \/ (q = o /\ op'[q] = new /\ GoodRow(w, o, new))
  BY <1>0
<1>5. PosOK' /\ ArgsOK'
  BY <1>3 DEF IInv, PosOK, ArgsOK, Outside
<1>6. TasksAreReal'
  BY <1>3, <1>4 DEF IInv, TasksAreReal, Outside, GoodRow
<1>7. \A q \in Ops : (Clean(q) => Clean(q)') /\ (NoToken(q) => NoToken(q)')
  BY <1>3 DEF Clean, NoToken, Armed, Outside
<1>8. OnePermission'
  <2> SUFFICES ASSUME NEW q \in Ops PROVE PermissionOK(q)'
    BY DEF OnePermission
  <2>1. PermissionOK(q) BY DEF IInv, OnePermission
  <2>2. \A v \in Workers : Armed(v, q)' => Armed(v, q)
    BY <1>3 DEF Armed, Outside
  <2>3. op'[q].status \in {"absent", "reserved"} => Clean(q)
    BY <1>4, <2>1 DEF IInv, PermissionOK, GoodRow, Clean
  <2> QED BY <1>7, <2>1, <2>2, <2>3 DEF PermissionOK
<1>9. InFlightUnresolved'
  BY <1>3, <1>4 DEF IInv, InFlightUnresolved, Outside, GoodRow, NoToken, Armed
<1>10. RefusedIsClean'
  BY <1>3, <1>7 DEF IInv, RefusedIsClean, PosOK, Outside
<1>11. HolderOwns'
  BY <1>0, <1>3, <1>4 DEF IInv, HolderOwns, HoldsSubmission, Outside, GoodRow, PosOK
<1>12. RowsOK' /\ PaidTaskNeverForgotten'
  BY <1>3, <1>4 DEF IInv, RowsOK, PaidTaskNeverForgotten, GoodRow
<1> QED BY <1>2, <1>5, <1>6, <1>8, <1>9, <1>10, <1>11, <1>12 DEF IInv

LEMMA IdleIsOutside == Outside(IdleWorker)
BY NAssumption DEF Outside, IdleWorker, WorkerType, WorkerPcs, Ops, NoTask

LEMMA AdvanceIsOutside ==
  ASSUME NEW w \in Workers, wk[w].pos \in Ops PROVE Outside(Advance(w))
BY NAssumption DEF Advance, Outside, WorkerType, WorkerPcs, Ops, NoTask

\* What the invariant says of the worker and the operation at hand.
LEMMA AtHand ==
  ASSUME IInv, NEW w \in Workers
  PROVE  /\ wk[w] \in WorkerType /\ RunTyped(run)
         /\ wk \in [Workers -> WorkerType] /\ op \in [Ops -> RowType]
         /\ wk[w].pc # "settle" => wk[w].pos \in Ops /\ op[wk[w].pos] \in RowType
         /\ wk[w].task # NoTask => accepted[wk[w].pos] = wk[w].task
BY DEF IInv, TypeOK, PosOK, TasksAreReal, WorkerType, RowType, RunTyped

\* A step of w that writes no operation leaves it outside every submission.
LEMMA LocalStepKeepsIInv ==
  ASSUME IInv, NEW w \in Workers, NEW x, Outside(x),
         wk' = [wk EXCEPT ![w] = x], RunTyped(run'),
         UNCHANGED <<op, posts, accepted, final>>
  PROVE  IInv'
<1>1. 1 \in Ops BY NAssumption DEF Ops
<1> QED BY <1>1, WorkerStepKeepsIInv

LEMMA StartKeepsIInv ==
  ASSUME IInv, NEW w \in Workers, Start(w) PROVE IInv'
<1> DEFINE x == [wk[w] EXCEPT !.pc = "reserve"]
<1>1. Outside(x)
  BY AtHand DEF Start, At, Outside, WorkerType, WorkerPcs
<1>2. wk' = [wk EXCEPT ![w] = x]
  BY AtHand DEF Start, Goto
<1> QED BY <1>1, <1>2, AtHand, LocalStepKeepsIInv DEF Start, RunTyped

LEMMA ResumeIsOutside ==
  ASSUME IInv, NEW w \in Workers, At(w, "reserve"), NEW r \in RowType,
         r.status = "submitted" => r.task # NoTask,
         r.task # NoTask => accepted[wk[w].pos] = r.task
  PROVE  Outside(ResumeAt(w, r))
<1> DEFINE begin == [wk[w] EXCEPT !.pc = "begin"]
           poll == [wk[w] EXCEPT !.pc = "poll", !.task = r.task]
           known == \/ r.status = "submitted"
                    \/ r.status = "submit_unknown" /\ r.task # NoTask
<1>1. Outside(begin)
  BY AtHand DEF At, Outside, WorkerType, WorkerPcs
<1>2. ASSUME known PROVE Outside(poll)
  <2>1. wk[w] \in WorkerType /\ wk[w].pos \in Ops
    BY AtHand DEF At
  <2>2. r.task # NoTask /\ r.task \in Nat /\ accepted[wk[w].pos] = r.task
    BY <1>2 DEF RowType
  <2>3. poll \in WorkerType
    BY <2>1, <2>2 DEF WorkerType, WorkerPcs
  <2> QED BY <2>1, <2>2, <2>3 DEF Outside, WorkerType
<1>3. ResumeAt(w, r) \in {begin, poll, Advance(w), IdleWorker}
      /\ (ResumeAt(w, r) = poll => known)
  <2>1. begin.pc = "begin" /\ poll.pc = "poll" /\ Advance(w).pc # "poll"
        /\ IdleWorker.pc = "idle"
    BY AtHand DEF WorkerType, Advance, IdleWorker
  <2> HIDE DEF begin, poll
  <2>2. CASE r.status = "reserved" /\ SubmissionAllowed
    BY <2>1, <2>2 DEF ResumeAt, begin
  <2>3. CASE r.status # "reserved" /\ ~known
    BY <2>1, <2>3 DEF ResumeAt
  <2>4. CASE known
    BY <2>1, <2>4 DEF ResumeAt, poll
  <2>5. CASE r.status = "reserved" /\ ~SubmissionAllowed
    BY <2>1, <2>5 DEF ResumeAt
  <2> QED BY <2>2, <2>3, <2>4, <2>5
<1> QED BY <1>1, <1>2, <1>3, IdleIsOutside, AdvanceIsOutside, AtHand DEF At

LEMMA ReserveExistingKeepsIInv ==
  ASSUME IInv, NEW w \in Workers, ReserveExisting(w) PROVE IInv'
<1> DEFINE r == op[wk[w].pos]
<1>1. r \in RowType /\ wk[w].pos \in Ops
  BY AtHand DEF ReserveExisting, At
<1>2. (r.status = "submitted" => r.task # NoTask)
      /\ (r.task # NoTask => accepted[wk[w].pos] = r.task)
  BY <1>1 DEF IInv, RowsOK, TasksAreReal
<1>3. Outside(ResumeAt(w, r))
  BY <1>1, <1>2, ResumeIsOutside DEF ReserveExisting
<1> QED BY <1>3, AtHand, LocalStepKeepsIInv DEF ReserveExisting, RunTyped

LEMMA PollKeepsIInv ==
  ASSUME IInv, NEW w \in Workers, Poll(w) PROVE IInv'
<1> DEFINE v == final[wk[w].pos]
           verify == [wk[w] EXCEPT !.pc = "verify", !.cost = v.cost]
           mark_failed == [wk[w] EXCEPT !.pc = "mark_failed", !.cost = v.cost,
                                        !.arg = v.st]
<1>1. wk[w].pos \in Ops /\ wk[w].task # NoTask /\ wk[w] \in WorkerType
      /\ accepted[wk[w].pos] = wk[w].task
  BY AtHand DEF Poll, At, IInv, ArgsOK
<1>2. v.st \in {"pending"} \union Terminal /\ v.cost \in Nat
  <2>1. final \in [Ops -> [st : {"pending"} \union Terminal, cost : Nat]]
    BY DEF IInv, TypeOK
  <2> QED BY <1>1, <2>1
<1>3. Outside(Unresolved(w))
  BY <1>1 DEF Unresolved, Outside, WorkerType, WorkerPcs
<1>4. Outside(verify)
  BY <1>1, <1>2 DEF Outside, WorkerType, WorkerPcs
<1>5. v.st \in {"failed", "cancelled"} => Outside(mark_failed)
  BY <1>1, <1>2 DEF Outside, WorkerType, WorkerPcs
<1>6. v.st # "pending" => Outside(Verdict(w, v))
  BY <1>2, <1>3, <1>4, <1>5 DEF Verdict, Terminal
<1>7. PICK x : Outside(x) /\ wk' = [wk EXCEPT ![w] = x]
  BY <1>3, <1>6, IdleIsOutside DEF Poll
<1> QED BY <1>7, AtHand, LocalStepKeepsIInv DEF Poll, RunTyped

LEMMA VerifyKeepsIInv ==
  ASSUME IInv, NEW w \in Workers, Verify(w) PROVE IInv'
<1> DEFINE failed == [wk[w] EXCEPT !.pc = "mark_failed", !.arg = "failed"]
           succeeded(res) == [wk[w] EXCEPT !.pc = "mark_succeeded", !.arg = res]
<1>1. wk[w].pos \in Ops /\ wk[w].task # NoTask /\ wk[w] \in WorkerType
      /\ accepted[wk[w].pos] = wk[w].task
  BY AtHand DEF Verify, At, IInv, ArgsOK
<1>2. Outside(failed)
  BY <1>1 DEF Outside, WorkerType, WorkerPcs
<1>3. ASSUME NEW res \in {"accepted", "rejected"} PROVE Outside(succeeded(res))
  <2>1. succeeded(res) \in WorkerType
    BY <1>1 DEF WorkerType, WorkerPcs
  <2> QED BY <1>1, <2>1 DEF Outside, WorkerType
<1>4. PICK x : Outside(x) /\ wk' = [wk EXCEPT ![w] = x]
  BY <1>2, <1>3, IdleIsOutside DEF Verify
<1> QED BY <1>4, AtHand, LocalStepKeepsIInv DEF Verify, RunTyped

LEMMA SettleAndAbandonKeepIInv ==
  ASSUME IInv, NEW w \in Workers, SettleRun(w) \/ Abandon(w) PROVE IInv'
<1>1. CASE run' = run
  BY <1>1, AtHand, IdleIsOutside, LocalStepKeepsIInv
  DEF SettleRun, Abandon, RunTyped
<1>2. CASE run' = [status |-> run.status, billing |-> "settled",
                   incurred |-> IncurredTotal(op), recon |-> FALSE]
  <2>1. RunTyped(run') BY <1>2, AtHand DEF RunTyped
  <2> QED
    BY <2>1, IdleIsOutside, LocalStepKeepsIInv DEF SettleRun, Abandon
<1> QED BY <1>1, <1>2 DEF SettleRun, Abandon

-----------------------------------------------------------------------------
(* Ledger transactions.                                                    *)

LEMMA LedgerCallKeepsIInv ==
  ASSUME IInv, NEW w \in Workers, wk[w].pos \in Ops,
         NEW applies, NEW replays, NEW new, NEW next,
         applies => GoodRow(w, wk[w].pos, new),
         Outside(next),
         LedgerCall(w, applies, new, replays, next)
  PROVE  IInv'
<1>1. RunTyped(run')
  BY AtHand, AggregateTyped DEF LedgerCall, Write, RunTyped
<1>2. PICK x : Outside(x) /\ wk' = [wk EXCEPT ![w] = x]
  BY IdleIsOutside DEF LedgerCall
<1>3. op' = op \/ (GoodRow(w, wk[w].pos, new) /\ op' = [op EXCEPT ![wk[w].pos] = new])
  BY DEF LedgerCall, Write
<1>4. UNCHANGED <<posts, accepted, final>>
  BY DEF LedgerCall
<1> HIDE DEF LedgerCall
<1> QED BY <1>1, <1>2, <1>3, <1>4, WorkerStepKeepsIInv

LEMMA ReserveNewKeepsIInv ==
  ASSUME IInv, NEW w \in Workers, ReserveNew(w) PROVE IInv'
<1> DEFINE o == wk[w].pos
           applies == /\ SubmissionAllowed
                      /\ Cardinality(Reserved(op)) < N
                      /\ (Cardinality(Reserved(op)) + 1) * ClipCost <= RunBudget
           new == BlankRow("reserved")
           next == [wk[w] EXCEPT !.pc = "begin"]
<1>1. o \in Ops /\ wk[w] \in WorkerType /\ op[o].status = "absent" /\ At(w, "reserve")
  BY AtHand DEF ReserveNew, At
<1>2. Clean(o)
  BY <1>1 DEF IInv, OnePermission, PermissionOK
<1>3. \A v \in Workers : ~(HoldsSubmission(v) /\ wk[v].pos = o)
  BY <1>1 DEF IInv, HolderOwns
<1>4. GoodRow(w, o, new)
  <2>1. new \in RowType BY DEF BlankRow, RowType, NoTask, Statuses
  <2>2. new.status = "reserved" /\ new.task = NoTask /\ new.incurred = 0
        /\ new.result = "none"
    BY DEF BlankRow
  <2>3. accepted[o] = 0 /\ NoToken(o) BY <1>2 DEF Clean
  <2> HIDE DEF new
  <2> QED BY <1>3, <2>1, <2>2, <2>3, MoneyAssumption DEF GoodRow
<1>5. Outside(next)
  BY <1>1, AtHand DEF Outside, WorkerType, WorkerPcs, At
<1>6. LedgerCall(w, applies, new, FALSE, next)
  BY DEF ReserveNew
<1> QED BY <1>1, <1>4, <1>5, <1>6, LedgerCallKeepsIInv

\* A row of the operation at hand, and what its task says.
LEMMA RowAtHand ==
  ASSUME IInv, NEW o \in Ops
  PROVE  /\ op[o] \in RowType /\ accepted[o] \in Nat
         /\ op[o].task # NoTask => accepted[o] = op[o].task
         /\ accepted[o] > 0 => op[o].task = accepted[o]
                               \/ op[o].status \in {"submitting", "submit_unknown"}
         /\ op[o].incurred <= ClipCost
         /\ op[o].status = "succeeded" <=> op[o].result # "none"
         /\ op[o].status \in {"absent", "reserved", "submitting"} => op[o].task = NoTask
         /\ op[o].status \in {"submitted", "succeeded"} => op[o].task # NoTask
         /\ op[o].status \notin {"submitting", "submit_unknown"} => NoToken(o)
         /\ accepted[o] > 0 => NoToken(o)
         /\ accepted[o] <= 1
<1>1. op \in [Ops -> RowType] /\ accepted \in [Ops -> Nat]
  BY DEF IInv, TypeOK, RowType
<1>2. op[o].status \notin {"submitting", "submit_unknown"} => NoToken(o)
  BY DEF IInv, InFlightUnresolved, NoToken
<1>3. accepted[o] > 0 => NoToken(o)
  BY <1>1 DEF IInv, OnePermission, PermissionOK, NoToken
<1> QED BY <1>1, <1>2, <1>3
  DEF IInv, TasksAreReal, RowsOK, PaidTaskNeverForgotten, OnePermission, PermissionOK

LEMMA ReserveExpiredKeepsIInv ==
  ASSUME IInv, NEW w \in Workers, ReserveExpired(w) PROVE IInv'
<1> DEFINE o == wk[w].pos
           new == [op[o] EXCEPT !.status = "submit_unknown", !.owner = NoWorker,
                                !.expired = FALSE, !.rejected = FALSE]
<1>1. o \in Ops /\ op[o].status = "submitting" /\ At(w, "reserve")
  BY AtHand DEF ReserveExpired, At
<1>2. new \in RowType /\ new.status = "submit_unknown" /\ new.task = op[o].task
      /\ new.incurred = op[o].incurred /\ new.result = op[o].result
  <2>1. op[o] \in RowType BY <1>1, RowAtHand
  <2> HIDE DEF o
  <2> QED BY <2>1 DEF RowType, Statuses
<1>3. GoodRow(w, o, new)
  <2> HIDE DEF new, o
  <2> QED BY <1>1, <1>2, RowAtHand DEF GoodRow
<1>4. Outside(ResumeAt(w, new))
  <2> HIDE DEF new
  <2> QED BY <1>1, <1>2, RowAtHand, ResumeIsOutside
<1>5. RunTyped(run')
  BY AtHand, AggregateTyped DEF ReserveExpired, Write
<1>6. op' = [op EXCEPT ![o] = new] /\ wk' = [wk EXCEPT ![w] = ResumeAt(w, new)]
      /\ UNCHANGED <<posts, accepted, final>>
  BY DEF ReserveExpired, Write
<1> HIDE DEF new, o
<1> QED BY <1>1, <1>3, <1>4, <1>5, <1>6, WorkerStepKeepsIInv

LEMMA MarkSubmittedKeepsIInv ==
  ASSUME IInv, NEW w \in Workers, MarkSubmitted(w) PROVE IInv'
<1> DEFINE o == wk[w].pos
           r == op[o]
           applies == r.status = "submitting" /\ r.owner = w
           replays == r.status = "submitted" /\ r.task = wk[w].task
           new == [r EXCEPT !.status = "submitted", !.task = wk[w].task,
                            !.owner = NoWorker, !.expired = FALSE]
           next == [wk[w] EXCEPT !.pc = "poll"]
<1>1. o \in Ops /\ wk[w].pc = "mark_submitted" /\ wk[w] \in WorkerType
      /\ wk[w].task # NoTask /\ accepted[o] = wk[w].task
  BY AtHand DEF MarkSubmitted, At, IInv, ArgsOK
<1>2. applies => GoodRow(w, o, new)
  <2> SUFFICES ASSUME applies PROVE GoodRow(w, o, new)
    OBVIOUS
  <2>1. new \in RowType /\ new.status = "submitted" /\ new.task = wk[w].task
        /\ new.incurred = r.incurred /\ new.result = r.result
    <3>1. r \in RowType /\ wk[w].task \in Nat BY <1>1, RowAtHand DEF WorkerType
    <3> HIDE DEF r
    <3> QED BY <3>1 DEF RowType, Statuses
  <2>2. accepted[o] \in Nat /\ accepted[o] # 0
    BY <1>1, RowAtHand DEF NoTask
  <2> HIDE DEF new, o, r
  <2> QED BY <1>1, <2>1, <2>2, RowAtHand DEF GoodRow, r
<1>3. Outside(next)
  BY <1>1 DEF Outside, WorkerType, WorkerPcs
<1>4. LedgerCall(w, applies, new, replays, next)
  BY DEF MarkSubmitted
<1> HIDE DEF applies, replays, new, next
<1> QED BY <1>1, <1>2, <1>3, <1>4, LedgerCallKeepsIInv

LEMMA MarkSubmitUnknownKeepsIInv ==
  ASSUME IInv, NEW w \in Workers, MarkSubmitUnknown(w) PROVE IInv'
<1> DEFINE o == wk[w].pos
           r == op[o]
           task == wk[w].task
           applies == /\ \/ r.status = "submitting" /\ wk[w].arg = "leased" /\ r.owner = w
                         \/ r.status = "submitted" /\ wk[w].arg = "unleased"
                      /\ Compatible(r, task)
           new == [r EXCEPT !.status = "submit_unknown", !.task = Known(r, task),
                            !.owner = NoWorker, !.expired = FALSE, !.rejected = FALSE]
<1>1. o \in Ops /\ r \in RowType /\ task \in Nat
      /\ (task # NoTask => accepted[o] = task)
  BY AtHand DEF MarkSubmitUnknown, At, WorkerType
<1>2. applies => GoodRow(w, o, new)
  <2> SUFFICES ASSUME applies PROVE GoodRow(w, o, new)
    OBVIOUS
  <2>1. new \in RowType /\ new.status = "submit_unknown" /\ new.task = Known(r, task)
        /\ new.incurred = r.incurred /\ new.result = r.result
    <3> HIDE DEF r, task
    <3>1. Known(r, task) \in Nat BY <1>1 DEF Known, RowType
    <3> QED BY <1>1, <3>1 DEF RowType, Statuses
  <2>2. new.task # NoTask => accepted[o] = new.task
    BY <1>1, <2>1, RowAtHand DEF Known
  <2>3. r.status # "succeeded" /\ r.incurred <= ClipCost
        /\ (r.status = "succeeded" <=> r.result # "none")
    BY <1>1, RowAtHand
  <2> HIDE DEF new, o, r, task, applies
  <2> QED BY <2>1, <2>2, <2>3 DEF GoodRow
<1>3. LedgerCall(w, applies, new, FALSE, IdleWorker)
  BY DEF MarkSubmitUnknown
<1> HIDE DEF applies, new
<1> QED BY <1>1, <1>2, <1>3, IdleIsOutside, LedgerCallKeepsIInv

LEMMA MarkSucceededKeepsIInv ==
  ASSUME IInv, NEW w \in Workers, MarkSucceeded(w) PROVE IInv'
<1> DEFINE o == wk[w].pos
           r == op[o]
           task == wk[w].task
           cost == wk[w].cost
           applies == /\ r.status \in {"submitted", "submit_unknown"}
                      /\ CostAllowed(r, cost) /\ Compatible(r, task)
           replays == /\ r.status = "succeeded" /\ r.incurred = cost
                      /\ r.result = wk[w].arg /\ Compatible(r, task)
           new == [r EXCEPT !.status = "succeeded", !.task = Known(r, task),
                            !.incurred = cost, !.result = wk[w].arg]
<1>1. o \in Ops /\ r \in RowType /\ task \in Nat /\ cost \in Nat
      /\ task # NoTask /\ accepted[o] = task
      /\ wk[w].arg \in {"accepted", "rejected"}
  BY AtHand DEF MarkSucceeded, At, WorkerType, IInv, ArgsOK
<1>2. applies => GoodRow(w, o, new)
  <2> SUFFICES ASSUME applies PROVE GoodRow(w, o, new)
    OBVIOUS
  <2>1. Known(r, task) = task
    BY <1>1, RowAtHand DEF Known
  <2>2. new \in RowType /\ new.status = "succeeded" /\ new.task = task
        /\ new.incurred = cost /\ new.result # "none"
    <3> HIDE DEF r, task, cost
    <3> QED BY <1>1, <2>1 DEF RowType, Statuses, Terminal
  <2>3. cost <= ClipCost BY DEF CostAllowed
  <2>4. NoToken(o)
    BY <1>1, RowAtHand DEF NoTask
  <2> HIDE DEF new, o, r, task, applies, cost
  <2> QED BY <1>1, <2>2, <2>3, <2>4 DEF GoodRow
<1>3. Outside(Advance(w))
  BY <1>1, AdvanceIsOutside
<1>4. LedgerCall(w, applies, new, replays, Advance(w))
  BY DEF MarkSucceeded
<1> HIDE DEF applies, new, replays
<1> QED BY <1>1, <1>2, <1>3, <1>4, LedgerCallKeepsIInv

LEMMA MarkFailedKeepsIInv ==
  ASSUME IInv, NEW w \in Workers, MarkFailed(w) PROVE IInv'
<1> DEFINE o == wk[w].pos
           r == op[o]
           task == wk[w].task
           cost == wk[w].cost
           applies == /\ r.status \in {"reserved", "submitting", "submitted",
                                       "submit_unknown"}
                      /\ CostAllowed(r, cost) /\ Compatible(r, task)
           new == [r EXCEPT !.status = wk[w].arg, !.task = Known(r, task),
                            !.incurred = cost, !.owner = NoWorker,
                            !.expired = FALSE, !.rejected = FALSE]
<1>1. o \in Ops /\ r \in RowType /\ task \in Nat /\ cost \in Nat
      /\ (task # NoTask => accepted[o] = task)
      /\ wk[w].arg \in {"failed", "cancelled"}
      /\ (task = NoTask => Clean(o))
  BY AtHand DEF MarkFailed, At, WorkerType, IInv, ArgsOK, RefusedIsClean
<1>2. applies => GoodRow(w, o, new)
  <2> SUFFICES ASSUME applies PROVE GoodRow(w, o, new)
    OBVIOUS
  <2>1. new \in RowType /\ new.status = wk[w].arg /\ new.task = Known(r, task)
        /\ new.incurred = cost /\ new.result = r.result
    <3> HIDE DEF r, task, cost
    <3>1. Known(r, task) \in Nat BY <1>1 DEF Known, RowType
    <3> QED BY <1>1, <3>1 DEF RowType, Statuses, Terminal
  <2>2. cost <= ClipCost BY DEF CostAllowed
  <2>3. NoToken(o)
    BY <1>1, RowAtHand DEF NoTask, Clean
  <2>4. new.task # NoTask => accepted[o] = new.task
    BY <1>1, <2>1, RowAtHand DEF Known
  <2>5. accepted[o] > 0 => new.task = accepted[o]
    BY <1>1, <2>1, RowAtHand DEF Known, Clean
  <2>6. r.result = "none" BY <1>1, RowAtHand
  <2> HIDE DEF new, o, r, task, applies, cost
  <2> QED BY <1>1, <2>1, <2>2, <2>3, <2>4, <2>5, <2>6 DEF GoodRow
<1>3. LedgerCall(w, applies, new, FALSE, IdleWorker)
  BY DEF MarkFailed
<1> HIDE DEF applies, new
<1> QED BY <1>1, <1>2, <1>3, IdleIsOutside, LedgerCallKeepsIInv

LEMMA ReleaseDefiniteRejectionKeepsIInv ==
  ASSUME IInv, NEW w \in Workers, ReleaseDefiniteRejection(w) PROVE IInv'
<1> DEFINE o == wk[w].pos
           r == op[o]
           applies == /\ r.status = "submitting" /\ r.owner = w
                      /\ r.task = NoTask /\ r.incurred = 0
           new == [r EXCEPT !.status = "reserved", !.owner = NoWorker,
                            !.expired = FALSE, !.rejected = TRUE]
<1>1. o \in Ops /\ r \in RowType /\ Clean(o)
  BY AtHand DEF ReleaseDefiniteRejection, At, IInv, RefusedIsClean
<1>2. applies => GoodRow(w, o, new)
  <2> SUFFICES ASSUME applies PROVE GoodRow(w, o, new)
    OBVIOUS
  <2>1. new \in RowType /\ new.status = "reserved" /\ new.task = NoTask
        /\ new.incurred = r.incurred /\ new.result = r.result
    <3> HIDE DEF r
    <3> QED BY <1>1 DEF RowType, Statuses
  <2>2. \A v \in Workers \ {w} : ~(HoldsSubmission(v) /\ wk[v].pos = o)
    BY DEF IInv, HolderOwns
  <2>3. r.result = "none" /\ r.incurred <= ClipCost BY <1>1, RowAtHand
  <2> HIDE DEF new, o, r, applies
  <2> QED BY <1>1, <2>1, <2>2, <2>3 DEF GoodRow, Clean
<1>3. LedgerCall(w, applies, new, FALSE, IdleWorker)
  BY DEF ReleaseDefiniteRejection
<1> HIDE DEF applies, new
<1> QED BY <1>1, <1>2, <1>3, IdleIsOutside, LedgerCallKeepsIInv

-----------------------------------------------------------------------------
(* The submission itself, the provider and the clock.                      *)

LEMMA BeginSubmitKeepsIInv ==
  ASSUME IInv, NEW w \in Workers, BeginSubmit(w) PROVE IInv'
<1> DEFINE o == wk[w].pos
           applies == SubmissionAllowed /\ op[o].status = "reserved"
           new == [op[o] EXCEPT !.status = "submitting", !.owner = w,
                                !.expired = FALSE, !.rejected = FALSE]
           x == [wk[w] EXCEPT !.pc = "post"]
<1>1. o \in Ops /\ op[o] \in RowType /\ wk[w] \in WorkerType /\ wk[w].pc = "begin"
      /\ op \in [Ops -> RowType] /\ wk \in [Workers -> WorkerType]
  BY AtHand DEF BeginSubmit, At
<1>2. CASE ~applies
  <2>1. op' = op /\ run' = run /\ wk' = [wk EXCEPT ![w] = IdleWorker]
        /\ UNCHANGED <<posts, accepted, final>>
    BY <1>2 DEF BeginSubmit, LedgerCall
  <2> QED BY <2>1, AtHand, IdleIsOutside, LocalStepKeepsIInv DEF RunTyped
<1>3. CASE applies
  <2>1. op' = [op EXCEPT ![o] = new] /\ wk' = [wk EXCEPT ![w] = x]
        /\ run' = AggregateBilling(run, op') /\ UNCHANGED <<posts, accepted, final>>
    BY <1>3 DEF BeginSubmit, LedgerCall, Write
  <2>2. new \in RowType /\ new.status = "submitting" /\ new.owner = w
        /\ new.task = op[o].task /\ new.incurred = op[o].incurred
        /\ new.result = op[o].result
    <3> HIDE DEF o
    <3> QED BY <1>1 DEF RowType, Statuses
  <2>3. x \in WorkerType /\ x.pc = "post" /\ x.pos = o /\ x.task = wk[w].task
        /\ x.arg = wk[w].arg
    BY <1>1 DEF WorkerType, WorkerPcs
  <2> HIDE DEF new, x
  <2>4. op' \in [Ops -> RowType] /\ wk' \in [Workers -> WorkerType]
    BY <1>1, <2>1, <2>2, <2>3
  <2>5. RunTyped(run') BY <2>1, AtHand, AggregateTyped
  <2>6. TypeOK'
    BY <2>1, <2>4, <2>5 DEF IInv, TypeOK, RowType, WorkerType, RunTyped
  <2>7. \A v \in Workers : wk'[v] = IF v = w THEN x ELSE wk[v]
    BY <1>1, <2>1
  <2>8. \A q \in Ops : op'[q] = IF q = o THEN new ELSE op[q]
    BY <1>1, <2>1
  <2>9. op[o].status = "reserved" /\ Clean(o) /\ op[o].task = NoTask
    BY <1>1, <1>3 DEF IInv, OnePermission, PermissionOK, RowsOK
  <2>10. \A v \in Workers : ~(HoldsSubmission(v) /\ wk[v].pos = o)
    BY <2>9 DEF IInv, HolderOwns
  <2>11. wk[w].task = NoTask
    BY <1>1, <2>9 DEF IInv, TasksAreReal, Clean, NoTask
  <2>12. PosOK' /\ ArgsOK'
    BY <1>1, <2>3, <2>7 DEF IInv, PosOK, ArgsOK
  <2>13. TasksAreReal'
    BY <1>1, <2>1, <2>2, <2>3, <2>7, <2>8, <2>9, <2>11 DEF IInv, TasksAreReal
  <2>14. OnePermission'
    <3> SUFFICES ASSUME NEW q \in Ops PROVE PermissionOK(q)'
      BY DEF OnePermission
    <3>1. PermissionOK(q) BY DEF IInv, OnePermission
    <3>2. CASE q = o
      BY <1>1, <2>1, <2>2, <2>3, <2>7, <2>8, <2>9, <3>1, <3>2
      DEF PermissionOK, Clean, NoToken, Armed
    <3>3. CASE q # o
      BY <1>1, <2>1, <2>3, <2>7, <2>8, <3>1, <3>3
      DEF PermissionOK, Clean, NoToken, Armed
    <3> QED BY <3>2, <3>3
  <2>15. InFlightUnresolved'
    BY <1>1, <2>1, <2>2, <2>3, <2>7, <2>8 DEF IInv, InFlightUnresolved, Armed
  <2>16. RefusedIsClean'
    <3>1. ASSUME NEW v \in Workers, v # w, HoldsSubmission(v)
          PROVE  Clean(wk[v].pos) => Clean(wk[v].pos)'
      BY <2>1, <2>3, <2>7, <2>10, <3>1 DEF Clean, NoToken, Armed
    <3> QED BY <2>3, <2>7, <3>1 DEF IInv, RefusedIsClean, HoldsSubmission
  <2>17. HolderOwns'
    BY <1>1, <2>2, <2>3, <2>7, <2>8, <2>10 DEF IInv, HolderOwns, HoldsSubmission, PosOK
  <2>18. RowsOK' /\ PaidTaskNeverForgotten'
    BY <1>1, <2>1, <2>2, <2>8, <2>9 DEF IInv, RowsOK, PaidTaskNeverForgotten
  <2> QED
    BY <2>6, <2>12, <2>13, <2>14, <2>15, <2>16, <2>17, <2>18 DEF IInv
<1> QED BY <1>2, <1>3

LEMMA SendPostKeepsIInv ==
  ASSUME IInv, NEW w \in Workers, SendPost(w) PROVE IInv'
<1> DEFINE o == wk[w].pos
           x == [wk[w] EXCEPT !.pc = "await"]
<1>1. o \in Ops /\ wk[w] \in WorkerType /\ Armed(w, o)
      /\ wk \in [Workers -> WorkerType]
  BY AtHand DEF SendPost, At, Armed
<1>2. wk' = [wk EXCEPT ![w] = x] /\ posts' = posts \union {<<w, o>>}
      /\ UNCHANGED <<op, run, accepted, final>>
  BY <1>1 DEF SendPost, Goto
<1>3. x \in WorkerType /\ x.pc = "await" /\ x.pos = o /\ x.task = wk[w].task
      /\ x.arg = wk[w].arg
  BY <1>1 DEF WorkerType, WorkerPcs
<1> HIDE DEF x
<1>4. \A v \in Workers : wk'[v] = IF v = w THEN x ELSE wk[v]
  BY <1>1, <1>2
<1>5. TypeOK'
  BY <1>1, <1>2, <1>3 DEF IInv, TypeOK, WorkerType
<1>6. PosOK' /\ ArgsOK' /\ TasksAreReal'
  BY <1>1, <1>2, <1>3, <1>4 DEF IInv, PosOK, ArgsOK, TasksAreReal
<1>7. OnePermission'
  <2> SUFFICES ASSUME NEW q \in Ops PROVE PermissionOK(q)'
    BY DEF OnePermission
  <2>1. PermissionOK(q) BY DEF IInv, OnePermission
  <2>2. CASE q = o
    BY <1>1, <1>2, <1>3, <1>4, <2>1, <2>2 DEF PermissionOK, Clean, NoToken, Armed
  <2>3. CASE q # o
    BY <1>1, <1>2, <1>3, <1>4, <2>1, <2>3 DEF PermissionOK, Clean, NoToken, Armed
  <2> QED BY <2>2, <2>3
<1>8. InFlightUnresolved'
  BY <1>1, <1>2, <1>3, <1>4 DEF IInv, InFlightUnresolved, Armed
<1>9. RefusedIsClean'
  <2>1. \A q \in Ops : Clean(q) => Clean(q)'
    BY <1>1, <1>2, <1>3, <1>4 DEF Clean, NoToken, Armed
  <2> QED BY <1>3, <1>4, <2>1 DEF IInv, RefusedIsClean, PosOK
<1>10. HolderOwns'
  BY <1>1, <1>2, <1>3, <1>4 DEF IInv, HolderOwns, HoldsSubmission, Armed
<1>11. RowsOK' /\ PaidTaskNeverForgotten'
  BY <1>2 DEF IInv, RowsOK, PaidTaskNeverForgotten
<1> QED BY <1>5, <1>6, <1>7, <1>8, <1>9, <1>10, <1>11 DEF IInv

\* What a worker that waited for the answer to a POST may become.
Heard(w, x) ==
  /\ x \in WorkerType /\ x.pos = wk[w].pos
  /\ x.pc \in {"mark_submit_unknown", "mark_submitted",
               "release_definite_rejection", "mark_failed"}
  /\ x.pc = "mark_submit_unknown" => x.arg = "leased"
  /\ x.pc = "mark_failed" => x.arg = "failed"

LEMMA ProviderAcceptsKeepsIInv ==
  ASSUME IInv, NEW w \in Workers, NEW o \in Ops, ProviderAccepts(w, o)
  PROVE  IInv'
<1> DEFINE a == accepted[o] + 1
           lost == LostAnswer(w)
           known == [LostAnswer(w) EXCEPT !.task = a]
           submitted == [wk[w] EXCEPT !.pc = "mark_submitted", !.task = a]
<1>0. accepted \in [Ops -> Nat] /\ wk \in [Workers -> WorkerType]
      /\ wk[w] \in WorkerType
  BY DEF IInv, TypeOK, WorkerType
<1>1. /\ <<w, o>> \in posts /\ posts' = posts \ {<<w, o>>}
      /\ accepted' = [accepted EXCEPT ![o] = a]
      /\ UNCHANGED <<op, run, final>>
  BY DEF ProviderAccepts
<1>2. /\ accepted[o] = 0 /\ a = 1 /\ a \in Nat
      /\ \A v \in Workers : ~Armed(v, o) /\ (<<v, o>> \in posts => v = w)
      /\ op[o].status \in {"submitting", "submit_unknown"}
  BY <1>1 DEF IInv, OnePermission, PermissionOK, InFlightUnresolved
<1>3. accepted' \in [Ops -> Nat] /\ accepted'[o] = 1
      /\ \A q \in Ops : q # o => accepted'[q] = accepted[q]
  BY <1>0, <1>1, <1>2
<1>4. \/ wk' = wk
      \/ /\ At(w, "await") /\ wk[w].pos = o
         /\ \E x \in {lost, known, submitted} : wk' = [wk EXCEPT ![w] = x]
  BY <1>1, <1>3, <1>2 DEF ProviderAccepts, Hear
<1>5. /\ Heard(w, lost) /\ lost.task = wk[w].task /\ lost.pc = "mark_submit_unknown"
      /\ Heard(w, known) /\ known.task = a /\ known.pc = "mark_submit_unknown"
      /\ Heard(w, submitted) /\ submitted.task = a /\ submitted.pc = "mark_submitted"
  <2> HIDE DEF a
  <2> QED BY <1>0, <1>2 DEF Heard, LostAnswer, WorkerType, WorkerPcs
<1>6. PICK x : /\ wk' = [wk EXCEPT ![w] = x]
               /\ \/ x = wk[w]
                  \/ /\ Heard(w, x) /\ At(w, "await") /\ wk[w].pos = o
                     /\ x.pc \in {"mark_submit_unknown", "mark_submitted"}
                     /\ x.pc = "mark_submitted" => x.task = 1
                     /\ x.task \in {1, wk[w].task}
  <2> HIDE DEF a, lost, known, submitted
  <2>1. CASE wk' = wk
    <3>1. wk' = [wk EXCEPT ![w] = wk[w]] BY <1>0, <2>1
    <3> QED BY <3>1
  <2>2. CASE wk' # wk BY <1>2, <1>4, <1>5, <2>2
  <2> QED BY <2>1, <2>2
<1> HIDE DEF a, lost, known, submitted
<1>7. \A v \in Workers : wk'[v] = IF v = w THEN x ELSE wk[v]
  BY <1>0, <1>6
<1>8. TypeOK'
  BY <1>0, <1>1, <1>3, <1>6 DEF IInv, TypeOK, Heard, WorkerType
<1>9. PosOK' /\ ArgsOK'
  BY <1>6, <1>7 DEF IInv, PosOK, ArgsOK, Heard, NoTask
<1>10. TasksAreReal'
  BY <1>1, <1>2, <1>3, <1>6, <1>7 DEF IInv, TasksAreReal, Heard, NoTask, PosOK, At
<1>11. \A v \in Workers, q \in Ops : (Armed(v, q))' => Armed(v, q)
  BY <1>6, <1>7 DEF Armed, Heard
<1>12. OnePermission'
  <2> SUFFICES ASSUME NEW q \in Ops PROVE PermissionOK(q)'
    BY DEF OnePermission
  <2>1. PermissionOK(q) BY DEF IInv, OnePermission
  <2>2. CASE q = o
    BY <1>1, <1>2, <1>3, <1>11, <2>1, <2>2 DEF PermissionOK, Armed
  <2>3. CASE q # o
    <3>1. Clean(q) => Clean(q)'
      BY <1>1, <1>3, <1>11, <2>3 DEF Clean, NoToken
    <3> QED BY <1>1, <1>3, <1>11, <2>1, <2>3, <3>1 DEF PermissionOK
  <2> QED BY <2>2, <2>3
<1>13. InFlightUnresolved'
  BY <1>1, <1>11 DEF IInv, InFlightUnresolved
<1>14. RefusedIsClean'
  <2>1. \A q \in Ops : q # o /\ Clean(q) => Clean(q)'
    BY <1>1, <1>3, <1>11 DEF Clean, NoToken
  <2>2. ~Clean(o) BY <1>1 DEF Clean, NoToken
  <2> QED BY <1>6, <1>7, <2>1, <2>2 DEF IInv, RefusedIsClean, PosOK, Heard
<1>15. HolderOwns'
  BY <1>1, <1>6, <1>7 DEF IInv, HolderOwns, HoldsSubmission, Heard, At
<1>16. RowsOK' /\ PaidTaskNeverForgotten'
  BY <1>1, <1>2, <1>3 DEF IInv, RowsOK, PaidTaskNeverForgotten
<1> QED
  BY <1>8, <1>9, <1>10, <1>12, <1>13, <1>14, <1>15, <1>16 DEF IInv

LEMMA ProviderRejectsKeepsIInv ==
  ASSUME IInv, NEW w \in Workers, NEW o \in Ops, ProviderRejects(w, o)
  PROVE  IInv'
<1> DEFINE lost == LostAnswer(w)
           release == [wk[w] EXCEPT !.pc = "release_definite_rejection"]
           failed == [wk[w] EXCEPT !.pc = "mark_failed", !.arg = "failed"]
<1>1. wk \in [Workers -> WorkerType] /\ wk[w] \in WorkerType
  BY DEF IInv, TypeOK, WorkerType
<1>2. /\ <<w, o>> \in posts /\ posts' = posts \ {<<w, o>>}
      /\ UNCHANGED <<op, run, accepted, final>>
  BY DEF ProviderRejects
<1>3. /\ accepted[o] = 0
      /\ \A v \in Workers : ~Armed(v, o) /\ (<<v, o>> \in posts => v = w)
  BY <1>2 DEF IInv, OnePermission, PermissionOK
<1>4. /\ Heard(w, lost) /\ lost.task = wk[w].task
      /\ Heard(w, release) /\ release.task = wk[w].task
      /\ Heard(w, failed) /\ failed.task = wk[w].task
      /\ lost.pc = "mark_submit_unknown" /\ failed.pc = "mark_failed"
      /\ release.pc = "release_definite_rejection"
  BY <1>1 DEF Heard, LostAnswer, WorkerType, WorkerPcs
<1>5. PICK x : /\ wk' = [wk EXCEPT ![w] = x]
               /\ \/ x = wk[w]
                  \/ /\ Heard(w, x) /\ At(w, "await") /\ wk[w].pos = o
                     /\ x.pc # "mark_submitted" /\ x.task = wk[w].task
  <2>1. CASE wk' = wk
    <3>1. wk' = [wk EXCEPT ![w] = wk[w]] BY <1>1, <2>1
    <3> QED BY <3>1
  <2>2. CASE wk' # wk
    <3>1. /\ At(w, "await") /\ wk[w].pos = o
          /\ \E x \in {lost, release, failed} : wk' = [wk EXCEPT ![w] = x]
      BY <2>2 DEF ProviderRejects, Hear
    <3> HIDE DEF lost, release, failed
    <3> QED BY <1>4, <3>1
  <2> QED BY <2>1, <2>2
<1> HIDE DEF lost, release, failed
<1>6. \A v \in Workers : wk'[v] = IF v = w THEN x ELSE wk[v]
  BY <1>1, <1>5
<1>7. TypeOK'
  BY <1>1, <1>2, <1>5 DEF IInv, TypeOK, Heard, WorkerType
<1>8. PosOK' /\ ArgsOK' /\ TasksAreReal'
  BY <1>2, <1>5, <1>6 DEF IInv, PosOK, ArgsOK, TasksAreReal, Heard
<1>9. \A v \in Workers, q \in Ops : (Armed(v, q))' => Armed(v, q)
  BY <1>5, <1>6 DEF Armed, Heard
<1>10. \A q \in Ops : Clean(q) => Clean(q)'
  BY <1>2, <1>9 DEF Clean, NoToken
<1>11. Clean(o)'
  BY <1>2, <1>3, <1>9 DEF Clean, NoToken
<1>12. OnePermission'
  <2> SUFFICES ASSUME NEW q \in Ops PROVE PermissionOK(q)'
    BY DEF OnePermission
  <2>1. PermissionOK(q) BY DEF IInv, OnePermission
  <2> QED BY <1>2, <1>9, <1>10, <2>1 DEF PermissionOK
<1>13. InFlightUnresolved'
  BY <1>2, <1>9 DEF IInv, InFlightUnresolved
<1>14. RefusedIsClean'
  BY <1>5, <1>6, <1>10, <1>11 DEF IInv, RefusedIsClean, PosOK, Heard
<1>15. HolderOwns'
  BY <1>2, <1>5, <1>6 DEF IInv, HolderOwns, HoldsSubmission, Heard, At
<1>16. RowsOK' /\ PaidTaskNeverForgotten'
  BY <1>2 DEF IInv, RowsOK, PaidTaskNeverForgotten
<1> QED
  BY <1>7, <1>8, <1>12, <1>13, <1>14, <1>15, <1>16 DEF IInv

LEMMA ProviderFinishesKeepsIInv ==
  ASSUME IInv, NEW o \in Ops, ProviderFinishes(o) PROVE IInv'
<1>1. PICK st \in Terminal, c \in Costs :
        final' = [final EXCEPT ![o] = [st |-> st, cost |-> c]]
  BY DEF ProviderFinishes
<1>2. c \in Nat BY MoneyAssumption
<1>3. TypeOK'
  BY <1>1, <1>2 DEF ProviderFinishes, IInv, TypeOK
<1> QED BY <1>3
  DEF ProviderFinishes, IInv, PosOK, ArgsOK, TasksAreReal, OnePermission,
      PermissionOK, InFlightUnresolved, RefusedIsClean, HolderOwns,
      HoldsSubmission, RowsOK, PaidTaskNeverForgotten, Clean, NoToken, Armed

LEMMA LeaseExpiresKeepsIInv ==
  ASSUME IInv, NEW o \in Ops, LeaseExpires(o) PROVE IInv'
<1>1. op \in [Ops -> RowType]
  BY DEF IInv, TypeOK, RowType
<1>2. op' = [op EXCEPT ![o] = [op[o] EXCEPT !.expired = TRUE]]
      /\ UNCHANGED <<run, wk, posts, accepted, final>>
  BY DEF LeaseExpires
<1> DEFINE new == [op[o] EXCEPT !.expired = TRUE]
<1>3. new \in RowType /\ new.status = op[o].status /\ new.task = op[o].task
      /\ new.owner = op[o].owner /\ new.incurred = op[o].incurred
      /\ new.result = op[o].result
  BY <1>1 DEF RowType
<1> HIDE DEF new
<1>4. op' \in [Ops -> RowType]
  BY <1>1, <1>2, <1>3 DEF new
<1>5. TypeOK'
  BY <1>2, <1>4 DEF IInv, TypeOK, RowType
<1>6. \A q \in Ops : /\ op'[q].status = op[q].status /\ op'[q].task = op[q].task
                    /\ op'[q].owner = op[q].owner /\ op'[q].incurred = op[q].incurred
                    /\ op'[q].result = op[q].result
  BY <1>1, <1>2, <1>3 DEF new
<1> QED BY <1>2, <1>5, <1>6
  DEF IInv, PosOK, ArgsOK, TasksAreReal, OnePermission, PermissionOK,
      InFlightUnresolved, RefusedIsClean, HolderOwns, HoldsSubmission, RowsOK,
      PaidTaskNeverForgotten, Clean, NoToken, Armed

-----------------------------------------------------------------------------
LEMMA InitIInv == Init => IInv
<1> SUFFICES ASSUME Init PROVE IInv OBVIOUS
<1> USE NAssumption, MoneyAssumption DEF Init, NoTask
<1>1. 1 \in 1..(N + 1) /\ 1 \in Ops BY DEF Ops
<1>2. TypeOK
  BY <1>1 DEF TypeOK, BlankRow, IdleWorker, WorkerPcs, Statuses, Pending
<1>3. PosOK /\ ArgsOK /\ RefusedIsClean /\ HolderOwns
  BY <1>1 DEF PosOK, ArgsOK, RefusedIsClean, HolderOwns, HoldsSubmission, IdleWorker
<1>4. TasksAreReal /\ InFlightUnresolved
  BY DEF TasksAreReal, InFlightUnresolved, Armed, IdleWorker, BlankRow
<1>5. OnePermission
  BY DEF OnePermission, PermissionOK, Clean, NoToken, Armed, IdleWorker
<1>6. RowsOK /\ PaidTaskNeverForgotten
  BY DEF RowsOK, PaidTaskNeverForgotten, BlankRow
<1> QED BY <1>2, <1>3, <1>4, <1>5, <1>6 DEF IInv

LEMMA NextKeepsIInv == IInv /\ [Next]_vars => IInv'
<1> SUFFICES ASSUME IInv, [Next]_vars PROVE IInv' OBVIOUS
<1>1. ASSUME NEW w \in Workers, WorkerStep(w) PROVE IInv'
  BY <1>1, StartKeepsIInv, ReserveNewKeepsIInv, ReserveExistingKeepsIInv,
     ReserveExpiredKeepsIInv, BeginSubmitKeepsIInv, SendPostKeepsIInv,
     ReleaseDefiniteRejectionKeepsIInv, MarkSubmittedKeepsIInv,
     MarkSubmitUnknownKeepsIInv, MarkSucceededKeepsIInv, MarkFailedKeepsIInv,
     PollKeepsIInv, VerifyKeepsIInv, SettleAndAbandonKeepIInv
  DEF WorkerStep
<1>2. ASSUME NEW w \in Workers, NEW o \in Ops,
             ProviderAccepts(w, o) \/ ProviderRejects(w, o)
      PROVE  IInv'
  BY <1>2, ProviderAcceptsKeepsIInv, ProviderRejectsKeepsIInv
<1>3. ASSUME NEW o \in Ops, ProviderFinishes(o) \/ LeaseExpires(o) PROVE IInv'
  BY <1>3, ProviderFinishesKeepsIInv, LeaseExpiresKeepsIInv
<1>4. CASE UNCHANGED vars
  BY <1>4 DEF vars, IInv, TypeOK, PosOK, ArgsOK, TasksAreReal, OnePermission,
      PermissionOK, InFlightUnresolved, RefusedIsClean, HolderOwns,
      HoldsSubmission, RowsOK, PaidTaskNeverForgotten, Clean, NoToken, Armed
<1> QED BY <1>1, <1>2, <1>3, <1>4 DEF Next

\* The inductive invariant holds in every reachable state.
THEOREM Invariance == Spec => []IInv
BY InitIInv, NextKeepsIInv, PTL DEF Spec

\* Every variable keeps its type.
THEOREM TypeCorrect == Spec => []TypeOK
<1>1. IInv => TypeOK BY DEF IInv
<1> QED BY <1>1, Invariance, PTL

\* Exactly-once paid submission: however many workers execute the step, crash,
\* lose answers or overrun their submit lease, the provider accepts at most
\* one task per operation.
THEOREM ExactlyOncePaidTask == Spec => []AtMostOnePaidTask
<1>1. IInv => AtMostOnePaidTask
  BY DEF IInv, OnePermission, PermissionOK, AtMostOnePaidTask
<1> QED BY <1>1, Invariance, PTL

\* A task the provider charges for stays named by its operation or held for
\* manual reconciliation.
THEOREM PaidTaskKept == Spec => []PaidTaskNeverForgotten
<1>1. IInv => PaidTaskNeverForgotten BY DEF IInv
<1> QED BY <1>1, Invariance, PTL

-----------------------------------------------------------------------------
(* Sums over finite sets, as MapThenSumSet computes them.                  *)

\* g adds up the values of f over every subset of S, one member at a time.
IsSum(g, f, S) ==
  g = [s \in SUBSET S |->
         IF s = {} THEN 0
         ELSE f[CHOOSE x \in s : TRUE] + g[s \ {CHOOSE x \in s : TRUE}]]

\* A set that holds 0 and the successor of each member holds every number.
LEMMA NatInd ==
  ASSUME NEW B, 0 \in B, \A n \in Nat : n \in B => n + 1 \in B
  PROVE  Nat \subseteq B
<1> SUFFICES ASSUME Nat \ B # {} PROVE FALSE OBVIOUS
<1> DEFINE T == Nat \ B
<1>1. T \subseteq Nat /\ T # {} OBVIOUS
<1> HIDE DEF T
<1>2. PICK x \in T : \A y \in T : ~(<<y, x>> \in OpToRel(<, Nat))
  BY <1>1, NatLessThanWellFounded, WFMin, Zenon
<1>3. x \in Nat /\ x \notin B BY DEF T
<1>4. x # 0 BY <1>3
<1>5. x - 1 \in Nat /\ x - 1 < x BY <1>3, <1>4
<1>6. x - 1 \notin T BY <1>2, <1>3, <1>5 DEF OpToRel
<1>7. x - 1 \in B BY <1>5, <1>6 DEF T
<1>8. (x - 1) + 1 \in B BY <1>5, <1>7
<1> QED BY <1>3, <1>8

\* A subset of a finite set without one of its members is one smaller.
LEMMA Smaller ==
  ASSUME NEW S, IsFiniteSet(S), NEW s \in SUBSET S, NEW x \in s
  PROVE  /\ Cardinality(s) \in Nat /\ Cardinality(s \ {x}) \in Nat
         /\ Cardinality(s) = Cardinality(s \ {x}) + 1
<1>1. IsFiniteSet(s) BY FS_Subset
<1>2. IsFiniteSet(s \ {x}) /\ Cardinality(s \ {x}) = Cardinality(s) - 1
  BY <1>1, FS_RemoveElement
<1>3. Cardinality(s) \in Nat /\ Cardinality(s \ {x}) \in Nat
  BY <1>1, <1>2, FS_CardinalityType
<1> QED BY <1>2, <1>3

\* A set that holds {} and every set whose one-smaller subsets it holds.
LEMMA FinInd ==
  ASSUME NEW S, IsFiniteSet(S), NEW B, {} \in B,
         \A s \in SUBSET S : s # {} /\ (\A x \in s : s \ {x} \in B) => s \in B
  PROVE  SUBSET S \subseteq B
<1> DEFINE C == {n \in Nat : \A s \in SUBSET S : Cardinality(s) <= n => s \in B}
<1>1. 0 \in C
  <2>1. ASSUME NEW s \in SUBSET S, Cardinality(s) <= 0 PROVE s \in B
    <3>1. IsFiniteSet(s) BY FS_Subset
    <3>2. Cardinality(s) \in Nat BY <3>1, FS_CardinalityType
    <3>3. Cardinality(s) = 0 BY <2>1, <3>2
    <3>4. s = {} BY <3>1, <3>3, FS_EmptySet
    <3> QED BY <3>4
  <2> QED BY <2>1
<1>2. ASSUME NEW n \in Nat, n \in C PROVE n + 1 \in C
  <2>1. ASSUME NEW s \in SUBSET S, Cardinality(s) <= n + 1 PROVE s \in B
    <3>1. ASSUME NEW x \in s PROVE s \ {x} \in B
      <4>1. Cardinality(s \ {x}) <= n BY <1>2, <2>1, Smaller
      <4> QED BY <1>2, <4>1
    <3> QED BY <3>1
  <2> QED BY <1>2, <2>1
<1> HIDE DEF C
<1>3. Nat \subseteq C BY <1>1, <1>2, NatInd
<1>4. ASSUME NEW s \in SUBSET S PROVE s \in B
  <2>1. Cardinality(s) \in Nat BY FS_Subset, FS_CardinalityType
  <2> QED BY <1>3, <2>1 DEF C
<1> QED BY <1>4

\* The recursive sum over a finite set is defined.
LEMMA SumExists ==
  ASSUME NEW S, IsFiniteSet(S), NEW f PROVE \E g : IsSum(g, f, S)
<1> DEFINE D(n) == {s \in SUBSET S : Cardinality(s) <= n}
           c(s) == CHOOSE x \in s : TRUE
           B == {n \in Nat : \E g : g = [s \in D(n) |->
                   IF s = {} THEN 0 ELSE f[c(s)] + g[s \ {c(s)}]]}
<1>c. \A s \in SUBSET S : s # {} => c(s) \in s OBVIOUS
<1>0. \A s \in SUBSET S : Cardinality(s) = 0 => s = {}
  BY FS_Subset, FS_EmptySet
<1>n. \A s \in SUBSET S : Cardinality(s) \in Nat
  BY FS_Subset, FS_CardinalityType
<1>d. \A s \in SUBSET S : s # {} => Cardinality(s) = Cardinality(s \ {c(s)}) + 1
  BY <1>c, Smaller
<1> HIDE DEF c
<1>1. 0 \in B
  <2> DEFINE g == [s \in D(0) |-> 0]
  <2>1. \A s \in D(0) : s = {} BY <1>0, <1>n
  <2>2. g = [s \in D(0) |-> IF s = {} THEN 0 ELSE f[c(s)] + g[s \ {c(s)}]]
    BY <2>1
  <2> QED BY <2>2
<1>2. ASSUME NEW n \in Nat, n \in B PROVE n + 1 \in B
  <2>1. PICK g : g = [s \in D(n) |-> IF s = {} THEN 0 ELSE f[c(s)] + g[s \ {c(s)}]]
    BY <1>2
  <2> DEFINE h == [s \in D(n + 1) |-> IF s = {} THEN 0 ELSE f[c(s)] + g[s \ {c(s)}]]
  <2>2. ASSUME NEW s \in D(n + 1), s # {} PROVE h[s \ {c(s)}] = g[s \ {c(s)}]
    <3> DEFINE t == s \ {c(s)}
    <3>1. Cardinality(s) \in Nat /\ Cardinality(t) \in Nat
          /\ Cardinality(s) = Cardinality(t) + 1 /\ Cardinality(s) <= n + 1
          /\ t \in SUBSET S
      BY <1>n, <1>d, <2>2
    <3>2. t \in D(n) /\ t \in D(n + 1) BY <3>1
    <3> HIDE DEF t, D
    <3>3. g[t] = IF t = {} THEN 0 ELSE f[c(t)] + g[t \ {c(t)}] BY <2>1, <3>2
    <3>4. h[t] = IF t = {} THEN 0 ELSE f[c(t)] + g[t \ {c(t)}] BY <3>2
    <3> QED BY <3>3, <3>4 DEF t
  <2>3. h = [s \in D(n + 1) |-> IF s = {} THEN 0 ELSE f[c(s)] + h[s \ {c(s)}]]
    <3> HIDE DEF D
    <3>1. ASSUME NEW s \in D(n + 1)
          PROVE  (IF s = {} THEN 0 ELSE f[c(s)] + g[s \ {c(s)}])
                 = (IF s = {} THEN 0 ELSE f[c(s)] + h[s \ {c(s)}])
      <4> HIDE DEF h
      <4> QED BY <2>2
    <3> QED BY <3>1
  <2> HIDE DEF h, D
  <2>4. \E k : k = [s \in D(n + 1) |-> IF s = {} THEN 0 ELSE f[c(s)] + k[s \ {c(s)}]]
    BY <2>3
  <2>5. n + 1 \in Nat OBVIOUS
  <2> QED BY <2>4, <2>5
<1> HIDE DEF B
<1>3. Nat \subseteq B BY <1>1, <1>2, NatInd
<1>4. Cardinality(S) \in Nat BY FS_CardinalityType
<1>5. PICK g : g = [s \in D(Cardinality(S)) |->
                      IF s = {} THEN 0 ELSE f[c(s)] + g[s \ {c(s)}]]
  BY <1>3, <1>4 DEF B
<1>6. D(Cardinality(S)) = SUBSET S BY FS_Subset
<1> HIDE DEF D
<1>7. g = [s \in SUBSET S |-> IF s = {} THEN 0 ELSE f[c(s)] + g[s \ {c(s)}]]
  BY <1>5, <1>6
<1> QED BY <1>7 DEF IsSum, c

\* The sum takes one member, chosen by CHOOSE, and the rest.
LEMMA SumStep ==
  ASSUME NEW S, NEW f, NEW g, IsSum(g, f, S), NEW s \in SUBSET S, s # {}
  PROVE  \E c \in s : g[s] = f[c] + g[s \ {c}]
<1> DEFINE c == CHOOSE x \in s : TRUE
<1>1. c \in s OBVIOUS
<1>2. g[s] = f[c] + g[s \ {c}] BY DEF IsSum
<1> QED BY <1>1, <1>2

LEMMA SumEmpty ==
  ASSUME NEW S, NEW f, NEW g, IsSum(g, f, S) PROVE g[{}] = 0
BY DEF IsSum

LEMMA SumNat ==
  ASSUME NEW S, IsFiniteSet(S), NEW f, \A x \in S : f[x] \in Nat,
         NEW g, IsSum(g, f, S)
  PROVE  \A s \in SUBSET S : g[s] \in Nat
<1> DEFINE B == {s \in SUBSET S : g[s] \in Nat}
<1>1. {} \in B BY SumEmpty
<1>2. ASSUME NEW s \in SUBSET S, s # {}, \A x \in s : s \ {x} \in B PROVE s \in B
  <2>1. PICK c \in s : g[s] = f[c] + g[s \ {c}] BY <1>2, SumStep
  <2>2. g[s \ {c}] \in Nat BY <1>2
  <2>3. f[c] \in Nat OBVIOUS
  <2> QED BY <2>1, <2>2, <2>3
<1> HIDE DEF B
<1>3. SUBSET S \subseteq B BY <1>1, <1>2, FinInd
<1> QED BY <1>3 DEF B

\* The sum may begin with any member.
LEMMA SumAnyFirst ==
  ASSUME NEW S, IsFiniteSet(S), NEW f, \A x \in S : f[x] \in Nat,
         NEW g, IsSum(g, f, S), NEW r \in SUBSET S, NEW z \in r
  PROVE  g[r] = f[z] + g[r \ {z}]
<1> DEFINE B == {s \in SUBSET S : \A x \in s : g[s] = f[x] + g[s \ {x}]}
<1>1. {} \in B OBVIOUS
<1>2. ASSUME NEW s \in SUBSET S, s # {}, \A x \in s : s \ {x} \in B PROVE s \in B
  <2>1. PICK c \in s : g[s] = f[c] + g[s \ {c}] BY <1>2, SumStep
  <2>2. ASSUME NEW x \in s, x # c PROVE g[s] = f[x] + g[s \ {x}]
    <3> DEFINE t == (s \ {c}) \ {x}
    <3>1. t = (s \ {x}) \ {c} OBVIOUS
    <3>2. g[s \ {c}] = f[x] + g[t]
      <4>1. x \in s \ {c} BY <2>2
      <4>2. s \ {c} \in B BY <1>2
      <4> QED BY <4>1, <4>2
    <3>3. g[s \ {x}] = f[c] + g[t]
      <4>1. c \in s \ {x} BY <2>2
      <4>2. s \ {x} \in B BY <1>2
      <4>3. g[s \ {x}] = f[c] + g[(s \ {x}) \ {c}] BY <4>1, <4>2
      <4> QED BY <3>1, <4>3
    <3>4. t \in SUBSET S OBVIOUS
    <3> HIDE DEF t
    <3>5. g[t] \in Nat BY <3>4, SumNat
    <3>6. f[x] \in Nat /\ f[c] \in Nat OBVIOUS
    <3> QED BY <2>1, <3>2, <3>3, <3>5, <3>6
  <2> QED BY <2>1, <2>2
<1> HIDE DEF B
<1>3. SUBSET S \subseteq B BY <1>1, <1>2, FinInd
<1> QED BY <1>3 DEF B

\* Sums over two sets agree when their values do and the rest is nothing.
LEMMA SumSame ==
  ASSUME NEW S, IsFiniteSet(S), NEW f, \A x \in S : f[x] \in Nat,
         NEW g, IsSum(g, f, S),
         NEW T \in SUBSET S, NEW e, NEW h, IsSum(h, e, T),
         \A x \in T : e[x] = f[x],
         \A x \in S \ T : f[x] = 0
  PROVE  g[S] = h[T]
<1> DEFINE B == {s \in SUBSET S : g[s] = h[s \cap T]}
<1>t. IsFiniteSet(T) BY FS_Subset
<1>f. \A x \in T : e[x] \in Nat OBVIOUS
<1>i. IsSum(h, e, T) OBVIOUS
<1>1. {} \in B
  <2>1. g[{}] = 0 /\ h[{}] = 0 BY SumEmpty
  <2> QED BY <2>1
<1>2. ASSUME NEW s \in SUBSET S, s # {}, \A x \in s : s \ {x} \in B PROVE s \in B
  <2>1. PICK c \in s : g[s] = f[c] + g[s \ {c}] BY <1>2, SumStep
  <2>2. g[s \ {c}] = h[(s \ {c}) \cap T] BY <1>2
  <2>3. g[s \ {c}] \in Nat
    <3>1. s \ {c} \in SUBSET S OBVIOUS
    <3> QED BY <3>1, SumNat
  <2>4. CASE c \in T
    <3>1. s \cap T \in SUBSET T /\ c \in s \cap T BY <2>4
    <3>2. (s \cap T) \ {c} = (s \ {c}) \cap T OBVIOUS
    <3>3. h[s \cap T] = e[c] + h[(s \cap T) \ {c}]
      BY ONLY <1>t, <1>f, <1>i, <3>1, SumAnyFirst
    <3>4. e[c] = f[c] BY <2>4
    <3>5. g[s] = h[s \cap T] BY <2>1, <2>2, <3>2, <3>3, <3>4
    <3> QED BY <3>5
  <2>5. CASE c \notin T
    <3>1. s \cap T = (s \ {c}) \cap T BY <2>5
    <3>2. f[c] = 0 BY <2>5
    <3>3. g[s] = g[s \ {c}] BY <2>1, <2>3, <3>2
    <3> QED BY <2>2, <3>1, <3>3
  <2> QED BY <2>4, <2>5
<1> HIDE DEF B
<1>3. SUBSET S \subseteq B BY <1>1, <1>2, FinInd
<1>4. S \cap T = T OBVIOUS
<1> QED BY <1>3, <1>4 DEF B

\* A sum of values of at most C, of which only those of R may count.
LEMMA SumBound ==
  ASSUME NEW S, IsFiniteSet(S), NEW f, \A x \in S : f[x] \in Nat,
         NEW g, IsSum(g, f, S), NEW R \in SUBSET S, NEW C \in Nat,
         \A x \in S : f[x] <= C /\ (x \notin R => f[x] = 0)
  PROVE  g[S] <= Cardinality(R) * C
<1> DEFINE B == {s \in SUBSET S : g[s] <= Cardinality(s \cap R) * C}
<1>1. {} \in B
  <2>1. {} \cap R = {} OBVIOUS
  <2>2. g[{}] = 0 /\ Cardinality({}) = 0 BY SumEmpty, FS_EmptySet
  <2> QED BY <2>1, <2>2
<1>2. ASSUME NEW s \in SUBSET S, s # {}, \A x \in s : s \ {x} \in B PROVE s \in B
  <2>1. PICK c \in s : g[s] = f[c] + g[s \ {c}] BY <1>2, SumStep
  <2>2. g[s \ {c}] <= Cardinality((s \ {c}) \cap R) * C BY <1>2
  <2>3. g[s \ {c}] \in Nat
    <3>1. s \ {c} \in SUBSET S OBVIOUS
    <3> QED BY <3>1, SumNat
  <2>4. CASE c \in R
    <3>1. s \cap R \in SUBSET S /\ c \in s \cap R BY <2>4
    <3>2. (s \cap R) \ {c} = (s \ {c}) \cap R OBVIOUS
    <3> DEFINE m == Cardinality((s \ {c}) \cap R)
    <3>3. m \in Nat /\ Cardinality(s \cap R) = m + 1
      BY <3>1, <3>2, Smaller
    <3>4. f[c] \in Nat /\ f[c] <= C OBVIOUS
    <3> HIDE DEF m
    <3>5. (m + 1) * C = m * C + C /\ m * C \in Nat BY <3>3
    <3>6. g[s] <= m * C + C BY <2>1, <2>2, <2>3, <3>4, <3>5 DEF m
    <3> QED BY <3>3, <3>5, <3>6
  <2>5. CASE c \notin R
    <3>1. s \cap R = (s \ {c}) \cap R BY <2>5
    <3>2. f[c] = 0 BY <2>5
    <3>3. g[s] = g[s \ {c}] BY <2>1, <2>3, <3>2
    <3> QED BY <2>2, <3>1, <3>3
  <2> QED BY <2>4, <2>5
<1> HIDE DEF B
<1>3. SUBSET S \subseteq B BY <1>1, <1>2, FinInd
<1>4. S \cap R = R OBVIOUS
<1> QED BY <1>3, <1>4 DEF B

\* IncurredTotal is such a sum over the operations.
LEMMA IncurredIsSum ==
  ASSUME NEW rows, NEW f, f = [o \in Ops |-> rows[o].incurred]
  PROVE  \E g : IsSum(g, f, Ops) /\ IncurredTotal(rows) = g[Ops]
<1> DEFINE iter[s \in SUBSET Ops] ==
             IF s = {} THEN 0
             ELSE LET x == CHOOSE x \in s : TRUE
                  IN  rows[x].incurred + iter[s \ {x}]
<1>1. IncurredTotal(rows) = iter[Ops]
  BY DEF IncurredTotal, Total, MapThenSumSet, MapThenFoldSet
<1>0. IsFiniteSet(Ops) BY NAssumption, FS_Interval DEF Ops
<1>2. PICK g : IsSum(g, f, Ops) BY <1>0, SumExists
<1>3. \A s \in SUBSET Ops : s # {} => (CHOOSE x \in s : TRUE) \in Ops
  OBVIOUS
<1>4. g = [s \in SUBSET Ops |->
             IF s = {} THEN 0
             ELSE LET x == CHOOSE x \in s : TRUE
                  IN  rows[x].incurred + g[s \ {x}]]
  BY <1>2, <1>3 DEF IsSum
<1>5. iter = [s \in SUBSET Ops |->
             IF s = {} THEN 0
             ELSE LET x == CHOOSE x \in s : TRUE
                  IN  rows[x].incurred + iter[s \ {x}]]
  BY <1>4 DEF iter
<1> HIDE DEF iter
<1>6. IsSum(iter, f, Ops)
  BY <1>3, <1>5 DEF IsSum
<1> QED BY <1>1, <1>6

\* ChargedTotal is such a sum over the operations it is given.
LEMMA CostIsSum ==
  ASSUME NEW T \in SUBSET Ops, NEW f, f = [o \in T |-> final[o].cost]
  PROVE  \E g : IsSum(g, f, T) /\ ChargedTotal(T) = g[T]
<1> DEFINE iter[s \in SUBSET T] ==
             IF s = {} THEN 0
             ELSE LET x == CHOOSE x \in s : TRUE
                  IN  final[x].cost + iter[s \ {x}]
<1>1. ChargedTotal(T) = iter[T]
  BY DEF ChargedTotal, Total, MapThenSumSet, MapThenFoldSet
<1>9. IsFiniteSet(Ops) BY NAssumption, FS_Interval DEF Ops
<1>0. IsFiniteSet(T) BY <1>9, FS_Subset
<1>2. PICK g : IsSum(g, f, T) BY <1>0, SumExists
<1>3. \A s \in SUBSET T : s # {} => (CHOOSE x \in s : TRUE) \in T
  OBVIOUS
<1>4. g = [s \in SUBSET T |->
             IF s = {} THEN 0
             ELSE LET x == CHOOSE x \in s : TRUE
                  IN  final[x].cost + g[s \ {x}]]
  BY <1>2, <1>3 DEF IsSum
<1>5. iter = [s \in SUBSET T |->
             IF s = {} THEN 0
             ELSE LET x == CHOOSE x \in s : TRUE
                  IN  final[x].cost + iter[s \ {x}]]
  BY <1>4 DEF iter
<1> HIDE DEF iter
<1>6. IsSum(iter, f, T)
  BY <1>3, <1>5 DEF IsSum
<1> QED BY <1>1, <1>6

-----------------------------------------------------------------------------
(* The books of the run, for any number of candidates and any costs.       *)

\* What worker state x was told of the verdict on its candidate's task.
ToldRow(x) ==
  /\ x.pc \in {"idle", "reserve", "begin", "post", "await"} => x.cost = 0
  /\ x.pc \in {"verify", "mark_succeeded"}
     \/ (x.pc = "mark_failed" /\ x.task # NoTask) =>
       final[x.pos].st # "pending" /\ x.cost = final[x.pos].cost
  /\ (x.pc = "mark_failed" /\ x.task = NoTask) => x.cost = 0

\* A row of o is charged what the provider reported, or nothing yet.
BookedRow(o, r) ==
  IF r.status \in Terminal /\ r.task # NoTask
  THEN final[o].st # "pending" /\ r.incurred = final[o].cost
  ELSE r.incurred = 0

CostsTold == \A w \in Workers : ToldRow(wk[w])
RowsBooked == \A o \in Ops : BookedRow(o, op[o])
WithinBudget == Cardinality(Reserved(op)) * ClipCost <= RunBudget
RunBooked == /\ run.incurred = IncurredTotal(op)
             /\ run.billing = "settled" => EverySucceeded(op)

BooksOK == CostsTold /\ RowsBooked /\ WithinBudget /\ RunBooked

\* A value one ledger transaction may write to operation o.
LegalRow(o, new) ==
  /\ new.status # "absent"
  /\ op[o].status = "absent" =>
       (Cardinality(Reserved(op)) + 1) * ClipCost <= RunBudget
  /\ op[o].status # "absent" => Contract!TransitionAllowed(op[o], new)
  /\ BookedRow(o, new)

\* What one step of worker w does to the books.
Accounted(w) ==
  /\ final' = final
  /\ \E x : ToldRow(x) /\ wk' = [wk EXCEPT ![w] = x]
  /\ \/ op' = op /\ run' = run
     \/ op' = op /\ EverySucceeded(op) /\ run'.incurred = IncurredTotal(op)
     \/ /\ run' = AggregateBilling(run, op')
        /\ \E o \in Ops : \E new : LegalRow(o, new) /\ op' = [op EXCEPT ![o] = new]

-----------------------------------------------------------------------------
\* The trigger books the sum of the rows, and settles only a complete run.
LEMMA BillingSettled ==
  ASSUME NEW r, NEW rows
  PROVE  /\ AggregateBilling(r, rows).incurred = IncurredTotal(rows)
         /\ AggregateBilling(r, rows).billing = "settled" => EverySucceeded(rows)
<1> DEFINE unknown == Some(rows, {"submit_unknown"})
           failing == Some(rows, {"failed", "cancelled"})
<1>1. unknown \in BOOLEAN /\ failing \in BOOLEAN BY DEF Some
<1>2. CASE unknown BY <1>1, <1>2 DEF AggregateBilling
<1>3. CASE ~unknown /\ failing BY <1>1, <1>3 DEF AggregateBilling
<1>4. CASE ~unknown /\ ~failing BY <1>1, <1>4 DEF AggregateBilling
<1> QED BY <1>1, <1>2, <1>3, <1>4

LEMMA OpsFinite == IsFiniteSet(Ops) /\ N \in Nat
BY NAssumption, FS_Interval DEF Ops

\* The total depends on what the operations incurred and on nothing else.
LEMMA SameIncurred ==
  ASSUME NEW a, NEW b, \A o \in Ops : a[o].incurred = b[o].incurred
  PROVE  IncurredTotal(a) = IncurredTotal(b)
<1> DEFINE f == [o \in Ops |-> a[o].incurred]
           e == [o \in Ops |-> b[o].incurred]
<1>1. f = e OBVIOUS
<1> HIDE DEF f, e
<1>2. f = [o \in Ops |-> a[o].incurred] BY DEF f
<1>3. f = [o \in Ops |-> b[o].incurred] BY <1>1 DEF e
<1>4. PICK g : IsSum(g, f, Ops) /\ IncurredTotal(a) = g[Ops]
  BY ONLY <1>2, IncurredIsSum
<1>5. PICK h : IsSum(h, f, Ops) /\ IncurredTotal(b) = h[Ops]
  BY ONLY <1>3, IncurredIsSum
<1>6. g = h
  <2> SUFFICES \A s \in SUBSET Ops : g[s] = h[s] BY <1>4, <1>5 DEF IsSum
  <2> DEFINE B == {s \in SUBSET Ops : g[s] = h[s]}
  <2>1. {} \in B BY <1>4, <1>5, SumEmpty
  <2>2. ASSUME NEW s \in SUBSET Ops, s # {}, \A x \in s : s \ {x} \in B PROVE s \in B
    <3> DEFINE c == CHOOSE x \in s : TRUE
    <3>1. c \in s BY <2>2
    <3>2. g[s] = f[c] + g[s \ {c}] /\ h[s] = f[c] + h[s \ {c}]
      BY <1>4, <1>5, <2>2 DEF IsSum
    <3> QED BY <2>2, <3>1, <3>2
  <2> HIDE DEF B
  <2>3. SUBSET Ops \subseteq B BY ONLY <2>1, <2>2, OpsFinite, FinInd
  <2> QED BY <2>3 DEF B
<1> QED BY <1>4, <1>5, <1>6

\* A transaction or a step of w keeps the books.
LEMMA AccountedKeepsBooks ==
  ASSUME IInv, BooksOK, NEW w \in Workers, Accounted(w)
  PROVE  BooksOK'
<1>0. op \in [Ops -> RowType] /\ wk \in [Workers -> WorkerType] BY AtHand
<1>1. PICK x : ToldRow(x) /\ wk' = [wk EXCEPT ![w] = x] BY DEF Accounted
<1>2. final' = final BY DEF Accounted
<1>3. CostsTold'
  <2>1. \A v \in Workers : wk'[v] = IF v = w THEN x ELSE wk[v] BY <1>0, <1>1
  <2> QED BY <1>1, <1>2, <2>1 DEF BooksOK, CostsTold, ToldRow
<1>4. CASE op' = op /\ run' = run
  BY <1>2, <1>3, <1>4 DEF BooksOK, RowsBooked, BookedRow, WithinBudget, RunBooked
<1>5. CASE op' = op /\ EverySucceeded(op) /\ run'.incurred = IncurredTotal(op)
  BY <1>2, <1>3, <1>5 DEF BooksOK, RowsBooked, BookedRow, WithinBudget, RunBooked
<1>6. ASSUME run' = AggregateBilling(run, op'), NEW o \in Ops, NEW new,
             LegalRow(o, new), op' = [op EXCEPT ![o] = new]
      PROVE  BooksOK'
  <2>1. \A q \in Ops : op'[q] = IF q = o THEN new ELSE op[q] BY <1>0, <1>6
  <2>2. RowsBooked' BY <1>2, <1>6, <2>1 DEF BooksOK, RowsBooked, BookedRow, LegalRow
  <2>3. RunBooked'
    <3>1. \A r : AggregateBilling(r, op').incurred = IncurredTotal(op')
             /\ (AggregateBilling(r, op').billing = "settled" => EverySucceeded(op'))
      BY BillingSettled
    <3> QED BY <1>6, <3>1 DEF RunBooked
  <2>4. WithinBudget'
    <3>1. CASE op[o].status = "absent"
      <4>1. o \notin Reserved(op) /\ Reserved(op') = Reserved(op) \union {o}
        BY <1>6, <2>1, <3>1 DEF Reserved, LegalRow
      <4>2. IsFiniteSet(Reserved(op)) BY OpsFinite, FS_Subset DEF Reserved
      <4>3. Cardinality(Reserved(op')) = Cardinality(Reserved(op)) + 1
        BY <4>1, <4>2, FS_AddElement
      <4> QED BY <1>6, <3>1, <4>3 DEF LegalRow, WithinBudget
    <3>2. CASE op[o].status # "absent"
      <4>1. Reserved(op') = Reserved(op)
        BY <1>6, <2>1, <3>2 DEF Reserved, LegalRow
      <4> QED BY <4>1 DEF BooksOK, WithinBudget
    <3> QED BY <3>1, <3>2
  <2> QED BY <1>3, <2>2, <2>3, <2>4 DEF BooksOK
<1> QED BY <1>4, <1>5, <1>6 DEF Accounted

\* A lease that expires costs nothing.
LEMMA ExpiryKeepsBooks ==
  ASSUME IInv, BooksOK, NEW o \in Ops, LeaseExpires(o) PROVE BooksOK'
<1>1. op \in [Ops -> RowType] BY AtHand DEF IInv, TypeOK, RowType
<1> DEFINE new == [op[o] EXCEPT !.expired = TRUE]
<1>2. op' = [op EXCEPT ![o] = new] /\ UNCHANGED <<run, wk, final>>
  BY DEF LeaseExpires
<1>3. new.status = op[o].status /\ new.task = op[o].task /\ new.incurred = op[o].incurred
  BY <1>1 DEF RowType
<1> HIDE DEF new
<1>4. \A q \in Ops : op'[q].status = op[q].status /\ op'[q].task = op[q].task
                    /\ op'[q].incurred = op[q].incurred
  BY <1>1, <1>2, <1>3
<1>5. CostsTold' /\ RowsBooked'
  BY <1>2, <1>4 DEF BooksOK, CostsTold, ToldRow, RowsBooked, BookedRow
<1>6. WithinBudget'
  <2>1. Reserved(op') = Reserved(op) BY <1>4 DEF Reserved
  <2> QED BY <2>1 DEF BooksOK, WithinBudget
<1>7. RunBooked'
  <2>1. IncurredTotal(op') = IncurredTotal(op) BY <1>4, SameIncurred
  <2>2. EverySucceeded(op) => EverySucceeded(op') BY <1>4 DEF EverySucceeded
  <2> QED BY <1>2, <2>1, <2>2 DEF BooksOK, RunBooked
<1> QED BY <1>5, <1>6, <1>7 DEF BooksOK

\* A verdict reaches only tasks that nobody has booked yet.
LEMMA VerdictKeepsBooks ==
  ASSUME IInv, BooksOK, NEW o \in Ops, ProviderFinishes(o) PROVE BooksOK'
<1>1. UNCHANGED <<op, run, wk>> /\ final[o].st = "pending"
  BY DEF ProviderFinishes, Pending
<1>2. final \in [Ops -> [st : {"pending"} \union Terminal, cost : Nat]]
  BY DEF IInv, TypeOK
<1>3. \A q \in Ops : q # o => final'[q] = final[q]
  BY <1>2 DEF ProviderFinishes
<1>4. CostsTold'
  <2>1. \A v \in Workers : wk[v].pc # "settle" => wk[v].pos \in Ops
    BY DEF IInv, PosOK
  <2> QED BY <1>1, <1>3, <2>1 DEF BooksOK, CostsTold, ToldRow
<1>5. RowsBooked'
  BY <1>1, <1>3 DEF BooksOK, RowsBooked, BookedRow
<1>6. WithinBudget' /\ RunBooked'
  BY <1>1 DEF BooksOK, WithinBudget, RunBooked
<1> QED BY <1>4, <1>5, <1>6 DEF BooksOK

-----------------------------------------------------------------------------
(* One lemma per step of a worker.                                         *)

\* A ledger transaction that writes a legal row accounts for itself.
LEMMA CallAccounted ==
  ASSUME NEW w \in Workers, wk[w].pos \in Ops,
         NEW applies, NEW replays, NEW new, NEW next,
         applies => LegalRow(wk[w].pos, new),
         applies \/ replays => ToldRow(next),
         LedgerCall(w, applies, new, replays, next)
  PROVE  Accounted(w)
<1>1. ToldRow(IdleWorker)
  BY DEF ToldRow, IdleWorker
<1>2. final' = final /\ \E x : ToldRow(x) /\ wk' = [wk EXCEPT ![w] = x]
  BY <1>1 DEF LedgerCall
<1>3. CASE applies
  <2>1. run' = AggregateBilling(run, op') /\ op' = [op EXCEPT ![wk[w].pos] = new]
    BY <1>3 DEF LedgerCall, Write
  <2> QED BY <1>2, <1>3, <2>1 DEF Accounted
<1>4. CASE ~applies
  BY <1>2, <1>4 DEF LedgerCall, Accounted
<1> QED BY <1>3, <1>4

\* A step that writes nothing and tells the worker the truth.
LEMMA QuietAccounted ==
  ASSUME NEW w \in Workers, NEW x, ToldRow(x), wk' = [wk EXCEPT ![w] = x],
         UNCHANGED <<op, run, final>>
  PROVE  Accounted(w)
BY DEF Accounted

LEMMA IdleIsTold == ToldRow(IdleWorker)
BY DEF ToldRow, IdleWorker

LEMMA AdvanceIsTold == ASSUME NEW w \in Workers PROVE ToldRow(Advance(w))
<1>1. Advance(w).pc \in {"settle", "reserve"} /\ Advance(w).cost = 0
  BY DEF Advance
<1> QED BY <1>1 DEF ToldRow

\* The worker and the operation at hand, and what the books say of them.
LEMMA BooksAtHand ==
  ASSUME IInv, BooksOK, NEW w \in Workers
  PROVE  /\ wk[w] \in WorkerType /\ ToldRow(wk[w])
         /\ wk[w].pc # "settle" => wk[w].pos \in Ops /\ op[wk[w].pos] \in RowType
                                   /\ BookedRow(wk[w].pos, op[wk[w].pos])
BY AtHand DEF BooksOK, CostsTold, RowsBooked

\* Worker states in which no verdict has been heard.
LEMMA UntoldIsTold ==
  ASSUME NEW x, x.pc \in {"settle", "poll", "mark_submitted", "mark_submit_unknown",
                          "release_definite_rejection"}
                \/ (x.pc \in {"idle", "reserve", "begin", "post", "await"} /\ x.cost = 0)
  PROVE  ToldRow(x)
BY DEF ToldRow

LEMMA StartAccounted ==
  ASSUME IInv, BooksOK, NEW w \in Workers, Start(w) PROVE Accounted(w)
<1> DEFINE x == [wk[w] EXCEPT !.pc = "reserve"]
<1>1. wk[w] \in WorkerType /\ wk[w].cost = 0
  BY BooksAtHand DEF Start, At, ToldRow
<1>2. x.pc = "reserve" /\ x.cost = 0 BY <1>1 DEF WorkerType
<1>3. wk' = [wk EXCEPT ![w] = x] /\ UNCHANGED <<op, run, final>>
  BY AtHand DEF Start, Goto
<1> HIDE DEF x
<1> QED BY <1>2, <1>3, UntoldIsTold, QuietAccounted

LEMMA SendPostAccounted ==
  ASSUME IInv, BooksOK, NEW w \in Workers, SendPost(w) PROVE Accounted(w)
<1> DEFINE x == [wk[w] EXCEPT !.pc = "await"]
<1>1. wk[w] \in WorkerType /\ wk[w].cost = 0
  BY BooksAtHand DEF SendPost, At, ToldRow
<1>2. x.pc = "await" /\ x.cost = 0 BY <1>1 DEF WorkerType
<1>3. wk' = [wk EXCEPT ![w] = x] /\ UNCHANGED <<op, run, final>>
  BY AtHand DEF SendPost, Goto
<1> HIDE DEF x
<1> QED BY <1>2, <1>3, UntoldIsTold, QuietAccounted

LEMMA ReserveNewAccounted ==
  ASSUME IInv, BooksOK, NEW w \in Workers, ReserveNew(w) PROVE Accounted(w)
<1> DEFINE o == wk[w].pos
           applies == /\ SubmissionAllowed
                      /\ Cardinality(Reserved(op)) < N
                      /\ (Cardinality(Reserved(op)) + 1) * ClipCost <= RunBudget
           new == BlankRow("reserved")
           next == [wk[w] EXCEPT !.pc = "begin"]
<1>1. o \in Ops /\ wk[w] \in WorkerType /\ wk[w].cost = 0 /\ op[o].status = "absent"
  BY BooksAtHand DEF ReserveNew, At, ToldRow
<1>2. applies => LegalRow(o, new)
  <2>1. new.status = "reserved" /\ new.incurred = 0 BY DEF BlankRow
  <2> QED BY <1>1, <2>1 DEF LegalRow, BookedRow, Terminal
<1>3. next.pc = "begin" /\ next.cost = 0 BY <1>1 DEF WorkerType
<1>4. LedgerCall(w, applies, new, FALSE, next) BY DEF ReserveNew
<1> HIDE DEF applies, new, next
<1>5. ToldRow(next) BY <1>3, UntoldIsTold
<1> QED BY <1>1, <1>2, <1>4, <1>5, CallAccounted

LEMMA ResumeIsTold ==
  ASSUME IInv, BooksOK, NEW w \in Workers, wk[w].pc = "reserve", NEW r
  PROVE  ToldRow(ResumeAt(w, r))
<1> DEFINE begin == [wk[w] EXCEPT !.pc = "begin"]
           poll == [wk[w] EXCEPT !.pc = "poll", !.task = r.task]
           known == \/ r.status = "submitted"
                    \/ r.status = "submit_unknown" /\ r.task # NoTask
<1>1. wk[w] \in WorkerType /\ wk[w].cost = 0 BY BooksAtHand DEF ToldRow
<1>2. begin.pc = "begin" /\ begin.cost = 0 /\ poll.pc = "poll"
  BY <1>1 DEF WorkerType
<1> HIDE DEF begin, poll
<1>3. ToldRow(begin) /\ ToldRow(poll) BY <1>2, UntoldIsTold
<1>4. CASE r.status = "reserved" /\ SubmissionAllowed
  BY <1>3, <1>4 DEF ResumeAt, begin
<1>5. CASE r.status # "reserved" /\ ~known
  BY <1>5, IdleIsTold, AdvanceIsTold DEF ResumeAt
<1>6. CASE known
  BY <1>3, <1>6 DEF ResumeAt, poll
<1>7. CASE r.status = "reserved" /\ ~SubmissionAllowed
  BY <1>7, IdleIsTold DEF ResumeAt
<1> QED BY <1>4, <1>5, <1>6, <1>7

LEMMA ReserveExistingAccounted ==
  ASSUME IInv, BooksOK, NEW w \in Workers, ReserveExisting(w) PROVE Accounted(w)
BY ResumeIsTold, QuietAccounted DEF ReserveExisting, At

LEMMA ReserveExpiredAccounted ==
  ASSUME IInv, BooksOK, NEW w \in Workers, ReserveExpired(w) PROVE Accounted(w)
<1> DEFINE o == wk[w].pos
           new == [op[o] EXCEPT !.status = "submit_unknown", !.owner = NoWorker,
                                !.expired = FALSE, !.rejected = FALSE]
<1>1. o \in Ops /\ op[o].status = "submitting" /\ wk[w].pc = "reserve"
      /\ op[o] \in RowType /\ BookedRow(o, op[o])
  BY BooksAtHand DEF ReserveExpired, At
<1>2. new.status = "submit_unknown" /\ new.task = op[o].task
      /\ new.incurred = op[o].incurred /\ new.result = op[o].result
  BY <1>1 DEF RowType
<1>3. ToldRow(ResumeAt(w, new)) BY <1>1, ResumeIsTold
<1>4. op' = [op EXCEPT ![o] = new] /\ wk' = [wk EXCEPT ![w] = ResumeAt(w, new)]
      /\ run' = AggregateBilling(run, op') /\ final' = final
  BY DEF ReserveExpired, Write
<1> HIDE DEF new
<1>5. Contract!TransitionAllowed(op[o], new)
  <2>1. op[o].incurred \in Nat BY <1>1 DEF RowType
  <2> QED BY <1>1, <1>2, <2>1
    DEF Contract!TransitionAllowed, Contract!Moves, Contract!Terminal
<1>6. LegalRow(o, new)
  BY <1>1, <1>2, <1>5 DEF LegalRow, BookedRow, Terminal
<1> QED BY <1>1, <1>3, <1>4, <1>6 DEF Accounted

LEMMA BeginSubmitAccounted ==
  ASSUME IInv, BooksOK, NEW w \in Workers, BeginSubmit(w) PROVE Accounted(w)
<1> DEFINE o == wk[w].pos
           applies == SubmissionAllowed /\ op[o].status = "reserved"
           new == [op[o] EXCEPT !.status = "submitting", !.owner = w,
                                !.expired = FALSE, !.rejected = FALSE]
           next == [wk[w] EXCEPT !.pc = "post"]
<1>1. o \in Ops /\ wk[w] \in WorkerType /\ wk[w].cost = 0 /\ op[o] \in RowType
      /\ BookedRow(o, op[o])
  BY BooksAtHand DEF BeginSubmit, At, ToldRow
<1>2. new.status = "submitting" /\ new.task = op[o].task
      /\ new.incurred = op[o].incurred /\ new.result = op[o].result
  BY <1>1 DEF RowType
<1>3. next.pc = "post" /\ next.cost = 0 BY <1>1 DEF WorkerType
<1>4. LedgerCall(w, applies, new, FALSE, next) BY DEF BeginSubmit
<1> HIDE DEF new, next
<1>5. applies => LegalRow(o, new)
  <2>1. op[o].incurred \in Nat BY <1>1 DEF RowType
  <2> QED BY <1>1, <1>2, <2>1
    DEF LegalRow, BookedRow, Terminal, Contract!TransitionAllowed,
        Contract!Moves, Contract!Terminal
<1>6. ToldRow(next) BY <1>3, UntoldIsTold
<1> HIDE DEF applies
<1> QED BY <1>1, <1>4, <1>5, <1>6, CallAccounted

LEMMA ReleaseAccounted ==
  ASSUME IInv, BooksOK, NEW w \in Workers, ReleaseDefiniteRejection(w)
  PROVE  Accounted(w)
<1> DEFINE o == wk[w].pos
           r == op[o]
           applies == /\ r.status = "submitting" /\ r.owner = w
                      /\ r.task = NoTask /\ r.incurred = 0
           new == [r EXCEPT !.status = "reserved", !.owner = NoWorker,
                            !.expired = FALSE, !.rejected = TRUE]
<1>1. o \in Ops /\ r \in RowType
  BY BooksAtHand DEF ReleaseDefiniteRejection, At
<1>2. new.status = "reserved" /\ new.task = r.task /\ new.rejected
      /\ new.incurred = r.incurred /\ new.result = r.result
  BY <1>1 DEF RowType
<1>3. LedgerCall(w, applies, new, FALSE, IdleWorker)
  BY DEF ReleaseDefiniteRejection
<1> HIDE DEF new
<1>4. applies => LegalRow(o, new)
  BY <1>2 DEF LegalRow, BookedRow, Terminal, NoTask, Contract!NoTask,
      Contract!TransitionAllowed, Contract!Moves, Contract!Terminal
<1> HIDE DEF applies
<1> QED BY <1>1, <1>3, <1>4, IdleIsTold, CallAccounted

LEMMA MarkSubmittedAccounted ==
  ASSUME IInv, BooksOK, NEW w \in Workers, MarkSubmitted(w) PROVE Accounted(w)
<1> DEFINE o == wk[w].pos
           r == op[o]
           applies == r.status = "submitting" /\ r.owner = w
           replays == r.status = "submitted" /\ r.task = wk[w].task
           new == [r EXCEPT !.status = "submitted", !.task = wk[w].task,
                            !.owner = NoWorker, !.expired = FALSE]
           next == [wk[w] EXCEPT !.pc = "poll"]
<1>1. o \in Ops /\ r \in RowType /\ wk[w] \in WorkerType /\ BookedRow(o, r)
  BY BooksAtHand DEF MarkSubmitted, At
<1>2. new.status = "submitted" /\ new.task = wk[w].task
      /\ new.incurred = r.incurred /\ new.result = r.result
  BY <1>1 DEF RowType
<1>3. next.pc = "poll" BY <1>1 DEF WorkerType
<1>4. LedgerCall(w, applies, new, replays, next) BY DEF MarkSubmitted
<1>5. applies => r.task = NoTask BY <1>1, RowAtHand
<1> HIDE DEF new, next
<1>6. applies => LegalRow(o, new)
  <2>1. r.incurred \in Nat BY <1>1 DEF RowType
  <2> QED BY <1>1, <1>2, <1>5, <2>1
    DEF LegalRow, BookedRow, Terminal, NoTask, Contract!NoTask,
        Contract!TransitionAllowed, Contract!Moves, Contract!Terminal
<1>7. ToldRow(next) BY <1>3, UntoldIsTold
<1> HIDE DEF applies, replays
<1> QED BY <1>1, <1>4, <1>6, <1>7, CallAccounted

LEMMA MarkSubmitUnknownAccounted ==
  ASSUME IInv, BooksOK, NEW w \in Workers, MarkSubmitUnknown(w)
  PROVE  Accounted(w)
<1> DEFINE o == wk[w].pos
           r == op[o]
           task == wk[w].task
           applies == /\ \/ r.status = "submitting" /\ wk[w].arg = "leased" /\ r.owner = w
                         \/ r.status = "submitted" /\ wk[w].arg = "unleased"
                      /\ Compatible(r, task)
           new == [r EXCEPT !.status = "submit_unknown", !.task = Known(r, task),
                            !.owner = NoWorker, !.expired = FALSE, !.rejected = FALSE]
<1>1. o \in Ops /\ r \in RowType /\ BookedRow(o, r)
  BY BooksAtHand DEF MarkSubmitUnknown, At
<1>2. new.status = "submit_unknown" /\ new.task = Known(r, task)
      /\ new.incurred = r.incurred /\ new.result = r.result
  BY <1>1 DEF RowType
<1>3. LedgerCall(w, applies, new, FALSE, IdleWorker) BY DEF MarkSubmitUnknown
<1> HIDE DEF new, task
<1>4. applies => LegalRow(o, new)
  <2>1. r.incurred \in Nat BY <1>1 DEF RowType
  <2>2. r.task # NoTask => Known(r, task) = r.task BY DEF Known
  <2> QED BY <1>1, <1>2, <2>1, <2>2
    DEF LegalRow, BookedRow, Terminal, NoTask, Contract!NoTask,
        Contract!TransitionAllowed, Contract!Moves, Contract!Terminal
<1> HIDE DEF applies
<1> QED BY <1>1, <1>3, <1>4, IdleIsTold, CallAccounted

LEMMA MarkSucceededAccounted ==
  ASSUME IInv, BooksOK, NEW w \in Workers, MarkSucceeded(w) PROVE Accounted(w)
<1> DEFINE o == wk[w].pos
           r == op[o]
           task == wk[w].task
           cost == wk[w].cost
           applies == /\ r.status \in {"submitted", "submit_unknown"}
                      /\ CostAllowed(r, cost) /\ Compatible(r, task)
           replays == /\ r.status = "succeeded" /\ r.incurred = cost
                      /\ r.result = wk[w].arg /\ Compatible(r, task)
           new == [r EXCEPT !.status = "succeeded", !.task = Known(r, task),
                            !.incurred = cost, !.result = wk[w].arg]
<1>1. o \in Ops /\ r \in RowType /\ cost \in Nat
      /\ task # NoTask /\ final[o].st # "pending" /\ cost = final[o].cost
  BY BooksAtHand DEF MarkSucceeded, At, WorkerType, ToldRow, IInv, ArgsOK
<1>2. new.status = "succeeded" /\ new.task = Known(r, task) /\ new.incurred = cost
  BY <1>1 DEF RowType
<1>3. LedgerCall(w, applies, new, replays, Advance(w)) BY DEF MarkSucceeded
<1> HIDE DEF new, task, cost
<1>4. applies => LegalRow(o, new)
  <2>1. r.incurred \in Nat BY <1>1 DEF RowType
  <2>2. r.task # NoTask => Known(r, task) = r.task BY DEF Known
  <2>3. Known(r, task) # NoTask BY <1>1 DEF Known
  <2>4. BookedRow(o, new) BY <1>1, <1>2, <2>3 DEF BookedRow, Terminal
  <2>5. applies => Contract!TransitionAllowed(r, new)
    BY <1>2, <2>1, <2>2
    DEF CostAllowed, NoTask, Contract!NoTask, Contract!TransitionAllowed,
        Contract!Moves, Contract!Terminal
  <2> QED BY <1>2, <2>4, <2>5 DEF LegalRow
<1> HIDE DEF applies, replays
<1> QED BY <1>1, <1>3, <1>4, AdvanceIsTold, CallAccounted

LEMMA MarkFailedAccounted ==
  ASSUME IInv, BooksOK, NEW w \in Workers, MarkFailed(w) PROVE Accounted(w)
<1> DEFINE o == wk[w].pos
           r == op[o]
           task == wk[w].task
           cost == wk[w].cost
           applies == /\ r.status \in {"reserved", "submitting", "submitted",
                                       "submit_unknown"}
                      /\ CostAllowed(r, cost) /\ Compatible(r, task)
           new == [r EXCEPT !.status = wk[w].arg, !.task = Known(r, task),
                            !.incurred = cost, !.owner = NoWorker,
                            !.expired = FALSE, !.rejected = FALSE]
<1>1. /\ o \in Ops /\ r \in RowType /\ cost \in Nat /\ accepted[o] \in Nat
      /\ task = NoTask => Clean(o) /\ cost = 0
      /\ task # NoTask => final[o].st # "pending" /\ cost = final[o].cost
      /\ wk[w].arg \in {"failed", "cancelled"}
      /\ r.task # NoTask => accepted[o] = r.task
  BY BooksAtHand, RowAtHand
  DEF MarkFailed, At, WorkerType, ToldRow, IInv, ArgsOK, RefusedIsClean
<1>2. new.status = wk[w].arg /\ new.task = Known(r, task) /\ new.incurred = cost
      /\ new.result = r.result
  BY <1>1 DEF RowType
<1>3. LedgerCall(w, applies, new, FALSE, IdleWorker) BY DEF MarkFailed
<1> HIDE DEF new, task, cost
<1>4. ASSUME applies PROVE LegalRow(o, new)
  <2>1. r.incurred \in Nat /\ r.incurred <= cost BY <1>1, <1>4 DEF RowType, CostAllowed
  <2>2. r.task # NoTask => Known(r, task) = r.task BY DEF Known
  <2>3. task = NoTask => Known(r, task) = NoTask
    BY <1>1 DEF Known, Clean, NoTask
  <2>4. BookedRow(o, new)
    <3>1. task # NoTask => Known(r, task) # NoTask BY DEF Known
    <3> HIDE DEF r
    <3> QED BY <1>1, <1>2, <2>3, <3>1 DEF BookedRow, Terminal
  <2>5. Contract!TransitionAllowed(r, new)
    <3>1. new.status \in {"failed", "cancelled"}
          /\ r.status \in {"reserved", "submitting", "submitted", "submit_unknown"}
      BY <1>1, <1>2, <1>4
    <3>2. new.status \in Contract!Moves(r.status)
      BY <3>1 DEF Contract!Moves
    <3> QED BY <1>1, <1>2, <2>1, <2>2, <3>1, <3>2
      DEF NoTask, Contract!NoTask, Contract!TransitionAllowed, Contract!Terminal
  <2> QED BY <1>1, <1>2, <1>4, <2>4, <2>5 DEF LegalRow
<1> HIDE DEF applies
<1> QED BY <1>1, <1>3, <1>4, IdleIsTold, CallAccounted

LEMMA PollAccounted ==
  ASSUME IInv, BooksOK, NEW w \in Workers, Poll(w) PROVE Accounted(w)
<1> DEFINE v == final[wk[w].pos]
           verify == [wk[w] EXCEPT !.pc = "verify", !.cost = v.cost]
           mark_failed == [wk[w] EXCEPT !.pc = "mark_failed", !.cost = v.cost,
                                        !.arg = v.st]
<1>1. wk[w] \in WorkerType /\ wk[w].task # NoTask
  BY AtHand DEF Poll, At, IInv, ArgsOK
<1>2. Unresolved(w).pc = "mark_submit_unknown"
  BY <1>1 DEF Unresolved, WorkerType
<1>3. /\ verify.pc = "verify" /\ verify.cost = v.cost /\ verify.pos = wk[w].pos
      /\ mark_failed.pc = "mark_failed" /\ mark_failed.cost = v.cost
      /\ mark_failed.pos = wk[w].pos /\ mark_failed.task # NoTask
  BY <1>1 DEF WorkerType
<1> HIDE DEF verify, mark_failed
<1>4. v.st # "pending" => ToldRow(verify) /\ ToldRow(mark_failed)
  BY <1>3 DEF ToldRow
<1>5. ToldRow(Unresolved(w)) BY <1>2, UntoldIsTold
<1>6. v.st # "pending" => ToldRow(Verdict(w, v))
  <2>1. Verdict(w, v) \in {Unresolved(w), verify, mark_failed}
    BY DEF Verdict, verify, mark_failed
  <2> QED BY <1>4, <1>5, <2>1
<1>7. PICK x : ToldRow(x) /\ wk' = [wk EXCEPT ![w] = x]
  BY <1>5, <1>6, IdleIsTold DEF Poll
<1> QED BY <1>7, QuietAccounted DEF Poll

LEMMA VerifyAccounted ==
  ASSUME IInv, BooksOK, NEW w \in Workers, Verify(w) PROVE Accounted(w)
<1> DEFINE failed == [wk[w] EXCEPT !.pc = "mark_failed", !.arg = "failed"]
           succeeded(res) == [wk[w] EXCEPT !.pc = "mark_succeeded", !.arg = res]
<1>1. wk[w] \in WorkerType /\ wk[w].task # NoTask
      /\ final[wk[w].pos].st # "pending" /\ wk[w].cost = final[wk[w].pos].cost
  BY BooksAtHand DEF Verify, At, ToldRow, IInv, ArgsOK
<1>2. ToldRow(failed)
  <2>1. failed.pc = "mark_failed" /\ failed.cost = wk[w].cost
        /\ failed.pos = wk[w].pos /\ failed.task = wk[w].task
    BY <1>1 DEF WorkerType
  <2> HIDE DEF failed
  <2> QED BY <1>1, <2>1 DEF ToldRow
<1>3. ASSUME NEW res PROVE ToldRow(succeeded(res))
  <2> DEFINE x == succeeded(res)
  <2>1. x.pc = "mark_succeeded" /\ x.cost = wk[w].cost /\ x.pos = wk[w].pos
    BY <1>1 DEF WorkerType
  <2> HIDE DEF x
  <2>2. ToldRow(x) BY <1>1, <2>1 DEF ToldRow
  <2> QED BY <2>2 DEF x
<1>4. PICK x : ToldRow(x) /\ wk' = [wk EXCEPT ![w] = x]
  BY <1>2, <1>3, IdleIsTold DEF Verify
<1> QED BY <1>4, QuietAccounted DEF Verify

LEMMA SettleAndAbandonAccounted ==
  ASSUME IInv, BooksOK, NEW w \in Workers, SettleRun(w) \/ Abandon(w)
  PROVE  Accounted(w)
<1>1. wk' = [wk EXCEPT ![w] = IdleWorker] /\ op' = op /\ final' = final
  BY DEF SettleRun, Abandon
<1>2. run' = run \/ (EverySucceeded(op) /\ run'.incurred = IncurredTotal(op))
  BY DEF SettleRun, Abandon
<1> QED BY <1>1, <1>2, IdleIsTold DEF Accounted

LEMMA AnswerAccounted ==
  ASSUME IInv, BooksOK, NEW w \in Workers, NEW o \in Ops,
         ProviderAccepts(w, o) \/ ProviderRejects(w, o)
  PROVE  Accounted(w)
<1> DEFINE known == [LostAnswer(w) EXCEPT !.task = accepted'[o]]
           submitted == [wk[w] EXCEPT !.pc = "mark_submitted", !.task = accepted'[o]]
           release == [wk[w] EXCEPT !.pc = "release_definite_rejection"]
           failed == [wk[w] EXCEPT !.pc = "mark_failed", !.arg = "failed"]
<1>1. UNCHANGED <<op, run, final>>
  BY DEF ProviderAccepts, ProviderRejects
<1>2. CASE wk' = wk
  <2>1. wk' = [wk EXCEPT ![w] = wk[w]] BY <1>2, AtHand
  <2> QED BY <1>1, <2>1, BooksAtHand, QuietAccounted
<1>3. CASE wk' # wk
  <2>1. wk[w].pc = "await" /\ wk[w].pos = o /\ wk[w] \in WorkerType /\ wk[w].cost = 0
    BY <1>3, BooksAtHand DEF ProviderAccepts, ProviderRejects, Hear, At, ToldRow
  <2>2. /\ LostAnswer(w).pc = "mark_submit_unknown"
        /\ known.pc = "mark_submit_unknown" /\ submitted.pc = "mark_submitted"
        /\ release.pc = "release_definite_rejection"
        /\ failed.pc = "mark_failed" /\ failed.cost = 0 /\ failed.task = wk[w].task
    BY <2>1 DEF LostAnswer, WorkerType
  <2>3. ProviderRejects(w, o) => wk[w].task = NoTask
    BY <2>1 DEF ProviderRejects, IInv, OnePermission, PermissionOK, TasksAreReal, NoTask
  <2>4. \/ ProviderAccepts(w, o)
           /\ \E x \in {LostAnswer(w), known, submitted} : wk' = [wk EXCEPT ![w] = x]
        \/ ProviderRejects(w, o)
           /\ \E x \in {LostAnswer(w), release, failed} : wk' = [wk EXCEPT ![w] = x]
    BY <1>3 DEF ProviderAccepts, ProviderRejects, Hear
  <2> HIDE DEF known, submitted, release, failed
  <2>5. ToldRow(LostAnswer(w)) /\ ToldRow(known) /\ ToldRow(submitted) /\ ToldRow(release)
    BY <2>2, UntoldIsTold
  <2>6. ProviderRejects(w, o) => ToldRow(failed) BY <2>2, <2>3 DEF ToldRow
  <2>7. PICK x : ToldRow(x) /\ wk' = [wk EXCEPT ![w] = x] BY <2>4, <2>5, <2>6
  <2> QED BY <1>1, <2>7, QuietAccounted
<1> QED BY <1>2, <1>3

-----------------------------------------------------------------------------
\* Every step of the system leaves the books to one worker, or to the
\* provider, or only to the clock.
LEMMA StepAccounted ==
  ASSUME IInv, BooksOK, Next
  PROVE  \/ \E w \in Workers : Accounted(w)
         \/ \E o \in Ops : ProviderFinishes(o) \/ LeaseExpires(o)
<1>1. ASSUME NEW w \in Workers, WorkerStep(w) PROVE Accounted(w)
  BY <1>1, StartAccounted, ReserveNewAccounted, ReserveExistingAccounted,
     ReserveExpiredAccounted, BeginSubmitAccounted, SendPostAccounted,
     ReleaseAccounted, MarkSubmittedAccounted, MarkSubmitUnknownAccounted,
     MarkSucceededAccounted, MarkFailedAccounted, PollAccounted, VerifyAccounted,
     SettleAndAbandonAccounted
  DEF WorkerStep
<1>2. ASSUME NEW w \in Workers, NEW o \in Ops,
             ProviderAccepts(w, o) \/ ProviderRejects(w, o)
      PROVE  Accounted(w)
  BY <1>2, AnswerAccounted
<1> QED BY <1>1, <1>2 DEF Next

\* Nothing is reserved, told or charged at the start.
LEMMA InitBooks == Init => BooksOK
<1> SUFFICES ASSUME Init PROVE BooksOK OBVIOUS
<1>1. \A o \in Ops : op[o].status = "absent" /\ op[o].incurred = 0
  BY DEF Init, BlankRow
<1>2. CostsTold
  <2>1. \A w \in Workers : wk[w] = IdleWorker BY DEF Init
  <2> QED BY <2>1, IdleIsTold DEF CostsTold
<1>3. RowsBooked BY <1>1 DEF RowsBooked, BookedRow, Terminal
<1>4. WithinBudget
  <2>1. Reserved(op) = {} BY <1>1 DEF Reserved
  <2>2. Cardinality(Reserved(op)) = 0 BY <2>1, FS_EmptySet
  <2> QED BY <2>2, MoneyAssumption DEF WithinBudget
<1>5. RunBooked
  <2> DEFINE f == [o \in Ops |-> op[o].incurred]
  <2>1. \A o \in Ops : f[o] = 0 BY <1>1
  <2>2. f = [o \in Ops |-> op[o].incurred] OBVIOUS
  <2> HIDE DEF f
  <2>3. PICK g : IsSum(g, f, Ops) /\ IncurredTotal(op) = g[Ops]
    BY ONLY <2>2, IncurredIsSum
  <2>4. g[Ops] = 0
    <3> DEFINE R == {o \in Ops : FALSE}
    <3>1. R \in SUBSET Ops /\ R = {} OBVIOUS
    <3>2. Cardinality(R) = 0 BY <3>1, FS_EmptySet
    <3> HIDE DEF R
    <3>3. \A x \in Ops : f[x] \in Nat BY <2>1
    <3>4. \A x \in Ops : f[x] <= 0 /\ (x \notin R => f[x] = 0) BY <2>1
    <3>5. g[Ops] <= Cardinality(R) * 0
      <4>1. 0 \in Nat OBVIOUS
      <4> QED BY ONLY <2>3, <3>1, <3>3, <3>4, <4>1, OpsFinite, SumBound
    <3>6. g[Ops] \in Nat
      <4>1. \A s \in SUBSET Ops : g[s] \in Nat
        BY ONLY <2>3, <3>3, OpsFinite, SumNat
      <4> QED BY <4>1
    <3> QED BY <3>2, <3>5, <3>6
  <2> QED BY <2>3, <2>4 DEF RunBooked, Init
<1> QED BY <1>2, <1>3, <1>4, <1>5 DEF BooksOK

LEMMA NextKeepsBooks == IInv /\ BooksOK /\ [Next]_vars => BooksOK'
<1> SUFFICES ASSUME IInv, BooksOK, [Next]_vars PROVE BooksOK' OBVIOUS
<1>1. CASE Next
  BY <1>1, StepAccounted, AccountedKeepsBooks, VerdictKeepsBooks, ExpiryKeepsBooks
<1>2. CASE UNCHANGED vars
  BY <1>2 DEF vars, BooksOK, CostsTold, ToldRow, RowsBooked, BookedRow,
     WithinBudget, RunBooked
<1> QED BY <1>1, <1>2

\* The invariant of the books holds in every reachable state: workers were
\* told, rows charged and the run billed what the provider reported.
THEOREM BooksInvariance == Spec => []BooksOK
BY Invariance, InitBooks, NextKeepsBooks, PTL DEF Spec

\* The books are right in every state both invariants hold in.
LEMMA BooksFollow == IInv /\ BooksOK => BooksMatchProvider
<1> SUFFICES ASSUME IInv, BooksOK PROVE BooksMatchProvider OBVIOUS
<1> DEFINE ended == {o \in Ops : op[o].status \in Terminal /\ op[o].task # NoTask}
           f == [o \in Ops |-> op[o].incurred]
           e == [o \in ended |-> final[o].cost]
<1>1. op \in [Ops -> RowType] BY AtHand DEF IInv, TypeOK, RowType
<1>2. \A o \in Ops : f[o] \in Nat /\ f[o] <= ClipCost BY <1>1 DEF RowType, IInv, RowsOK
<1>3. ended \in SUBSET Ops /\ f = [o \in Ops |-> op[o].incurred]
      /\ e = [o \in ended |-> final[o].cost]
  OBVIOUS
<1>4. \A o \in ended : final[o].st # "pending" /\ op[o].incurred = final[o].cost
                       /\ e[o] = f[o]
  BY DEF BooksOK, RowsBooked, BookedRow
<1>5. \A o \in Ops \ ended : f[o] = 0
  BY DEF BooksOK, RowsBooked, BookedRow
<1>6. \A o \in Ops : o \notin Reserved(op) => f[o] = 0
  BY <1>5 DEF Reserved, Terminal
<1>7. run.incurred = IncurredTotal(op) BY DEF BooksOK, RunBooked
<1>8. \A o \in ended : final[o] # Pending /\ op[o].incurred = final[o].cost
  <2> HIDE DEF ended
  <2>1. Pending.st = "pending" BY DEF Pending
  <2> QED BY <1>4, <2>1
<1> HIDE DEF ended, f, e
<1>9. PICK g : IsSum(g, f, Ops) /\ IncurredTotal(op) = g[Ops]
  BY ONLY <1>3, IncurredIsSum
<1>10. PICK h : IsSum(h, e, ended) /\ ChargedTotal(ended) = h[ended]
  BY ONLY <1>3, CostIsSum
<1>11. run.incurred = ChargedTotal(ended)
  <2>1. \A x \in ended : e[x] = f[x] BY <1>4
  <2>2. \A x \in Ops : f[x] \in Nat BY <1>2
  <2>3. g[Ops] = h[ended]
    <3>1. ended \in SUBSET Ops BY <1>3
    <3>2. IsFiniteSet(Ops) BY OpsFinite
    <3>3. IsSum(g, f, Ops) BY <1>9
    <3>4. IsSum(h, e, ended) BY <1>10
    <3> QED BY ONLY <1>5, <2>1, <2>2, <3>1, <3>2, <3>3, <3>4, SumSame
  <2> QED BY <1>7, <1>9, <1>10, <2>3
<1>12. Cardinality(Reserved(op)) * ClipCost <= RunBudget BY DEF BooksOK, WithinBudget
<1>13. run.incurred <= RunBudget
  <2>1. Reserved(op) \in SUBSET Ops BY DEF Reserved
  <2>2. \A x \in Ops : f[x] \in Nat BY <1>2
  <2>3. \A x \in Ops : f[x] <= ClipCost /\ (x \notin Reserved(op) => f[x] = 0)
    BY <1>2, <1>6
  <2>4. g[Ops] <= Cardinality(Reserved(op)) * ClipCost
    BY ONLY <1>9, <2>1, <2>2, <2>3, MoneyAssumption, OpsFinite, SumBound
  <2>5. g[Ops] \in Nat
    <3>1. \A s \in SUBSET Ops : g[s] \in Nat
      BY ONLY <1>9, <2>2, OpsFinite, SumNat
    <3> QED BY <3>1
  <2>6. Cardinality(Reserved(op)) * ClipCost \in Nat
    <3>1. Cardinality(Reserved(op)) \in Nat
      BY <2>1, OpsFinite, FS_Subset, FS_CardinalityType
    <3> QED BY <3>1, MoneyAssumption
  <2> QED BY <1>7, <1>9, <1>12, <2>4, <2>5, <2>6, MoneyAssumption
<1>14. run.billing = "settled" => \A o \in Ops : op[o].status = "succeeded" /\ accepted[o] = 1
  <2> SUFFICES ASSUME run.billing = "settled", NEW o \in Ops
               PROVE  op[o].status = "succeeded" /\ accepted[o] = 1
    OBVIOUS
  <2>1. op[o].status = "succeeded" BY DEF BooksOK, RunBooked, EverySucceeded
  <2>2. accepted[o] \in Nat /\ accepted[o] <= 1 /\ accepted[o] # 0
    BY <2>1, RowAtHand DEF NoTask
  <2> QED BY <2>1, <2>2
<1> QED BY <1>8, <1>11, <1>12, <1>13, <1>14 DEF BooksMatchProvider, ended

\* Money: in every reachable state the run's books hold exactly what the
\* provider charged for its ended operations, within the authorized amount,
\* and are settled only when every candidate succeeded and was paid for once.
THEOREM BooksAreRight == Spec => []BooksMatchProvider
BY Invariance, BooksInvariance, BooksFollow, PTL

-----------------------------------------------------------------------------
(* The contract of migration 0020.                                         *)

View(r) == [status |-> r.status, task |-> r.task, incurred |-> r.incurred,
            result |-> r.result, rejected |-> r.rejected]

LEMMA AccountedImplements ==
  ASSUME IInv, IInv', NEW w \in Workers, Accounted(w)
  PROVE  Contract!CNext \/ UNCHANGED Rows
<1>1. CASE op' = op
  BY <1>1 DEF Rows
<1>2. ASSUME NEW o \in Ops, NEW new, LegalRow(o, new), op' = [op EXCEPT ![o] = new]
      PROVE  Contract!CNext
  <2>1. op \in [Ops -> RowType] BY AtHand
  <2>2. \A q \in Ops : op'[q] = IF q = o THEN new ELSE op[q] BY <1>2, <2>1
  <2>3. /\ Rows = [q \in Ops |-> View(op[q])]
        /\ Rows' = [q \in Ops |-> View(op'[q])]
    BY DEF Rows, View
  <2>4. Contract!RowShape(View(op'[o]))
    <3>1. /\ op'[o].incurred <= ClipCost
          /\ op'[o].status = "succeeded" <=> op'[o].result # "none"
          /\ op'[o].status \in {"submitted", "succeeded"} => op'[o].task # NoTask
      BY DEF IInv, RowsOK
    <3> QED BY <3>1 DEF Contract!RowShape, View, NoTask, Contract!NoTask
  <2>5. op'[o] = new BY <2>2
  <2>6. Rows' = [Rows EXCEPT ![o] = Rows'[o]]
    BY <2>2, <2>3
  <2>7. Rows[o] = View(op[o]) /\ Rows'[o] = View(new)
    BY <2>3, <2>5
  <2>8. Contract!Writes(o) BY <2>4, <2>5, <2>6, <2>7 DEF Contract!Writes
  <2>9. View(new).status = new.status /\ View(op[o]).status = op[o].status BY DEF View
  <2>10. CASE op[o].status = "absent"
    <3>1. Contract!Insert(o)
      BY <1>2, <2>7, <2>8, <2>9, <2>10 DEF Contract!Insert, LegalRow
    <3> QED BY <3>1 DEF Contract!CNext
  <2>11. CASE op[o].status # "absent"
    <3>1. Contract!TransitionAllowed(op[o], new) BY <1>2, <2>11 DEF LegalRow
    <3>2. Contract!TransitionAllowed(View(op[o]), View(new))
      BY <3>1 DEF Contract!TransitionAllowed, View
    <3>3. Contract!Update(o)
      BY <2>7, <2>8, <2>9, <2>11, <3>2 DEF Contract!Update
    <3> QED BY <3>3 DEF Contract!CNext
  <2> QED BY <2>10, <2>11
<1> QED BY <1>1, <1>2 DEF Accounted

\* The provider and the clock write nothing the contract is about.
LEMMA EnvironmentImplements ==
  ASSUME IInv, NEW o \in Ops, ProviderFinishes(o) \/ LeaseExpires(o)
  PROVE  UNCHANGED Rows
<1>1. CASE ProviderFinishes(o) BY <1>1 DEF ProviderFinishes, Rows
<1>2. CASE LeaseExpires(o)
  <2>1. op \in [Ops -> RowType] BY AtHand DEF IInv, TypeOK, RowType
  <2> DEFINE new == [op[o] EXCEPT !.expired = TRUE]
  <2>2. op' = [op EXCEPT ![o] = new] BY <1>2 DEF LeaseExpires
  <2>3. /\ new.status = op[o].status /\ new.task = op[o].task
        /\ new.incurred = op[o].incurred /\ new.result = op[o].result
        /\ new.rejected = op[o].rejected
    BY <2>1 DEF RowType
  <2> HIDE DEF new
  <2>4. \A q \in Ops : /\ op'[q].status = op[q].status /\ op'[q].task = op[q].task
                       /\ op'[q].incurred = op[q].incurred
                       /\ op'[q].result = op[q].result
                       /\ op'[q].rejected = op[q].rejected
    BY <2>1, <2>2, <2>3
  <2> QED BY <2>4 DEF Rows
<1> QED BY <1>1, <1>2

\* The worker's ledger implements the database contract of migration 0020:
\* no transaction attempts a row the CHECK constraints or the transition
\* trigger would reject.
THEOREM LedgerImplementsContract == Spec => ImplementsContract
<1>1. Init => Contract!CInit
  BY DEF Init, BlankRow, Rows, NoTask, Contract!CInit, Contract!Absent, Contract!NoTask
<1>2. IInv /\ IInv' /\ BooksOK /\ [Next]_vars => [Contract!CNext]_Rows
  <2> SUFFICES ASSUME IInv, IInv', BooksOK, [Next]_vars
               PROVE  Contract!CNext \/ UNCHANGED Rows
    OBVIOUS
  <2>1. CASE Next
    BY <2>1, StepAccounted, AccountedImplements, EnvironmentImplements
  <2>2. CASE UNCHANGED vars BY <2>2 DEF vars, Rows
  <2> QED BY <2>1, <2>2
<1> QED
  BY <1>1, <1>2, Invariance, BooksInvariance, PTL
  DEF Spec, ImplementsContract, Contract!ContractSpec
=============================================================================
