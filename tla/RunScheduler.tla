---------------------------- MODULE RunScheduler ----------------------------
(***************************************************************************)
(* The durable step scheduler: runtime/scheduler.py executed by several    *)
(* worker processes over PostgreSQL rows and Redis jobs, next to the       *)
(* control API's cancel, retry and review commands, for one run.           *)
(*                                                                         *)
(* Every read and every write of PostgreSQL or Redis is an action of its   *)
(* own; only reads that follow each other are joined.  A row's revision is *)
(* represented by who still holds it: `fresh' is the set of step rows a    *)
(* worker read that nobody has written since, so the compare-and-swap of   *)
(* save_step succeeds exactly when the step is in it (`runFresh' for the   *)
(* run row).  A lease token is represented by the worker that drew it: a   *)
(* worker handles one delivery at a time.  Clocks are abstracted: a delay  *)
(* ends and a lease lapses at any moment.                                  *)
(***************************************************************************)
EXTENDS Naturals, FiniteSets, FiniteSetsExt

CONSTANTS Workers, NoWorker,
          N,               \* nodes of the pipeline graph
          Deps,            \* depends_on of each node
          ReviewSteps,     \* nodes with a review gate
          CaptureSteps,    \* nodes of the browser-capture queue
          CaptureWorkers,  \* workers that serve only that queue
          Materialized,    \* nodes whose row exists when the model starts
          MaxAttempts,     \* maximum_attempts of each node
          MaxCrashes,      \* bound: worker crashes
          MaxLapses,       \* bound: leases lapsing under a live worker
          MaxCalls,        \* bound: accepted API calls
          MaxEvents        \* bound: all of these together; a crash counts for all

Steps == 1..N

\* Nodes are numbered in graph order, dependencies first.
ASSUME GraphAssumption ==
  /\ N \in Nat \ {0}
  /\ Deps \in [Steps -> SUBSET Steps]
  /\ \A s \in Steps : \A d \in Deps[s] : d < s
  /\ ReviewSteps \subseteq Steps /\ CaptureSteps \subseteq Steps
  /\ Materialized \subseteq Steps
ASSUME WorkerAssumption ==
  NoWorker \notin Workers /\ CaptureWorkers \subseteq Workers
ASSUME BoundAssumption ==
  /\ MaxAttempts \in Nat \ {0}
  /\ {MaxCrashes, MaxLapses, MaxCalls, MaxEvents} \subseteq Nat

\* <<s, k>>: the queue job that wakes step s for its k-th attempt.
Jobs == Steps \X (1..(MaxAttempts + MaxCalls))

VARIABLES step,    \* run_steps rows
          run,     \* the runs row
          job,     \* Redis jobs by idempotency key
          outbox,  \* jobs a committed API retry has still to publish
          wk,      \* where each worker is
          used     \* how much of each bound is spent

vars == <<step, run, job, outbox, wk, used>>

Waiting  == {"queued", "retrying"}
Terminal == {"succeeded", "failed", "cancelled"}
Statuses == {"absent", "running", "awaiting_review"} \union Waiting \union Terminal

StepRow(status) ==
  [st |-> status, att |-> 0, max |-> MaxAttempts, flag |-> FALSE, due |-> TRUE,
   lease |-> NoWorker, exp |-> FALSE]

FreeJob == [st |-> "none", by |-> NoWorker, late |-> FALSE]

IdleWorker ==
  [pc |-> "idle", mode |-> "job", own |-> TRUE, job |-> <<1, 1>>,
   next |-> "idle", plan |-> {}, todo |-> {}, fresh |-> {}, runFresh |-> FALSE,
   progress |-> FALSE, changed |-> FALSE, tries |-> 0, agg |-> "queued"]

Init ==
  /\ step = [s \in Steps |->
               StepRow(IF s \in Materialized THEN "queued" ELSE "absent")]
  /\ run = [status |-> "queued", cancel |-> FALSE]
  /\ job = [j \in Jobs |-> FreeJob]
  /\ outbox = {}
  /\ wk = [w \in Workers |-> IdleWorker]
  /\ used = [crash |-> 0, lapse |-> 0, call |-> 0]

-----------------------------------------------------------------------------
(* Rows.                                                                   *)

Rows(rows) == {s \in Steps : rows[s].st # "absent"}
SomeIn(rows, states) == \E s \in Rows(rows) : rows[s].st \in states
AllIn(rows, states) == \A s \in Rows(rows) : rows[s].st \in states

\* aggregate_run_state, in the database's words (retrying is stored as running).
Aggregate(rows) ==
  IF Rows(rows) = {} THEN "queued"
  ELSE IF AllIn(rows, {"succeeded"}) THEN "succeeded"
  ELSE IF SomeIn(rows, {"failed"}) THEN "failed"
  ELSE IF AllIn(rows, Terminal) THEN "cancelled"
  ELSE IF SomeIn(rows, {"awaiting_review"}) THEN "awaiting_review"
  ELSE IF SomeIn(rows, {"running", "retrying"}) THEN "running"
  ELSE "queued"

Succeeded(s) == step[s].st = "succeeded"
DepsSucceeded(s) == \A d \in Deps[s] : Succeeded(d)
Blocked(s) == \E d \in Deps[s] : step[d].st \in {"failed", "cancelled"}

InQueue(w, s) == (w \in CaptureWorkers) <=> (s \in CaptureSteps)
Scope(w) == {s \in Steps : wk[w].own => InQueue(w, s)}

StartStep(r, w) ==
  [r EXCEPT !.st = "running", !.att = @ + 1, !.lease = w, !.exp = FALSE]
FinishStep(r, status) == [r EXCEPT !.st = status, !.lease = NoWorker, !.exp = FALSE]
\* Faulty: one attempt too many.
FailStepLate(r, retry) ==
  IF retry /\ r.att <= r.max
  THEN [FinishStep(r, "retrying") EXCEPT !.due = FALSE]
  ELSE FinishStep(r, "failed")
FailStep(r, retry) ==
  IF retry /\ r.att < r.max
  THEN [FinishStep(r, "retrying") EXCEPT !.due = FALSE]
  ELSE FinishStep(r, "failed")
\* Faulty: leaves a step under review open.
RequestCancellationOfWork(r) ==
  IF r.st \in {"running", "awaiting_review"} THEN [r EXCEPT !.flag = TRUE]
  ELSE [FinishStep(r, "cancelled") EXCEPT !.flag = TRUE]
RequestCancellation(r) ==
  IF r.st = "running" THEN [r EXCEPT !.flag = TRUE]
  ELSE [FinishStep(r, "cancelled") EXCEPT !.flag = TRUE]
CancelRunningStep(r) == [FinishStep(r, "cancelled") EXCEPT !.flag = TRUE]

\* Faulty: writes of the run row leave its revision as it was.
OutdateSteps(S, runToo) == [v \in Workers |-> [wk[v] EXCEPT !.fresh = @ \ S]]

\* What the other workers read of these rows is stale now.
Outdate(S, runToo) ==
  [v \in Workers |-> [wk[v] EXCEPT !.fresh = @ \ S,
                                   !.runFresh = @ /\ ~runToo]]

\* save_step with expected_revision: the worker goes on to `won' or `lost'.
SaveStep(w, s, new, won, lost) ==
  IF s \in wk[w].fresh
  THEN /\ step' = [step EXCEPT ![s] = new]
       /\ wk' = [Outdate({s}, FALSE) EXCEPT ![w] = won]
  ELSE /\ wk' = [wk EXCEPT ![w] = lost]
       /\ UNCHANGED step

At(w, pc) == wk[w].pc = pc
Goto(w, pc) == [wk[w] EXCEPT !.pc = pc]
AckThen(w, next) == [Goto(w, "ack") EXCEPT !.next = next, !.fresh = {}]
Mine(w) == wk[w].job[1]
\* Faulty: any running step passes for one's own.
HoldsAny(w) == step[Mine(w)].st = "running"
Holds(w) == step[Mine(w)].st = "running" /\ step[Mine(w)].lease = w
LocalStep(w, x) == wk' = [wk EXCEPT ![w] = x]
                   /\ UNCHANGED <<step, run, job, outbox, used>>

-----------------------------------------------------------------------------
(* The queue.                                                              *)

HoldsJob(w) == job[wk[w].job].st = "leased" /\ job[wk[w].job].by = w

\* The delay is part of the fingerprint an idempotency key is checked with.
Refused(j, late) == job[j].st # "none" /\ (late \/ job[j].late)
Published(j, late) ==
  IF job[j].st = "none"
  THEN [job EXCEPT ![j] = [st |-> "ready", by |-> NoWorker, late |-> late]]
  ELSE job
Acked(w) ==
  IF HoldsJob(w) THEN [job EXCEPT ![wk[w].job] = [@ EXCEPT !.st = "done", !.by = NoWorker]]
  ELSE job
Released(w) == [job EXCEPT ![wk[w].job] = [@ EXCEPT !.st = "ready", !.by = NoWorker]]

Reserve(w) ==
  /\ At(w, "idle")
  /\ \E j \in Jobs :
       /\ job[j].st = "ready" /\ InQueue(w, j[1])
       /\ job' = [job EXCEPT ![j] = [@ EXCEPT !.st = "leased", !.by = w]]
       /\ wk' = [wk EXCEPT ![w] = [IdleWorker EXCEPT !.pc = "inspect", !.job = j]]
  /\ UNCHANGED <<step, run, outbox, used>>

Ack(w) ==
  /\ At(w, "ack")
  /\ job' = Acked(w)
  /\ wk' = [wk EXCEPT ![w] = IF wk[w].next = "idle" THEN IdleWorker
                             ELSE [Goto(w, wk[w].next) EXCEPT !.next = "idle"]]
  /\ UNCHANGED <<step, run, outbox, used>>

\* release(); after a failed attempt, a lost delivery is published anew.
Release(w) ==
  LET retry == wk[w].todo
      j == CHOOSE x \in retry : TRUE
      done == IF retry = {} THEN IdleWorker ELSE [Goto(w, "sync") EXCEPT !.todo = {}]
  IN
  /\ At(w, "release")
  /\ IF HoldsJob(w) \/ retry = {}
     THEN /\ job' = IF HoldsJob(w) THEN Released(w) ELSE job
          /\ wk' = [wk EXCEPT ![w] = done]
     ELSE /\ job' = Published(j, TRUE)
          /\ wk' = [wk EXCEPT ![w] = IF Refused(j, TRUE) THEN IdleWorker ELSE done]
  /\ UNCHANGED <<step, run, outbox, used>>

-----------------------------------------------------------------------------
(* WorkerRuntime._process_delivery: from the delivery to the claim.        *)

CancelAsked(s) == run.cancel \/ step[s].flag

Early(w) == Goto(w, "release")

Inspect(w) ==
  LET s == Mine(w)
      found(pc) == [Goto(w, pc) EXCEPT !.fresh = {s}]
  IN
  /\ At(w, "inspect")
  /\ LocalStep(w,
       IF step[s].st \notin Waiting THEN AckThen(w, "idle")
       ELSE IF ~step[s].due THEN Early(w)
       ELSE IF CancelAsked(s) THEN found("cancelQueued")
       ELSE IF ~DepsSucceeded(s) THEN AckThen(w, "idle")
       ELSE found("claim"))

CancelQueued(w) ==
  LET s == Mine(w) IN
  /\ At(w, "cancelQueued")
  /\ SaveStep(w, s, RequestCancellation(step[s]),
              AckThen(w, "sync"), AckThen(w, "sync"))
  /\ UNCHANGED <<run, job, outbox, used>>

\* start_step refuses an exhausted step: the exception leaves the delivery.
Claim(w) ==
  LET s == Mine(w) IN
  /\ At(w, "claim")
  /\ IF s \in wk[w].fresh /\ step[s].att >= step[s].max
     THEN wk' = [wk EXCEPT ![w] = IdleWorker] /\ UNCHANGED step
     ELSE SaveStep(w, s, StartStep(step[s], w),
                   [Goto(w, "sync") EXCEPT !.next = "execute", !.fresh = {}],
                   AckThen(w, "idle"))
  /\ UNCHANGED <<run, job, outbox, used>>

-----------------------------------------------------------------------------
(* The execution: checkpoint (cancellation, heartbeat, cancellation), the  *)
(* fenced final write, and the four ways out of it.                        *)

CancelSeen(w) == ~Holds(w) \/ CancelAsked(Mine(w))

\* recover() of the worker's own queue; the delivery is left to expire.
LeaseLost == [IdleWorker EXCEPT !.pc = "recover", !.mode = "recover"]

Checkpoint(w) ==
  /\ At(w, "execute")
  /\ LocalStep(w, Goto(w, IF CancelSeen(w) THEN "cancelRead" ELSE "beat"))

StepRaises(w) == At(w, "execute") /\ LocalStep(w, Goto(w, "failRead"))

HeartbeatRead(w) ==
  /\ At(w, "beat")
  /\ LocalStep(w, IF Holds(w) /\ ~step[Mine(w)].exp
                  THEN [Goto(w, "beatSave") EXCEPT !.fresh = {Mine(w)}]
                  ELSE LeaseLost)

HeartbeatSave(w) ==
  LET s == Mine(w) IN
  /\ At(w, "beatSave")
  /\ SaveStep(w, s, [step[s] EXCEPT !.exp = FALSE], Goto(w, "recheck"), LeaseLost)
  /\ UNCHANGED <<run, job, outbox, used>>

\* The lease maintainer may have noticed that the delivery was lost.
Recheck(w) ==
  /\ At(w, "recheck")
  /\ \/ LocalStep(w, Goto(w, IF CancelSeen(w) THEN "cancelRead" ELSE "finish"))
     \/ ~CancelSeen(w) /\ ~HoldsJob(w) /\ LocalStep(w, LeaseLost)

Finish(w) ==
  LET s == Mine(w)
      status == IF s \in ReviewSteps THEN "awaiting_review" ELSE "succeeded"
  IN
  /\ At(w, "finish")
  /\ SaveStep(w, s, FinishStep(step[s], status),
              AckThen(w, IF status = "succeeded" THEN "wave" ELSE "sync"),
              Goto(w, "conflict"))
  /\ UNCHANGED <<run, job, outbox, used>>

FinishConflict(w) ==
  /\ At(w, "conflict")
  /\ LocalStep(w, IF step[Mine(w)].flag THEN Goto(w, "cancelRead")
                  ELSE AckThen(w, "idle"))

\* _cancel_claimed
CancelRead(w) ==
  /\ At(w, "cancelRead")
  /\ LocalStep(w, IF Holds(w) THEN [Goto(w, "cancelSave") EXCEPT !.fresh = {Mine(w)}]
                  ELSE AckThen(w, "sync"))

CancelSave(w) ==
  LET s == Mine(w) IN
  /\ At(w, "cancelSave")
  /\ SaveStep(w, s, CancelRunningStep(step[s]), AckThen(w, "sync"), AckThen(w, "sync"))
  /\ UNCHANGED <<run, job, outbox, used>>

\* _fail_claimed
FailRead(w) ==
  /\ At(w, "failRead")
  /\ LocalStep(w, IF Holds(w) THEN [Goto(w, "failSave") EXCEPT !.fresh = {Mine(w)}]
                  ELSE AckThen(w, "idle"))

FailSave(w) ==
  LET s == Mine(w) IN
  /\ At(w, "failSave")
  /\ \E retryable \in BOOLEAN :
       LET new == FailStep(step[s], retryable) IN
       SaveStep(w, s, new,
         IF new.st = "retrying"
         THEN [Goto(w, "release") EXCEPT !.fresh = {}, !.todo = {<<s, new.att + 1>>}]
         ELSE AckThen(w, "wave"),
         AckThen(w, "idle"))
  /\ UNCHANGED <<run, job, outbox, used>>

-----------------------------------------------------------------------------
(* Scheduler.schedule_ready, always followed by the caller's _sync_run.    *)

Scheduled(w) ==
  [Goto(w, "sync") EXCEPT !.next = IF wk[w].changed THEN "sync" ELSE "idle",
                          !.todo = {}, !.changed = FALSE]

\* One wave: the waiting steps that can never run, to be cancelled.
Wave(w) ==
  LET blocked == {s \in Scope(w) : step[s].st \in Waiting /\ Blocked(s)} IN
  /\ At(w, "wave")
  /\ LocalStep(w, IF blocked = {} THEN Goto(w, "list")
                  ELSE [Goto(w, "waveSave") EXCEPT !.plan = blocked,
                          !.fresh = blocked, !.progress = FALSE])

WaveSave(w) ==
  LET s == Min(wk[w].plan)
      rest == wk[w].plan \ {s}
      saved == wk[w].progress \/ s \in wk[w].fresh
      pc == IF rest # {} THEN "waveSave" ELSE IF saved THEN "wave" ELSE "list"
      after == [Goto(w, pc) EXCEPT !.plan = rest, !.fresh = @ \ {s},
                  !.progress = saved /\ rest # {}]
  IN
  /\ At(w, "waveSave")
  /\ SaveStep(w, s, RequestCancellation(step[s]),
              [after EXCEPT !.changed = TRUE], after)
  /\ UNCHANGED <<run, job, outbox, used>>

\* The steps to publish, with the attempt the list showed.
ReadyList(w) ==
  LET ready == {s \in Scope(w) : step[s].st \in Waiting /\ step[s].due
                                 /\ DepsSucceeded(s)}
  IN
  /\ At(w, "list")
  /\ LocalStep(w, IF ready = {} THEN Scheduled(w)
                  ELSE [Goto(w, "publish") EXCEPT
                          !.todo = {<<s, step[s].att + 1>> : s \in ready}])

\* enqueue() of one step; a refused key is a ValueError in the caller, which
\* create_run's caller answers with record_initialization_error.
Publish(w) ==
  LET j == CHOOSE x \in wk[w].todo : \A y \in wk[w].todo : x[1] <= y[1]
      rest == wk[w].todo \ {j}
      unborn == wk[w].mode = "create" /\ run.status = "queued"
  IN
  /\ At(w, "publish")
  /\ IF ~Refused(j, FALSE)
     THEN /\ job' = Published(j, FALSE)
          /\ wk' = [wk EXCEPT ![w] = IF rest = {} THEN Scheduled(w)
                                     ELSE [@ EXCEPT !.todo = rest]]
          /\ UNCHANGED run
     ELSE /\ UNCHANGED job
          /\ wk' = [Outdate({}, unborn) EXCEPT ![w] =
               IF wk[w].mode = "recover"
               THEN [Goto(w, "sync") EXCEPT !.todo = {}, !.changed = FALSE]
               ELSE IdleWorker]
          /\ run' = IF unborn THEN [run EXCEPT !.status = "failed"] ELSE run
  /\ UNCHANGED <<step, outbox, used>>

\* Faulty: gives up at the first conflict.
NoSyncRetries == 0
SyncRetries == 2

\* _sync_run; reading the steps after the run row loses no behaviour, since
\* a run row written in between only makes the save fail.
SyncRead(w) ==
  /\ At(w, "sync")
  /\ LocalStep(w, [Goto(w, "syncSave") EXCEPT !.agg = Aggregate(step),
                                              !.runFresh = TRUE])

SyncSave(w) ==
  LET settle(x) == [x EXCEPT !.agg = "queued", !.runFresh = FALSE, !.tries = 0]
      done == IF wk[w].next = "idle" THEN IdleWorker
              ELSE settle([Goto(w, wk[w].next) EXCEPT !.next = "idle"])
      again == [Goto(w, "sync") EXCEPT !.tries = @ + 1, !.agg = "queued"]
      raised == IF wk[w].next = "execute" THEN settle(AckThen(w, "idle"))
                ELSE IF wk[w].next = "sync" /\ wk[w].mode = "recover"
                THEN settle([Goto(w, "sync") EXCEPT !.next = "idle"])
                ELSE IdleWorker
  IN
  /\ At(w, "syncSave")
  /\ IF wk[w].runFresh
     THEN /\ run' = [run EXCEPT !.status = wk[w].agg]
          /\ wk' = [Outdate({}, TRUE) EXCEPT ![w] = done]
     ELSE /\ wk' = [wk EXCEPT ![w] = IF wk[w].tries < SyncRetries THEN again ELSE raised]
          /\ UNCHANGED run
  /\ UNCHANGED <<step, job, outbox, used>>

-----------------------------------------------------------------------------
(* Scheduler.recover and Scheduler.create_run, from the service's loop.    *)

\* Faulty: only looks for lost leases.
RecoverableLeases(s) == step[s].st = "running" /\ step[s].exp
Recoverable(s) ==
  \/ (step[s].st \in Waiting /\ step[s].due)
  \/ (step[s].st = "running" /\ step[s].exp)

\* list_recoverable: every run is looked at, whatever its status.
ListRecoverable(w, own) ==
  LET found == {s \in Steps : Recoverable(s) /\ (own => InQueue(w, s))} IN
  IF found = {} THEN IdleWorker
  ELSE [IdleWorker EXCEPT !.pc = "recoverRead", !.mode = "recover",
                          !.own = own, !.plan = found]

\* The periodic pass; one that finds nothing changes nothing.
Recover(w) ==
  /\ At(w, "idle")
  /\ LocalStep(w, ListRecoverable(w, w \in CaptureWorkers))
  /\ wk'[w].pc # "idle"

RecoverAfterLoss(w) ==
  /\ At(w, "recover")
  /\ LocalStep(w, ListRecoverable(w, TRUE))

\* Where the pass goes once `rest' is left, `touched' if it concerned the run.
NextRecovery(w, rest, touched) ==
  IF rest # {} THEN [Goto(w, "recoverRead") EXCEPT !.plan = rest,
                       !.progress = touched, !.fresh = {}, !.todo = {}]
  ELSE IF touched THEN [Goto(w, "wave") EXCEPT !.plan = {}, !.progress = FALSE,
                          !.fresh = {}, !.todo = {}]
  ELSE IdleWorker

RecoverRead(w) ==
  LET s == Min(wk[w].plan)
      rest == wk[w].plan \ {s}
  IN
  /\ At(w, "recoverRead")
  /\ LocalStep(w,
       IF step[s].st = "running" /\ step[s].exp
       THEN [Goto(w, "recoverSave") EXCEPT !.fresh = {s}]
       ELSE NextRecovery(w, rest, wk[w].progress \/ step[s].st # "running"))

RecoverSave(w) ==
  LET s == Min(wk[w].plan)
      rest == wk[w].plan \ {s}
      new == FailStep(step[s], TRUE)
  IN
  /\ At(w, "recoverSave")
  /\ SaveStep(w, s, new,
       IF new.st = "retrying"
       THEN [Goto(w, "recoverEnqueue") EXCEPT !.fresh = {}, !.todo = {<<s, new.att + 1>>}]
       ELSE NextRecovery(w, rest, TRUE),
       NextRecovery(w, rest, wk[w].progress))
  /\ UNCHANGED <<run, job, outbox, used>>

\* A refused key is logged and passed over here.
RecoverEnqueue(w) ==
  LET j == CHOOSE x \in wk[w].todo : TRUE IN
  /\ At(w, "recoverEnqueue")
  /\ job' = Published(j, TRUE)
  /\ wk' = [wk EXCEPT ![w] = NextRecovery(w, wk[w].plan \ {j[1]}, TRUE)]
  /\ UNCHANGED <<step, run, outbox, used>>

\* load_pending_graphs offers the queued runs that miss rows.
CreateRun(w) ==
  LET missing == Steps \ Rows(step) IN
  /\ At(w, "idle") /\ w \notin CaptureWorkers
  /\ run.status = "queued" /\ missing # {}
  /\ LocalStep(w, [IdleWorker EXCEPT !.pc = "insert", !.mode = "create",
                     !.own = FALSE, !.plan = missing])

\* A row another worker inserted meanwhile aborts the rest of the graph.
InsertStep(w) ==
  LET s == Min(wk[w].plan)
      rest == wk[w].plan \ {s}
  IN
  /\ At(w, "insert")
  /\ IF step[s].st = "absent"
     THEN /\ step' = [step EXCEPT ![s] = StepRow("queued")]
          /\ wk' = [wk EXCEPT ![w] = [Goto(w, IF rest = {} THEN "wave" ELSE "insert")
                                        EXCEPT !.plan = rest]]
     ELSE /\ wk' = [wk EXCEPT ![w] = IdleWorker]
          /\ UNCHANGED step
  /\ UNCHANGED <<run, job, outbox, used>>

-----------------------------------------------------------------------------
(* The control API; each command is one transaction that holds the run row. *)

Quiet == used.crash = 0 /\ used.lapse + used.call < MaxEvents
Call == Quiet /\ used.call < MaxCalls /\ used' = [used EXCEPT !.call = @ + 1]

ApiCancel ==
  LET open == {s \in Rows(step) : step[s].st \notin Terminal} IN
  /\ run.status \notin Terminal /\ Call
  /\ step' = [s \in Steps |-> IF s \in open THEN RequestCancellation(step[s])
                              ELSE step[s]]
  /\ run' = [status |-> IF Rows(step) = {} THEN "cancelled" ELSE Aggregate(step'),
             cancel |-> TRUE]
  /\ wk' = Outdate(open, TRUE)
  /\ UNCHANGED <<job, outbox>>

\* Every step that depends on s, directly or not: what all sets hold that
\* hold the dependents of s and of their own members.
Downstream(s) ==
  LET Holding == {U \in SUBSET Steps :
                    \A t \in Steps : Deps[t] \intersect (U \union {s}) # {} => t \in U}
  IN  {t \in Steps : \A U \in Holding : t \in U}

\* The manual retry's safety limit.
RetryLimit == 20

ApiRetry(s) ==
  LET revived == {t \in Downstream(s) : step[t].st = "cancelled"}
      again(r, status) == [r EXCEPT !.st = status, !.due = TRUE, !.flag = FALSE]
  IN
  /\ step[s].st = "failed" /\ step[s].att < RetryLimit /\ ~run.cancel /\ Call
  /\ step' = [t \in Steps |->
       IF t = s THEN [again(step[s], "retrying") EXCEPT
                        !.max = IF @ > step[s].att THEN @ ELSE step[s].att + 1]
       ELSE IF t \in revived THEN again(step[t], "queued") ELSE step[t]]
  /\ run' = [run EXCEPT !.status = Aggregate(step')]
  /\ outbox' = outbox \union {<<s, step[s].att + 1>>}
  /\ wk' = Outdate(revived \union {s}, TRUE)
  /\ UNCHANGED job

\* The publication after the retry's commit, or its loss.
ApiPublish ==
  /\ \E j \in outbox : /\ outbox' = outbox \ {j}
                       /\ job' \in {Published(j, FALSE), job}
  /\ UNCHANGED <<step, run, wk, used>>

ApiReview(s) ==
  LET approve == FinishStep(step[s], "succeeded") IN
  /\ step[s].st = "awaiting_review" /\ ~run.cancel
  /\ run.status \notin Terminal /\ Call
  /\ \E new \in {approve, FailStep(step[s], TRUE), FailStep(step[s], FALSE)} :
       step' = [step EXCEPT ![s] = new]
  /\ run' = [run EXCEPT !.status = Aggregate(step')]
  /\ wk' = Outdate({s}, TRUE)
  /\ UNCHANGED <<job, outbox>>

-----------------------------------------------------------------------------
(* Time and crashes.                                                       *)

Handles(w, j) == wk[w].pc # "idle" /\ wk[w].mode = "job" /\ wk[w].job = j
Executes(w, s) == \E k \in 1..(MaxAttempts + MaxCalls) : Handles(w, <<s, k>>)

\* A lease lapses once its holder is gone; under a live holder it is bounded.
Lapse(live) ==
  IF live THEN Quiet /\ used.lapse < MaxLapses /\ used' = [used EXCEPT !.lapse = @ + 1]
  ELSE UNCHANGED used

StepLeaseLapses(s) ==
  /\ step[s].st = "running" /\ ~step[s].exp
  /\ Lapse(Executes(step[s].lease, s))
  /\ step' = [step EXCEPT ![s].exp = TRUE]
  /\ UNCHANGED <<run, job, outbox, wk>>

JobLeaseLapses(j) ==
  /\ job[j].st = "leased"
  /\ Lapse(Handles(job[j].by, j))
  /\ job' = [job EXCEPT ![j] = [@ EXCEPT !.st = "ready", !.by = NoWorker]]
  /\ UNCHANGED <<step, run, outbox, wk>>

StepBecomesDue(s) ==
  /\ step[s].st \in Waiting /\ ~step[s].due
  /\ step' = [step EXCEPT ![s].due = TRUE]
  /\ UNCHANGED <<run, job, outbox, wk, used>>

Crash(w) ==
  /\ ~At(w, "idle") /\ used.crash < MaxCrashes /\ used.lapse + used.call = 0
  /\ used' = [used EXCEPT !.crash = @ + 1]
  /\ wk' = [wk EXCEPT ![w] = IdleWorker]
  /\ UNCHANGED <<step, run, job, outbox>>

-----------------------------------------------------------------------------
WorkerStep(w) ==
  \/ Ack(w) \/ Release(w) \/ Inspect(w) \/ CancelQueued(w) \/ Claim(w)
  \/ Checkpoint(w) \/ StepRaises(w) \/ HeartbeatRead(w) \/ HeartbeatSave(w)
  \/ Recheck(w) \/ Finish(w) \/ FinishConflict(w)
  \/ CancelRead(w) \/ CancelSave(w) \/ FailRead(w) \/ FailSave(w)
  \/ Wave(w) \/ WaveSave(w) \/ ReadyList(w) \/ Publish(w)
  \/ SyncRead(w) \/ SyncSave(w)
  \/ RecoverAfterLoss(w) \/ RecoverRead(w) \/ RecoverSave(w) \/ RecoverEnqueue(w)
  \/ InsertStep(w)

Next ==
  \/ \E w \in Workers : \/ WorkerStep(w) \/ Reserve(w) \/ Recover(w)
                        \/ CreateRun(w) \/ Crash(w)
  \/ \E s \in Steps : \/ ApiRetry(s) \/ ApiReview(s)
                      \/ StepLeaseLapses(s) \/ StepBecomesDue(s)
  \/ \E j \in Jobs : JobLeaseLapses(j)
  \/ ApiCancel \/ ApiPublish

Spec == Init /\ [][Next]_vars

\* run_forever keeps polling, recovering and reading the pending runs, and
\* survives every exception; delays end, and abandoned leases lapse.
Fairness ==
  /\ \A w \in Workers : WF_vars(WorkerStep(w))
  /\ SF_vars(\E w \in Workers : Reserve(w))
  /\ SF_vars(\E w \in Workers : Recover(w) \/ CreateRun(w))
  /\ WF_vars(\E s \in Steps : StepBecomesDue(s))
  /\ WF_vars(\E s \in Steps : StepLeaseLapses(s) /\ UNCHANGED used)
  /\ WF_vars(\E j \in Jobs : JobLeaseLapses(j) /\ UNCHANGED used)

FairSpec == Spec /\ Fairness

-----------------------------------------------------------------------------
(* Properties.                                                             *)

StepRowType ==
  [st : Statuses, att : Nat, max : Nat, flag : BOOLEAN, due : BOOLEAN,
   lease : Workers \union {NoWorker}, exp : BOOLEAN]
JobType == [st : {"none", "ready", "leased", "done"},
            by : Workers \union {NoWorker}, late : BOOLEAN]
RunStatuses == Statuses \ {"absent", "retrying"}

\* The shape of every row, job and worker.
TypeOK ==
  /\ step \in [Steps -> StepRowType]
  /\ run \in [status : RunStatuses, cancel : BOOLEAN]
  /\ job \in [Jobs -> JobType]
  /\ outbox \subseteq Jobs
  /\ \A w \in Workers : wk[w].job \in Jobs /\ wk[w].todo \subseteq Jobs
                      /\ wk[w].plan \subseteq Steps /\ wk[w].tries \in 0..SyncRetries

\* A step that waits can still start: an attempt is left, so that start_step
\* does not raise, and the key that must wake it is not spent, so that enqueue()
\* does not ignore it.
WaitingCanStart ==
  \A s \in Steps : step[s].st \in Waiting =>
    /\ step[s].att < step[s].max
    /\ ~run.cancel => job[<<s, step[s].att + 1>>].st # "done"

\* A run shown as finished is finished that way.
TerminalRunIsTrue ==
  run.status \in Terminal => run.status = Aggregate(step)

\* Worker w is on its way to _sync_run, or in it.
Syncs(w) ==
  \/ At(w, "ack") /\ wk[w].next \in {"sync", "wave"}
  \/ wk[w].pc \in {"wave", "waveSave", "list", "sync", "syncSave", "recoverEnqueue"}
  \/ wk[w].pc \in {"recoverRead", "recoverSave"} /\ wk[w].progress

\* Once every step has ended, the run shows the outcome or a worker is still on
\* its way to store it, whichever of them conflict: only a crash can leave the
\* run behind its steps, which no later pass would visit.
OutcomeIsInHand ==
  used.crash = 0 /\ (\A s \in Steps : step[s].st \in Terminal) /\ run.status # Aggregate(step)
  => \E w \in Workers : Syncs(w)

\* A result is committed by the holder of the step's lease only.
ResultFromLeaseHolder ==
  [][\A s \in Steps :
       step[s].st = "running" /\ step'[s].st \in {"succeeded", "awaiting_review"}
       => \E w \in Workers : At(w, "finish") /\ Mine(w) = s /\ step[s].lease = w]_vars

\* The scheduler keeps every promise of StepLifecycle.
Lifecycle == INSTANCE StepLifecycle WITH
  st <- [s \in Steps |-> step[s].st], att <- [s \in Steps |-> step[s].att],
  stopped <- run.cancel
ImplementsLifecycle == Lifecycle!Spec

\* In the end no step runs, and one waits only behind a review.
WorkRunsOut ==
  <>[](\A s \in Steps :
         /\ step[s].st # "running"
         /\ step[s].st \in Waiting =>
              \E d \in Deps[s] : step[d].st \in Waiting \union {"awaiting_review"})

\* In the end the run shows what became of its steps.
RunCatchesUp == <>[](run.status = Aggregate(step))
=============================================================================
