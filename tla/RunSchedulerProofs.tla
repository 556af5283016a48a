------------------------- MODULE RunSchedulerProofs -------------------------
(***************************************************************************)
(* Machine-checked: for any graph, any number of workers and any bounds, a *)
(* step that waits can start, a step starts after its dependencies only,   *)
(* results come from the holder of the lease, the scheduler implements     *)
(* StepLifecycle, the row of a run whose graph is complete tells the truth *)
(* once it is terminal, and only a crash leaves a run behind its steps.    *)
(*                                                                         *)
(* The argument.  What a worker read and nobody has written since is still *)
(* so (`fresh' in WorkerSound): hence each write changes a row in one of   *)
(* few ways (RowsMove), each of them a step of StepLifecycle.  A queue job *)
(* that was published names an attempt whose dependencies have succeeded   *)
(* (Known), and its key is spent only when that attempt has been started   *)
(* or cannot be (Spent); no later write takes either back.  Who ends the   *)
(* last step goes on to _sync_run, and has a try left there for each write *)
(* of the run's row that may still come before its own (Carried).          *)
(***************************************************************************)
EXTENDS RunScheduler, WellFoundedInduction, TLAPS

\* Once a worker has claimed a step it is in one of these.
Past == {"ack", "execute", "beat", "beatSave", "recheck", "finish", "conflict",
         "cancelRead", "cancelSave", "failRead", "failSave"}
Places == Past \union
  {"idle", "inspect", "cancelQueued", "claim", "release", "sync", "syncSave", "wave",
   "waveSave", "list", "publish", "recover", "recoverRead", "recoverSave",
   "recoverEnqueue", "insert"}
WorkerRow ==
  [pc : Places, mode : {"job", "recover", "create"}, own : BOOLEAN, job : Jobs,
   next : {"idle", "sync", "execute", "wave"}, plan : SUBSET Steps, todo : SUBSET Jobs,
   fresh : SUBSET Steps, runFresh : BOOLEAN, progress : BOOLEAN, changed : BOOLEAN,
   tries : 0..SyncRetries, agg : RunStatuses]

\* TypeOK, with what it leaves open.
Shapes ==
  /\ step \in [Steps -> StepRowType]
  /\ run \in [status : RunStatuses, cancel : BOOLEAN]
  /\ job \in [Jobs -> JobType]
  /\ outbox \subseteq Jobs
  /\ wk \in [Workers -> WorkerRow]
  /\ used \in [crash : Nat, lapse : Nat, call : 0..MaxCalls]

\* Only accepted retries give attempts beyond the configured ones, and who may
\* still be started has one left.
AttemptsOf(s) ==
  /\ step[s].att <= step[s].max /\ step[s].max <= MaxAttempts + used.call
  /\ step[s].st = "absent" => step[s].att = 0
  /\ step[s].st \in Waiting => step[s].att < step[s].max
  /\ step[s].st = "cancelled" /\ ~run.cancel => step[s].att < step[s].max
Attempts == \A s \in Steps : AttemptsOf(s)
\* An open step is flagged only when the run is cancelled.
Flags ==
  \A s \in Steps : step[s].flag /\ step[s].st \notin Terminal => run.cancel
Started ==
  \A s \in Steps : step[s].st \in {"running", "awaiting_review", "succeeded", "failed"}
                   => DepsSucceeded(s)

\* A job that was, or will be, published.
Known(j) ==
  LET s == j[1] IN
  /\ step[s].st # "absent" /\ DepsSucceeded(s)
  /\ \/ j[2] <= step[s].att
     \/ j[2] = step[s].att + 1 /\ step[s].st \in Waiting \union {"cancelled"}
\* Its attempt has been started or never will be.
Spent(j) ==
  LET s == j[1] IN
  \/ j[2] <= step[s].att
  \/ run.cancel
  \/ step[s].st = "cancelled" /\ DepsSucceeded(s)

JobsSound ==
  /\ \A j \in Jobs : /\ job[j].st # "none" => Known(j)
                     /\ job[j].st = "done" => Spent(j)
  /\ \A j \in outbox : Known(j)

Claimed(row) == row.pc \in Past \/ row.next = "execute"
\* What a worker relies on, wherever it is.
RowSound(w, row) ==
  /\ \A j \in row.todo : Known(j)
  /\ row.pc \in {"publish", "recoverEnqueue"} => row.todo # {}
  /\ row.pc \in {"waveSave", "recoverRead", "recoverSave", "recoverEnqueue", "insert"}
     => row.plan # {}
  /\ \A j \in {row.job} :
       /\ row.pc \in {"inspect", "claim", "cancelQueued"} => Known(j)
       /\ Claimed(row) => Spent(j)
       /\ row.pc \in {"claim", "cancelQueued"} => j[1] \in row.fresh \/ Spent(j)
       /\ row.pc = "cancelRead"
          => ~(step[j[1]].st = "running" /\ step[j[1]].lease = w) \/ run.cancel
  /\ row.pc = "cancelSave" => run.cancel
  /\ \A s \in row.fresh :
       /\ row.pc \in {"cancelQueued", "claim", "waveSave"} => step[s].st \in Waiting
       /\ row.pc \in {"claim", "finish"} => ~run.cancel
       /\ row.pc \in {"beatSave", "recheck", "finish", "cancelSave", "failSave"}
          => step[s].st = "running" /\ step[s].lease = w
       /\ row.pc = "recoverSave" => step[s].st = "running"
WorkerSound(w) == RowSound(w, wk[w])

IInv ==
  /\ Shapes /\ Attempts /\ Flags /\ Started /\ JobsSound
  /\ \A w \in Workers : WorkerSound(w)

\* Of a run that starts with all its rows: no worker creates any, and who is
\* about to store a terminal status has the right one.
Truth ==
  /\ \A s \in Steps : step[s].st # "absent"
  /\ \A w \in Workers :
       /\ wk[w].mode # "create"
       /\ wk[w].pc = "syncSave" /\ wk[w].runFresh /\ wk[w].agg \in Terminal
          => wk[w].agg = Aggregate(step)
  /\ TerminalRunIsTrue

-----------------------------------------------------------------------------
(* Least elements and fields.                                              *)

LEMMA LeastNat ==
  ASSUME NEW T, T \subseteq Nat, T # {}
  PROVE  \E x \in T : \A y \in T : x <= y
<1>1. PICK x \in T : \A y \in T : ~(<<y, x>> \in OpToRel(<, Nat))
  BY NatLessThanWellFounded, WFMin, Zenon
<1>2. \A y \in T : ~(y < x)
  BY <1>1 DEF OpToRel
<1> QED BY <1>2

LEMMA MinIsMember ==
  ASSUME NEW S, S \subseteq Steps, S # {}
  PROVE  Min(S) \in S
<1>1. S \subseteq Nat
  BY DEF Steps
<1> QED BY <1>1, LeastNat DEF Min

LEMMA FirstJob ==
  ASSUME NEW T, T \subseteq Jobs, T # {}
  PROVE  (CHOOSE x \in T : \A y \in T : x[1] <= y[1]) \in T
<1>1. {x[1] : x \in T} \subseteq Nat
  BY DEF Jobs, Steps
<1>2. PICK a \in {x[1] : x \in T} : \A b \in {x[1] : x \in T} : a <= b
  BY <1>1, LeastNat
<1>3. PICK x \in T : x[1] = a
  BY <1>2
<1>4. \A y \in T : x[1] <= y[1]
  BY <1>2, <1>3
<1> QED BY <1>4

-----------------------------------------------------------------------------
(* Rows of workers.                                                        *)

LEMMA IdleIsRow ==
  /\ IdleWorker \in WorkerRow
  /\ IdleWorker.pc = "idle" /\ IdleWorker.mode = "job" /\ IdleWorker.fresh = {}
  /\ IdleWorker.todo = {} /\ IdleWorker.runFresh = FALSE
<1>1. <<1, 1>> \in Jobs
  BY GraphAssumption, BoundAssumption DEF Jobs, Steps
<1> QED BY <1>1 DEF IdleWorker, WorkerRow, Places, RunStatuses, Statuses, Waiting, Terminal, SyncRetries

\* The row of a worker that takes no step: parts of what it read may be stale.
Outdated(v, S) ==
  /\ wk'[v] \in WorkerRow
  /\ wk'[v].pc = wk[v].pc /\ wk'[v].mode = wk[v].mode /\ wk'[v].own = wk[v].own
  /\ wk'[v].job = wk[v].job /\ wk'[v].next = wk[v].next /\ wk'[v].plan = wk[v].plan
  /\ wk'[v].todo = wk[v].todo /\ wk'[v].agg = wk[v].agg
  /\ wk'[v].fresh = wk[v].fresh \ S
  /\ wk'[v].runFresh => wk[v].runFresh

LEMMA OutdateRows ==
  ASSUME Shapes, NEW S \in SUBSET Steps, NEW b \in BOOLEAN, NEW v \in Workers,
         wk'[v] = Outdate(S, b)[v]
  PROVE  Outdated(v, S) /\ wk'[v].runFresh = (wk[v].runFresh /\ ~b)
<1>1. wk[v] \in WorkerRow
  BY DEF Shapes
<1>2. wk'[v] = [wk[v] EXCEPT !.fresh = @ \ S, !.runFresh = @ /\ ~b]
  BY DEF Outdate
<1> DEFINE c == wk[v].runFresh /\ ~b
<1>3. wk'[v] = [wk[v] EXCEPT !.fresh = @ \ S, !.runFresh = c] /\ c \in BOOLEAN
  BY <1>2
<1>4. c => wk[v].runFresh
  OBVIOUS
<1> DEFINE f == wk[v].fresh \ S
<1>5. wk'[v] = [wk[v] EXCEPT !.fresh = f, !.runFresh = c] /\ f \in SUBSET Steps
  BY <1>1, <1>3 DEF WorkerRow
<1>6. f = wk[v].fresh \ S
  OBVIOUS
<1> HIDE DEF c, f
<1>7. wk'[v] \in WorkerRow /\ wk'[v].fresh = f /\ wk'[v].runFresh = c
  BY <1>1, <1>3, <1>5 DEF WorkerRow
<1>8. Outdated(v, S) /\ wk'[v].runFresh = c
  BY <1>1, <1>4, <1>5, <1>6, <1>7 DEF WorkerRow, Outdated
<1> QED BY <1>8 DEF c

LEMMA SameRow ==
  ASSUME Shapes, NEW v \in Workers, wk'[v] = wk[v]
  PROVE  Outdated(v, {})
BY DEF Shapes, Outdated

AllRows == wk' = [v \in Workers |-> wk'[v]]

\* Worker w moved to `row', the others stand where they stood.
LEMMA OneWorker ==
  ASSUME Shapes, NEW w \in Workers, NEW row, wk' = [wk EXCEPT ![w] = row]
  PROVE  AllRows /\ wk'[w] = row /\ \A v \in Workers \ {w} : Outdated(v, {})
<1>1. wk'[w] = row /\ \A v \in Workers \ {w} : wk'[v] = wk[v]
  BY DEF Shapes
<1>2. AllRows
  BY DEF Shapes, AllRows
<1> QED BY <1>1, <1>2, SameRow

LEMMA OutdateOthers ==
  ASSUME Shapes, NEW w \in Workers, NEW row, NEW S \in SUBSET Steps, NEW b \in BOOLEAN,
         wk' = [Outdate(S, b) EXCEPT ![w] = row]
  PROVE  /\ AllRows /\ wk'[w] = row
         /\ \A v \in Workers \ {w} : Outdated(v, S) /\ wk'[v].runFresh = (wk[v].runFresh /\ ~b)
<1>1. wk'[w] = row /\ \A v \in Workers \ {w} : wk'[v] = Outdate(S, b)[v]
  BY DEF Outdate
<1>2. AllRows
  BY DEF Outdate, AllRows
<1> QED BY <1>1, <1>2, OutdateRows

\* The compare-and-swap: won with a row that is still as it was read.
LEMMA Saved ==
  ASSUME Shapes, NEW w \in Workers, NEW s \in Steps, NEW new, NEW won, NEW lost,
         SaveStep(w, s, new, won, lost)
  PROVE  AllRows /\
         \/ /\ s \in wk[w].fresh /\ wk'[w] = won
            /\ step'[s] = new /\ \A t \in Steps \ {s} : step'[t] = step[t]
            /\ \A v \in Workers \ {w} : Outdated(v, {s})
         \/ /\ s \notin wk[w].fresh /\ wk'[w] = lost
            /\ step' = step
            /\ \A v \in Workers \ {w} : Outdated(v, {})
<1>1. CASE s \in wk[w].fresh
  <2>1. step' = [step EXCEPT ![s] = new] /\ wk' = [Outdate({s}, FALSE) EXCEPT ![w] = won]
    BY <1>1 DEF SaveStep
  <2>2. step'[s] = new /\ \A t \in Steps \ {s} : step'[t] = step[t]
    BY <2>1 DEF Shapes
  <2>3. {s} \in SUBSET Steps /\ FALSE \in BOOLEAN
    OBVIOUS
  <2>4. AllRows /\ wk'[w] = won /\ \A v \in Workers \ {w} : Outdated(v, {s})
    BY <2>1, <2>3, OutdateOthers
  <2> QED BY <1>1, <2>2, <2>4
<1>2. CASE s \notin wk[w].fresh
  BY <1>2, OneWorker DEF SaveStep
<1> QED BY <1>1, <1>2

\* step' is a function again whatever was written.
LEMMA SavedRows ==
  ASSUME Shapes, NEW w \in Workers, NEW s \in Steps, NEW new, NEW won, NEW lost,
         SaveStep(w, s, new, won, lost), s \in wk[w].fresh => new \in StepRowType
  PROVE  step' \in [Steps -> StepRowType]
BY DEF SaveStep, Shapes

-----------------------------------------------------------------------------
(* Rows of steps.                                                          *)

\* A status change that leaves the attempts and the flag alone.
Becomes(new, r, status) ==
  /\ new \in StepRowType /\ new.st = status
  /\ new.att = r.att /\ new.max = r.max /\ new.flag = r.flag

LEMMA RowFinished ==
  ASSUME NEW r \in StepRowType, NEW status \in Statuses
  PROVE  Becomes(FinishStep(r, status), r, status)
BY DEF Becomes, StepRowType, FinishStep

LEMMA RowFailed ==
  ASSUME NEW r \in StepRowType, NEW retry \in BOOLEAN
  PROVE  LET new == FailStep(r, retry) IN
         \/ Becomes(new, r, "failed")
         \/ Becomes(new, r, "retrying") /\ r.att < r.max
<1> DEFINE new == FailStep(r, retry)
           done == FinishStep(r, "retrying")
<1>1. Becomes(done, r, "retrying") /\ Becomes(FinishStep(r, "failed"), r, "failed")
  BY RowFinished DEF Statuses, Waiting, Terminal
<1>2. CASE retry /\ r.att < r.max
  <2> HIDE DEF done
  <2>1. new = [done EXCEPT !.due = FALSE]
    BY <1>2 DEF FailStep, done
  <2>2. Becomes(new, r, "retrying")
    BY <1>1, <2>1 DEF Becomes, StepRowType
  <2> QED BY <1>2, <2>2
<1>3. CASE ~(retry /\ r.att < r.max)
  BY <1>1, <1>3 DEF FailStep
<1> QED BY <1>2, <1>3

LEMMA RowWithdrawn ==
  ASSUME NEW r \in StepRowType
  PROVE  LET new == RequestCancellation(r) IN
         /\ new \in StepRowType /\ new.att = r.att /\ new.max = r.max /\ new.flag
         /\ new.st = IF r.st = "running" THEN "running" ELSE "cancelled"
<1> DEFINE done == FinishStep(r, "cancelled")
<1>1. Becomes(done, r, "cancelled")
  BY RowFinished DEF Statuses, Waiting, Terminal
<1>2. CASE r.st = "running"
  BY <1>2 DEF RequestCancellation, StepRowType
<1>3. CASE r.st # "running"
  <2> HIDE DEF done
  <2>1. RequestCancellation(r) = [done EXCEPT !.flag = TRUE]
    BY <1>3 DEF RequestCancellation, done
  <2> QED BY <1>1, <1>3, <2>1 DEF Becomes, StepRowType
<1> QED BY <1>2, <1>3

LEMMA RowCancelled ==
  ASSUME NEW r \in StepRowType
  PROVE  LET new == CancelRunningStep(r) IN
         /\ new \in StepRowType /\ new.att = r.att /\ new.max = r.max
         /\ new.st = "cancelled"
<1> DEFINE done == FinishStep(r, "cancelled")
<1>1. Becomes(done, r, "cancelled")
  BY RowFinished DEF Statuses, Waiting, Terminal
<1> HIDE DEF done
<1>2. CancelRunningStep(r) = [done EXCEPT !.flag = TRUE]
  BY DEF CancelRunningStep, done
<1> QED BY <1>1, <1>2 DEF Becomes, StepRowType

LEMMA RowStarted ==
  ASSUME NEW r \in StepRowType, NEW w \in Workers
  PROVE  LET new == StartStep(r, w) IN
         /\ new \in StepRowType /\ new.st = "running" /\ new.lease = w
         /\ new.att = r.att + 1 /\ new.max = r.max /\ new.flag = r.flag
<1> DEFINE n == r.att + 1
<1>1. n \in Nat
  BY DEF StepRowType
<1>2. StartStep(r, w) = [r EXCEPT !.st = "running", !.att = n, !.lease = w, !.exp = FALSE]
  BY DEF StartStep
<1> HIDE DEF n
<1>3. LET new == StartStep(r, w) IN
      /\ new \in StepRowType /\ new.st = "running" /\ new.lease = w
      /\ new.att = n /\ new.max = r.max /\ new.flag = r.flag
  BY <1>1, <1>2 DEF StepRowType, Statuses
<1> QED BY <1>3 DEF n

LEMMA RowCreated ==
  LET new == StepRow("queued") IN
  /\ new \in StepRowType /\ new.st = "queued"
  /\ new.att = 0 /\ new.max = MaxAttempts /\ new.flag = FALSE
BY BoundAssumption, WorkerAssumption DEF StepRow, StepRowType, Statuses, Waiting

-----------------------------------------------------------------------------
(* What a step of the system may do to the rows of the steps.              *)

Steady == run'.cancel = run.cancel
Only(s) == \A t \in Steps \ {s} : step'[t] = step[t]
KeepsAttempts(s) == step'[s].att = step[s].att /\ step'[s].max = step[s].max
KeepsFlag(s) == step'[s].flag = step[s].flag
Same(s) == /\ step'[s].st = step[s].st /\ step'[s].lease = step[s].lease
           /\ KeepsAttempts(s) /\ KeepsFlag(s)

Inserts(s) ==
  /\ step[s].st = "absent" /\ step'[s].st = "queued"
  /\ step'[s].att = 0 /\ step'[s].max = MaxAttempts /\ ~step'[s].flag
Starts(s) ==
  /\ step[s].st \in Waiting /\ ~run.cancel /\ DepsSucceeded(s) /\ step[s].att < step[s].max
  /\ step'[s].st = "running"
  /\ step'[s].att = step[s].att + 1 /\ step'[s].max = step[s].max /\ KeepsFlag(s)
Withdraws(s) ==
  step[s].st \in Waiting /\ step'[s].st = "cancelled" /\ KeepsAttempts(s)
Delivers(s) ==
  /\ ~run.cancel /\ KeepsAttempts(s) /\ KeepsFlag(s)
  /\ \/ step[s].st = "running" /\ step'[s].st \in {"succeeded", "awaiting_review"}
     \/ step[s].st = "awaiting_review" /\ step'[s].st = "succeeded"
Fails(s) ==
  /\ step[s].st \in {"running", "awaiting_review"} /\ KeepsAttempts(s) /\ KeepsFlag(s)
  /\ step'[s].st = "failed" \/ (step'[s].st = "retrying" /\ step[s].att < step[s].max)
Cancels(s) ==
  step[s].st = "running" /\ run.cancel /\ step'[s].st = "cancelled" /\ KeepsAttempts(s)
OneMoves(s) ==
  /\ Steady /\ Only(s)
  /\ Inserts(s) \/ Starts(s) \/ Withdraws(s) \/ Delivers(s) \/ Fails(s) \/ Cancels(s)

Stops ==
  /\ run'.cancel
  /\ \A s \in Steps :
       /\ KeepsAttempts(s)
       /\ step'[s].st = IF step[s].st \in {"queued", "retrying", "awaiting_review"}
                        THEN "cancelled" ELSE step[s].st
Reopens(s) ==
  /\ Steady /\ ~run.cancel
  /\ step[s].st = "failed" /\ step'[s].st = "retrying" /\ ~step'[s].flag
  /\ step'[s].att = step[s].att /\ step'[s].att < step'[s].max
  /\ step'[s].max <= MaxAttempts + used.call + 1 /\ used'.call = used.call + 1
  /\ \A t \in Steps \ {s} :
       IF t \in Downstream(s) /\ step[t].st = "cancelled"
       THEN step'[t].st = "queued" /\ ~step'[t].flag /\ KeepsAttempts(t)
       ELSE step'[t] = step[t]

RowsMove ==
  /\ step' \in [Steps -> StepRowType]
  /\ used' \in [crash : Nat, lapse : Nat, call : 0..MaxCalls] /\ used'.call >= used.call
  /\ \/ Steady /\ \A s \in Steps : Same(s)
     \/ \E s \in Steps : OneMoves(s) \/ Reopens(s)
     \/ Stops

\* Behind a step that has not succeeded nothing has succeeded.
LEMMA DownstreamWaits ==
  ASSUME Shapes, Started, NEW s \in Steps, ~Succeeded(s), NEW t \in Downstream(s)
  PROVE  t \in Steps /\ ~DepsSucceeded(t)
<1> DEFINE U == {x \in Steps : ~DepsSucceeded(x)}
<1>1. ASSUME NEW x \in Steps, Deps[x] \intersect (U \union {s}) # {}
      PROVE  x \in U
  <2>1. PICK d \in Deps[x] : d = s \/ d \in U
    BY <1>1
  <2>2. ~Succeeded(d)
    BY <2>1 DEF Started, Succeeded
  <2> QED BY <2>1, <2>2 DEF DepsSucceeded
<1>2. t \in U
  BY <1>1 DEF Downstream
<1> QED BY <1>2

\* Success is for good.
LEMMA DepsStay ==
  ASSUME Shapes, RowsMove, NEW s \in Steps, DepsSucceeded(s)
  PROVE  DepsSucceeded(s)'
<1>1. \A d \in Steps : step[d].st = "succeeded" => step'[d].st = "succeeded"
  <2> TAKE d \in Steps
  <2> HAVE step[d].st = "succeeded"
  <2>1. CASE \A x \in Steps : Same(x)
    BY <2>1 DEF Same
  <2>2. ASSUME NEW x \in Steps, OneMoves(x) PROVE step'[d].st = "succeeded"
    BY <2>2 DEF OneMoves, Only, Inserts, Starts, Withdraws, Delivers, Fails, Cancels, Waiting
  <2>3. ASSUME NEW x \in Steps, Reopens(x) PROVE step'[d].st = "succeeded"
    BY <2>3 DEF Reopens
  <2>4. CASE Stops
    BY <2>4 DEF Stops
  <2> QED BY <2>1, <2>2, <2>3, <2>4 DEF RowsMove
<1>2. Deps[s] \subseteq Steps
  BY GraphAssumption
<1> QED BY <1>1, <1>2 DEF DepsSucceeded, Succeeded

LEMMA KnownStays ==
  ASSUME Shapes, Started, RowsMove, NEW j \in Jobs, Known(j)
  PROVE  Known(j)'
<1> DEFINE s == j[1]
<1>1. s \in Steps /\ j[2] \in Nat
  BY DEF Jobs
<1>2. DepsSucceeded(s) /\ DepsSucceeded(s)'
  BY <1>1, DepsStay DEF Known
<1>3. /\ step[s].att \in Nat /\ step'[s].att \in Nat /\ step[s].st # "absent"
      /\ j[2] <= step[s].att \/ (j[2] = step[s].att + 1 /\ step[s].st \in Waiting \union {"cancelled"})
  BY <1>1 DEF Known, Shapes, RowsMove, StepRowType
<1> HIDE DEF s
<1> DEFINE Goal ==
      /\ step'[s].st # "absent"
      /\ j[2] <= step'[s].att \/ (j[2] = step'[s].att + 1 /\ step'[s].st \in Waiting \union {"cancelled"})
<1>4. Goal
  <2>1. CASE \A x \in Steps : Same(x)
    BY <1>1, <1>3, <2>1 DEF Same, KeepsAttempts
  <2>2. ASSUME NEW x \in Steps, OneMoves(x) PROVE Goal
    <3>1. CASE x = s
      BY <1>1, <1>3, <2>2, <3>1
         DEF OneMoves, Inserts, Starts, Withdraws, Delivers, Fails, Cancels, Waiting, KeepsAttempts
    <3>2. CASE x # s
      BY <1>1, <1>3, <2>2, <3>2 DEF OneMoves, Only
    <3> QED BY <3>1, <3>2
  <2>3. ASSUME NEW x \in Steps, Reopens(x) PROVE Goal
    BY <1>1, <1>3, <2>3 DEF Reopens, Waiting, KeepsAttempts
  <2>4. CASE Stops
    BY <1>1, <1>3, <2>4 DEF Stops, KeepsAttempts, Waiting
  <2> QED BY <2>1, <2>2, <2>3, <2>4 DEF RowsMove
<1> QED BY <1>2, <1>4 DEF Known, s

LEMMA CancelStays ==
  ASSUME RowsMove, run.cancel
  PROVE  run'.cancel
BY DEF RowsMove, Steady, OneMoves, Reopens, Stops

LEMMA SpentStays ==
  ASSUME Shapes, Attempts, Started, RowsMove, NEW j \in Jobs, Spent(j)
  PROVE  Spent(j)'
<1> DEFINE s == j[1]
<1>1. s \in Steps /\ j[2] \in Nat
  BY DEF Jobs
<1>2. step[s].att \in Nat /\ step'[s].att \in Nat
  BY <1>1 DEF Shapes, RowsMove, StepRowType
<1> HIDE DEF s
<1>3. CASE run.cancel
  BY <1>3, CancelStays DEF Spent
<1>4. ASSUME j[2] <= step[s].att
      PROVE  j[2] <= step'[s].att
  <2>1. CASE \A x \in Steps : Same(x)
    BY <1>1, <1>4, <2>1 DEF Same, KeepsAttempts
  <2>2. ASSUME NEW x \in Steps, OneMoves(x) PROVE j[2] <= step'[s].att
    <3>1. CASE x = s /\ Inserts(s)
      <4>1. step[s].att = 0 /\ j[2] >= 1
        BY <1>1, <3>1 DEF Inserts, Attempts, AttemptsOf, Jobs, s
      <4> QED BY <1>1, <1>4, <4>1
    <3>2. CASE x = s /\ ~Inserts(s)
      BY <1>1, <1>2, <1>4, <2>2, <3>2
         DEF OneMoves, Starts, Withdraws, Delivers, Fails, Cancels, KeepsAttempts
    <3>3. CASE x # s
      BY <1>1, <1>4, <2>2, <3>3 DEF OneMoves, Only
    <3> QED BY <3>1, <3>2, <3>3
  <2>3. ASSUME NEW x \in Steps, Reopens(x) PROVE j[2] <= step'[s].att
    BY <1>1, <1>2, <1>4, <2>3 DEF Reopens, KeepsAttempts
  <2>4. CASE Stops
    BY <1>1, <1>4, <2>4 DEF Stops, KeepsAttempts
  <2> QED BY <2>1, <2>2, <2>3, <2>4 DEF RowsMove
<1>5. ASSUME step[s].st = "cancelled", DepsSucceeded(s)
      PROVE  step'[s].st = "cancelled" /\ DepsSucceeded(s)'
  <2>1. DepsSucceeded(s)'
    BY <1>1, <1>5, DepsStay
  <2>2. CASE \A x \in Steps : Same(x)
    BY <1>1, <1>5, <2>1, <2>2 DEF Same
  <2>3. ASSUME NEW x \in Steps, OneMoves(x) PROVE step'[s].st = "cancelled"
    BY <1>1, <1>5, <2>3 DEF OneMoves, Only, Inserts, Starts, Withdraws, Delivers, Fails, Cancels, Waiting
  <2>4. ASSUME NEW x \in Steps, Reopens(x) PROVE step'[s].st = "cancelled"
    <3>1. step[x].st = "failed"
      BY <2>4 DEF Reopens
    <3>2. s \notin Downstream(x)
      BY <1>5, <3>1, DownstreamWaits DEF Succeeded
    <3> QED BY <1>1, <1>5, <2>4, <3>1, <3>2 DEF Reopens
  <2>5. CASE Stops
    BY <1>1, <1>5, <2>1, <2>5 DEF Stops
  <2> QED BY <2>1, <2>2, <2>3, <2>4, <2>5 DEF RowsMove
<1> QED BY <1>3, <1>4, <1>5 DEF Spent, s

LEMMA StartedStays ==
  ASSUME Shapes, Started, RowsMove
  PROVE  Started'
<1> SUFFICES ASSUME NEW s \in Steps,
                    step'[s].st \in {"running", "awaiting_review", "succeeded", "failed"}
             PROVE  DepsSucceeded(s)'
  BY DEF Started
<1>1. DepsSucceeded(s)
  <2>1. CASE step[s].st \in {"running", "awaiting_review", "succeeded", "failed"}
    BY <2>1 DEF Started
  <2>2. CASE Starts(s)
    BY <2>2 DEF Starts
  <2>3. CASE \A x \in Steps : Same(x)
    BY <2>3 DEF Same, Started
  <2>4. ASSUME NEW x \in Steps, OneMoves(x)
        PROVE  Starts(s) \/ step[s].st \in {"running", "awaiting_review", "succeeded", "failed"}
    BY <2>4 DEF OneMoves, Only, Inserts, Withdraws, Delivers, Fails, Cancels
  <2>5. ASSUME NEW x \in Steps, Reopens(x)
        PROVE  step[s].st \in {"running", "awaiting_review", "succeeded", "failed"}
    BY <2>5 DEF Reopens
  <2>6. CASE Stops
    BY <2>6 DEF Stops, Started
  <2> QED BY <2>1, <2>2, <2>3, <2>4, <2>5, <2>6 DEF RowsMove
<1> QED BY <1>1, DepsStay

LEMMA AttemptsStay ==
  ASSUME Shapes, Attempts, RowsMove
  PROVE  Attempts'
<1> SUFFICES ASSUME NEW s \in Steps
             PROVE  AttemptsOf(s)'
  BY DEF Attempts, AttemptsOf
<1> USE DEF AttemptsOf
<1>1. /\ step[s].att \in Nat /\ step'[s].att \in Nat /\ step[s].max \in Nat /\ step'[s].max \in Nat
      /\ used.call \in Nat /\ used'.call \in Nat /\ used'.call >= used.call
      /\ MaxAttempts \in Nat \ {0}
  BY BoundAssumption DEF Shapes, RowsMove, StepRowType
<1>2. /\ step[s].att <= step[s].max /\ step[s].max <= MaxAttempts + used.call
      /\ step[s].st = "absent" => step[s].att = 0
      /\ step[s].st \in Waiting => step[s].att < step[s].max
      /\ step[s].st = "cancelled" /\ ~run.cancel => step[s].att < step[s].max
  BY DEF Attempts, AttemptsOf
<1>3. CASE Steady /\ Same(s)
  BY <1>1, <1>2, <1>3 DEF Same, Steady, KeepsAttempts
<1>4. ASSUME NEW x \in Steps, OneMoves(x)
      PROVE  \/ Steady /\ Same(s)
             \/ Steady /\ (Inserts(s) \/ Starts(s) \/ Withdraws(s) \/ Delivers(s) \/ Fails(s) \/ Cancels(s))
  BY <1>4 DEF OneMoves, Only, Same, KeepsAttempts, KeepsFlag
<1>5. CASE Inserts(s)
  BY <1>1, <1>5 DEF Inserts, Waiting
<1>6. CASE Starts(s)
  BY <1>1, <1>2, <1>6 DEF Starts, Waiting
<1>7. CASE Steady /\ (Withdraws(s) \/ Delivers(s) \/ Fails(s) \/ Cancels(s))
  BY <1>1, <1>2, <1>7 DEF Withdraws, Delivers, Fails, Cancels, Waiting, KeepsAttempts, Steady
<1>8. ASSUME NEW x \in Steps, Reopens(x)
      PROVE  AttemptsOf(s)'
  <2>1. CASE x = s
    BY <1>1, <1>8, <2>1 DEF Reopens
  <2>2. CASE x # s
    BY <1>1, <1>2, <1>8, <2>2 DEF Reopens, KeepsAttempts, Steady
  <2> QED BY <2>1, <2>2
<1>9. CASE Stops
  BY <1>1, <1>2, <1>9 DEF Stops, KeepsAttempts, Waiting
<1> QED BY <1>3, <1>4, <1>5, <1>6, <1>7, <1>8, <1>9 DEF RowsMove

LEMMA FlagsStay ==
  ASSUME Flags, RowsMove
  PROVE  Flags'
<1> SUFFICES ASSUME NEW s \in Steps, step'[s].flag, step'[s].st \notin Terminal
             PROVE  run'.cancel
  BY DEF Flags
<1>1. step[s].flag /\ step[s].st \notin Terminal => run.cancel
  BY DEF Flags
<1>2. CASE Steady /\ Same(s)
  BY <1>1, <1>2 DEF Same, Steady, KeepsFlag
<1>3. ASSUME NEW x \in Steps, OneMoves(x)
      PROVE  \/ Steady /\ Same(s)
             \/ Steady /\ (Inserts(s) \/ Starts(s) \/ Withdraws(s) \/ Delivers(s) \/ Fails(s) \/ Cancels(s))
  BY <1>3 DEF OneMoves, Only, Same, KeepsAttempts, KeepsFlag
<1>4. CASE Steady /\ (Inserts(s) \/ Starts(s) \/ Withdraws(s) \/ Delivers(s) \/ Fails(s) \/ Cancels(s))
  BY <1>1, <1>4 DEF Inserts, Starts, Withdraws, Delivers, Fails, Cancels, Terminal, Waiting, KeepsFlag, Steady
<1>5. ASSUME NEW x \in Steps, Reopens(x)
      PROVE  run'.cancel
  BY <1>1, <1>5 DEF Reopens, Steady
<1>6. CASE Stops
  BY <1>6 DEF Stops
<1> QED BY <1>2, <1>3, <1>4, <1>5, <1>6 DEF RowsMove

-----------------------------------------------------------------------------
(* A worker that takes no step.                                            *)

\* What it holds fresh is as it was, and what it lost has been written.
Kept(v) ==
  /\ Outdated(v, wk[v].fresh \ wk'[v].fresh)
  /\ \A s \in wk'[v].fresh :
       step[s].st \in Waiting \union {"running"}
       => step'[s].st = step[s].st /\ step'[s].lease = step[s].lease /\ Steady
  /\ \A s \in wk[v].fresh \ wk'[v].fresh :
       step'[s].st # step[s].st \/ step[s].st = "running" \/ run'.cancel
  /\ \A s \in Steps : step'[s].st = "running" /\ step'[s].lease = v
                    => step[s].st = "running" /\ step[s].lease = v

\* A step whose job is known does not leave its waiting for nothing.
LEMMA LostAttempt ==
  ASSUME Shapes, Started, RowsMove, NEW j \in Jobs, Known(j), step[j[1]].st \in Waiting,
         step'[j[1]].st # step[j[1]].st \/ run'.cancel
  PROVE  Spent(j)'
<1> DEFINE s == j[1]
<1>1. s \in Steps /\ j[2] \in Nat /\ step[s].att \in Nat
  BY DEF Jobs, Shapes, StepRowType
<1>2. DepsSucceeded(s)' /\ j[2] <= step[s].att + 1
  BY <1>1, DepsStay DEF Known
<1> HIDE DEF s
<1>3. step[s].st \in Waiting /\ (step'[s].st # step[s].st \/ run'.cancel)
  BY DEF s
<1>4. ASSUME ~run'.cancel
      PROVE  Starts(s) \/ Withdraws(s)
  <2>1. ~\A x \in Steps : Same(x)
    BY <1>1, <1>3, <1>4 DEF Same
  <2>2. ASSUME NEW x \in Steps, OneMoves(x)
        PROVE  Starts(s) \/ Withdraws(s)
    BY <1>1, <1>3, <1>4, <2>2 DEF OneMoves, Only, Inserts, Delivers, Fails, Cancels, Waiting
  <2>3. \A x \in Steps : ~Reopens(x)
    BY <1>1, <1>3, <1>4 DEF Reopens, Waiting
  <2>4. ~Stops
    BY <1>4 DEF Stops
  <2> QED BY <2>1, <2>2, <2>3, <2>4 DEF RowsMove
<1>5. Starts(s) => j[2] <= step'[s].att
  BY <1>1, <1>2 DEF Starts
<1>6. Withdraws(s) => step'[s].st = "cancelled"
  BY DEF Withdraws
<1>7. run'.cancel \/ j[2] <= step'[s].att \/ (step'[s].st = "cancelled" /\ DepsSucceeded(s)')
  BY <1>2, <1>4, <1>5, <1>6
<1> QED BY <1>7 DEF Spent, s

LEMMA OthersSound ==
  ASSUME IInv, RowsMove, NEW v \in Workers, Kept(v)
  PROVE  WorkerSound(v)'
<1> DEFINE row == wk[v]
           new == wk'[v]
<1>1. /\ WorkerSound(v) /\ Shapes /\ Started /\ Attempts
      /\ row \in WorkerRow /\ new \in WorkerRow
      /\ new.pc = row.pc /\ new.job = row.job /\ new.next = row.next
      /\ new.plan = row.plan /\ new.todo = row.todo /\ new.fresh \subseteq row.fresh
  <2>1. WorkerSound(v) /\ Shapes /\ Started /\ Attempts
    BY DEF IInv
  <2>2. row \in WorkerRow
    BY <2>1 DEF Shapes
  <2> QED BY <2>1, <2>2 DEF Kept, Outdated
<1>2. PICK j \in Jobs : j = row.job
  BY <1>1 DEF WorkerRow
<1>3. row.todo \subseteq Jobs /\ row.fresh \subseteq Steps /\ j[1] \in Steps
  BY <1>1 DEF WorkerRow, Jobs
<1>4. /\ \A k \in row.todo : Known(k)
      /\ row.pc \in {"inspect", "claim", "cancelQueued"} => Known(j)
      /\ Claimed(row) => Spent(j)
      /\ row.pc \in {"claim", "cancelQueued"} => j[1] \in row.fresh \/ Spent(j)
      /\ row.pc = "cancelRead"
         => ~(step[j[1]].st = "running" /\ step[j[1]].lease = v) \/ run.cancel
      /\ row.pc = "cancelSave" => run.cancel
      /\ \A s \in row.fresh :
           /\ row.pc \in {"cancelQueued", "claim", "waveSave"} => step[s].st \in Waiting
           /\ row.pc \in {"claim", "finish"} => ~run.cancel
           /\ row.pc \in {"beatSave", "recheck", "finish", "cancelSave", "failSave"}
              => step[s].st = "running" /\ step[s].lease = v
           /\ row.pc = "recoverSave" => step[s].st = "running"
  BY <1>1, <1>2 DEF WorkerSound, RowSound
<1>5. /\ \A s \in new.fresh :
           step[s].st \in Waiting \union {"running"}
           => step'[s].st = step[s].st /\ step'[s].lease = step[s].lease
              /\ run'.cancel = run.cancel
      /\ \A s \in row.fresh \ new.fresh :
           step'[s].st # step[s].st \/ step[s].st = "running" \/ run'.cancel
      /\ \A s \in Steps : step'[s].st = "running" /\ step'[s].lease = v
                        => step[s].st = "running" /\ step[s].lease = v
  BY DEF Kept, Steady
<1> HIDE DEF row, new
<1>6. \A k \in new.todo : Known(k)'
  BY <1>1, <1>3, <1>4, KnownStays
<1>7. new.pc \in {"inspect", "claim", "cancelQueued"} => Known(j)'
  BY <1>1, <1>2, <1>4, KnownStays
<1>8. Spent(j) => Spent(j)'
  BY <1>1, <1>2, SpentStays
<1>9. new.pc \in {"claim", "cancelQueued"} => j[1] \in new.fresh \/ Spent(j)'
  <2>1. ASSUME new.pc \in {"claim", "cancelQueued"}, j[1] \in row.fresh, j[1] \notin new.fresh
        PROVE  Spent(j)'
    <3>1. Known(j) /\ step[j[1]].st \in Waiting
      BY <1>1, <1>4, <2>1
    <3>2. step'[j[1]].st # step[j[1]].st \/ run'.cancel
      BY <1>5, <2>1, <3>1 DEF Waiting
    <3> QED BY <1>1, <1>2, <3>1, <3>2, LostAttempt
  <2> QED BY <1>1, <1>4, <1>8, <2>1
<1>10. new.pc = "cancelRead"
       => ~(step'[j[1]].st = "running" /\ step'[j[1]].lease = v) \/ run'.cancel
  BY <1>1, <1>3, <1>4, <1>5, CancelStays
<1>11. new.pc = "cancelSave" => run'.cancel
  BY <1>1, <1>4, CancelStays
<1>12. \A s \in new.fresh :
         /\ new.pc \in {"cancelQueued", "claim", "waveSave"} => step'[s].st \in Waiting
         /\ new.pc \in {"claim", "finish"} => ~run'.cancel
         /\ new.pc \in {"beatSave", "recheck", "finish", "cancelSave", "failSave"}
            => step'[s].st = "running" /\ step'[s].lease = v
         /\ new.pc = "recoverSave" => step'[s].st = "running"
  <2> TAKE s \in new.fresh
  <2>1. s \in row.fresh
    BY <1>1
  <2>2. CASE step[s].st \in Waiting \union {"running"}
    BY <1>1, <1>4, <1>5, <2>1, <2>2
  <2>3. CASE step[s].st \notin Waiting \union {"running"}
    <3>1. new.pc \notin {"cancelQueued", "claim", "waveSave", "beatSave", "recheck",
                        "finish", "cancelSave", "failSave", "recoverSave"}
      BY <1>1, <1>4, <2>1, <2>3
    <3> QED BY <3>1
  <2> QED BY <2>2, <2>3
<1>13. /\ new.pc \in {"publish", "recoverEnqueue"} => new.todo # {}
       /\ new.pc \in {"waveSave", "recoverRead", "recoverSave", "recoverEnqueue", "insert"}
          => new.plan # {}
       /\ Claimed(new) => Claimed(row)
  <2>1. /\ row.pc \in {"publish", "recoverEnqueue"} => row.todo # {}
        /\ row.pc \in {"waveSave", "recoverRead", "recoverSave", "recoverEnqueue", "insert"}
           => row.plan # {}
    BY <1>1 DEF WorkerSound, RowSound, row
  <2> QED BY <1>1, <2>1 DEF Claimed
<1>14. {new.job} = {j}
  BY <1>1, <1>2
<1> QED BY <1>4, <1>6, <1>7, <1>8, <1>9, <1>10, <1>11, <1>12, <1>13, <1>14 DEF WorkerSound, RowSound, new

-----------------------------------------------------------------------------
(* The parts of a step.                                                    *)

JobsKeep ==
  /\ job' \in [Jobs -> JobType] /\ outbox' \subseteq Jobs
  /\ \A j \in Jobs : /\ job'[j].st # "none" => job[j].st # "none" \/ Known(j)
                     /\ job'[j].st = "done" => job[j].st = "done" \/ Spent(j)
  /\ \A j \in outbox' : j \in outbox \/ Known(j)'
RunKeeps == run' \in [status : RunStatuses, cancel : BOOLEAN]
\* Worker w takes a step.
Safe(w) ==
  /\ RowsMove /\ JobsKeep /\ RunKeeps /\ AllRows
  /\ wk'[w] \in WorkerRow /\ WorkerSound(w)'
  /\ \A v \in Workers \ {w} : Kept(v)

LEMMA Preserved ==
  ASSUME IInv, RowsMove, JobsKeep, RunKeeps, AllRows,
         \A v \in Workers : Kept(v) \/ (wk'[v] \in WorkerRow /\ WorkerSound(v)')
  PROVE  IInv'
<1>1. Shapes /\ Attempts /\ Flags /\ Started /\ JobsSound
  BY DEF IInv
<1>2. \A v \in Workers : WorkerSound(v)'
  BY OthersSound
<1>3. Shapes'
  <2>1. \A v \in Workers : wk'[v] \in WorkerRow
    BY DEF Kept, Outdated
  <2>2. wk' \in [Workers -> WorkerRow]
    BY <2>1 DEF AllRows
  <2> QED BY <2>2 DEF Shapes, RowsMove, JobsKeep, RunKeeps
<1>4. JobsSound'
  <2>1. \A j \in Jobs : (job'[j].st # "none" => Known(j)') /\ (job'[j].st = "done" => Spent(j)')
    BY <1>1, KnownStays, SpentStays DEF JobsKeep, JobsSound
  <2>2. outbox \subseteq Jobs
    BY <1>1 DEF Shapes
  <2>3. \A j \in outbox' : Known(j)'
    BY <1>1, <2>2, KnownStays DEF JobsKeep, JobsSound
  <2> QED BY <2>1, <2>3 DEF JobsSound
<1>5. Attempts' /\ Flags' /\ Started'
  BY <1>1, AttemptsStay, FlagsStay, StartedStays
<1> QED BY <1>2, <1>3, <1>4, <1>5 DEF IInv

LEMMA StillKnown ==
  ASSUME step' = step, run' = run, NEW j
  PROVE  Known(j)' = Known(j) /\ Spent(j)' = Spent(j)
BY DEF Known, Spent, DepsSucceeded, Succeeded

LEMMA SameMoves ==
  ASSUME Shapes, step' = step, UNCHANGED used, Steady
  PROVE  RowsMove
<1>1. \A s \in Steps : Same(s)
  BY DEF Same, KeepsAttempts, KeepsFlag
<1>2. used' \in [crash : Nat, lapse : Nat, call : 0..MaxCalls] /\ used'.call >= used.call
  BY BoundAssumption DEF Shapes
<1>3. step' \in [Steps -> StepRowType]
  BY DEF Shapes
<1> QED BY <1>1, <1>2, <1>3 DEF RowsMove

LEMMA KeptSame ==
  ASSUME Steady, \A s \in Steps : Same(s), NEW v \in Workers, Outdated(v, {}),
         wk[v] \in WorkerRow
  PROVE  Kept(v)
<1>1. wk'[v].fresh = wk[v].fresh /\ wk[v].fresh \subseteq Steps
  BY DEF Outdated, WorkerRow
<1>2. wk[v].fresh \ wk'[v].fresh = {}
  BY <1>1
<1> QED BY <1>1, <1>2 DEF Kept, Same

\* A worker that does not act loses the row that is written.
LEMMA KeptOne ==
  ASSUME Steady, NEW s \in Steps, Only(s), NEW v \in Workers, Outdated(v, {s}),
         wk[v] \in WorkerRow,
         step'[s].st # step[s].st \/ step[s].st = "running",
         step'[s].st = "running" =>
           \/ step'[s].lease # v
           \/ step[s].st = "running" /\ step'[s].lease = step[s].lease
  PROVE  Kept(v)
<1> DEFINE lost == wk[v].fresh \ wk'[v].fresh
<1>1. wk'[v].fresh = wk[v].fresh \ {s} /\ wk[v].fresh \subseteq Steps
  BY DEF Outdated, WorkerRow
<1>2. wk[v].fresh \ lost = wk'[v].fresh
  BY <1>1
<1> HIDE DEF lost
<1>3. Outdated(v, lost)
  BY <1>1, <1>2 DEF Outdated
<1>4. \A t \in wk'[v].fresh : step'[t].st = step[t].st /\ step'[t].lease = step[t].lease
  BY <1>1 DEF Only
<1>5. lost \subseteq {s}
  BY <1>1 DEF lost
<1>6. \A t \in Steps : step'[t].st = "running" /\ step'[t].lease = v
                       => step[t].st = "running" /\ step[t].lease = v
  BY DEF Only
<1> QED BY <1>3, <1>4, <1>5, <1>6 DEF Kept, lost

LEMMA JobsStill ==
  ASSUME IInv, UNCHANGED <<job, outbox>>
  PROVE  JobsKeep
BY DEF IInv, Shapes, JobsKeep

LEMMA RunStill ==
  ASSUME IInv, UNCHANGED run
  PROVE  RunKeeps /\ Steady
BY DEF IInv, Shapes, RunKeeps, Steady

\* A step that only moves the worker.
LEMMA Local ==
  ASSUME IInv, NEW w \in Workers, NEW row \in WorkerRow, LocalStep(w, row), RowSound(w, row)
  PROVE  Safe(w)
<1>1. Shapes /\ wk' = [wk EXCEPT ![w] = row] /\ step' = step /\ run' = run
      /\ UNCHANGED <<job, outbox, used>>
  BY DEF IInv, LocalStep
<1>2. AllRows /\ wk'[w] = row /\ \A v \in Workers \ {w} : Outdated(v, {})
  BY <1>1, OneWorker
<1>3. JobsKeep /\ RunKeeps /\ Steady
  BY <1>1, JobsStill, RunStill
<1>4. RowsMove
  BY <1>1, <1>3, SameMoves
<1>5. \A v \in Workers \ {w} : Kept(v)
  <2>1. \A s \in Steps : Same(s)
    BY <1>1 DEF Same, KeepsAttempts, KeepsFlag
  <2>2. \A v \in Workers : wk[v] \in WorkerRow
    BY <1>1 DEF Shapes
  <2> QED BY <1>2, <1>3, <2>1, <2>2, KeptSame
<1>6. WorkerSound(w)'
  <2>1. \A j : Known(j)' = Known(j) /\ Spent(j)' = Spent(j)
    BY <1>1, StillKnown
  <2> QED BY <1>1, <1>2, <2>1 DEF WorkerSound, RowSound
<1> QED BY <1>2, <1>3, <1>4, <1>5, <1>6 DEF Safe

-----------------------------------------------------------------------------
(* Steps that only move a worker.                                          *)

\* Places where nothing is relied on but the claim and the jobs to publish.
Free == {"idle", "recover", "release", "sync", "syncSave", "wave", "list",
         "ack", "execute", "beat", "conflict", "failRead"}

LEMMA FreeSound ==
  ASSUME NEW w \in Workers, NEW row, row.pc \in Free, \A j \in row.todo : Known(j),
         Claimed(row) => \A j \in {row.job} : Spent(j)
  PROVE  RowSound(w, row)
BY DEF Free, RowSound

LEMMA Here ==
  ASSUME IInv, NEW w \in Workers
  PROVE  /\ Shapes /\ Attempts /\ Flags /\ Started /\ JobsSound
         /\ wk[w] \in WorkerRow /\ RowSound(w, wk[w])
         /\ Mine(w) = wk[w].job[1] /\ wk[w].job \in Jobs /\ Mine(w) \in Steps
         /\ \A j \in wk[w].todo : j \in Jobs /\ Known(j)
         /\ Claimed(wk[w]) => Spent(wk[w].job)
<1>1. Shapes /\ Attempts /\ Flags /\ Started /\ JobsSound /\ RowSound(w, wk[w])
  BY DEF IInv, WorkerSound
<1>2. wk[w] \in WorkerRow
  BY <1>1 DEF Shapes
<1>3. wk[w].job \in Jobs /\ wk[w].todo \subseteq Jobs
  BY <1>2 DEF WorkerRow
<1>4. Mine(w) = wk[w].job[1] /\ Mine(w) \in Steps
  BY <1>3 DEF Mine, Jobs
<1>5. (\A j \in wk[w].todo : Known(j)) /\ (Claimed(wk[w]) => Spent(wk[w].job))
  BY <1>1 DEF RowSound
<1> QED BY <1>1, <1>2, <1>3, <1>4, <1>5

\* The worker goes elsewhere with what it has.
Moved(w, row, pc) ==
  /\ row \in WorkerRow /\ row.pc = pc /\ row.job = wk[w].job /\ row.plan = wk[w].plan
  /\ row.todo = wk[w].todo

LEMMA RowGoto ==
  ASSUME Shapes, NEW w \in Workers, NEW pc \in Places
  PROVE  /\ Moved(w, Goto(w, pc), pc)
         /\ Goto(w, pc).fresh = wk[w].fresh /\ Goto(w, pc).next = wk[w].next
         /\ Goto(w, pc).mode = wk[w].mode
<1>1. wk[w] \in WorkerRow
  BY DEF Shapes
<1> QED BY <1>1 DEF Goto, Moved, WorkerRow

LEMMA RowAck ==
  ASSUME Shapes, NEW w \in Workers, NEW next \in {"idle", "sync", "wave"}
  PROVE  LET row == AckThen(w, next) IN
         Moved(w, row, "ack") /\ row.fresh = {} /\ row.next = next /\ row.mode = wk[w].mode
<1>1. wk[w] \in WorkerRow
  BY DEF Shapes
<1> QED BY <1>1 DEF AckThen, Goto, Moved, WorkerRow, Places, Past

LEMMA RowFound ==
  ASSUME Shapes, NEW w \in Workers, NEW pc \in Places, NEW F \in SUBSET Steps
  PROVE  LET row == [Goto(w, pc) EXCEPT !.fresh = F] IN
         Moved(w, row, pc) /\ row.fresh = F /\ row.next = wk[w].next /\ row.mode = wk[w].mode
<1>1. wk[w] \in WorkerRow
  BY DEF Shapes
<1> QED BY <1>1 DEF Goto, Moved, WorkerRow

\* An acknowledgement is sound once the job is spent.
LEMMA AckSound ==
  ASSUME IInv, NEW w \in Workers, NEW next \in {"idle", "sync", "wave"}, Spent(wk[w].job)
  PROVE  AckThen(w, next) \in WorkerRow /\ RowSound(w, AckThen(w, next))
<1> DEFINE row == AckThen(w, next)
<1>1. row \in WorkerRow /\ row.pc = "ack" /\ row.todo = wk[w].todo /\ row.job = wk[w].job
  BY Here, RowAck DEF Moved
<1> HIDE DEF row
<1>2. RowSound(w, row)
  BY <1>1, Here, FreeSound DEF Free
<1> QED BY <1>1, <1>2 DEF row

LEMMA IdleSound ==
  ASSUME NEW w \in Workers
  PROVE  IdleWorker \in WorkerRow /\ RowSound(w, IdleWorker)
<1>1. IdleWorker \in WorkerRow /\ IdleWorker.pc = "idle" /\ IdleWorker.todo = {}
  BY IdleIsRow
<1>2. ~Claimed(IdleWorker)
  BY DEF IdleWorker, Claimed, Past
<1> QED BY <1>1, <1>2, FreeSound DEF Free

LEMMA LostSound ==
  ASSUME NEW w \in Workers
  PROVE  LeaseLost \in WorkerRow /\ RowSound(w, LeaseLost)
<1>1. LeaseLost \in WorkerRow /\ LeaseLost.pc = "recover" /\ LeaseLost.todo = {} /\ ~Claimed(LeaseLost)
  BY IdleIsRow DEF LeaseLost, IdleWorker, WorkerRow, Places, Claimed, Past
<1> QED BY <1>1, FreeSound DEF Free

LEMMA InspectSafe ==
  ASSUME IInv, NEW w \in Workers, Inspect(w)
  PROVE  Safe(w)
<1> DEFINE s == Mine(w)
           j == wk[w].job
<1>1. Shapes /\ s \in Steps /\ j \in Jobs /\ s = j[1] /\ wk[w].pc = "inspect"
  BY Here DEF Inspect, At
<1>2. Known(j)
  BY <1>1, Here DEF RowSound
<1> HIDE DEF s, j
<1>3. CASE step[s].st \notin Waiting
  <2>1. Spent(j)
    BY <1>1, <1>2, <1>3 DEF Known, Spent
  <2>2. LocalStep(w, AckThen(w, "idle"))
    BY <1>3 DEF Inspect, s
  <2> QED BY <2>1, <2>2, AckSound, Local DEF j
<1>4. CASE step[s].st \in Waiting /\ ~step[s].due
  <2> DEFINE row == Early(w)
  <2>1. LocalStep(w, row)
    BY <1>4 DEF Inspect, s
  <2>2. /\ row \in WorkerRow /\ row.pc = "release" /\ row.todo = wk[w].todo
        /\ row.job = wk[w].job /\ row.next = wk[w].next
    BY <1>1, RowGoto DEF Early, Moved, Places
  <2> HIDE DEF row
  <2>3. Claimed(row) => Claimed(wk[w])
    BY <2>2 DEF Claimed, Past
  <2>4. RowSound(w, row)
    BY <2>2, <2>3, Here, FreeSound DEF Free
  <2> QED BY <2>1, <2>2, <2>4, Local
<1>5. ASSUME NEW pc \in {"cancelQueued", "claim"}, step[s].st \in Waiting,
             pc = "claim" => ~run.cancel, LocalStep(w, [Goto(w, pc) EXCEPT !.fresh = {s}])
      PROVE  Safe(w)
  <2> DEFINE row == [Goto(w, pc) EXCEPT !.fresh = {s}]
  <2>1. /\ row \in WorkerRow /\ row.pc = pc /\ row.todo = wk[w].todo
        /\ row.job = j /\ row.next = wk[w].next /\ row.fresh = {s}
    BY <1>1, RowFound DEF Moved, Places, j
  <2> HIDE DEF row
  <2>2. Claimed(row) => Claimed(wk[w])
    BY <2>1 DEF Claimed, Past
  <2>3. RowSound(w, row)
    BY <1>1, <1>2, <1>5, <2>1, <2>2, Here DEF RowSound, j
  <2> QED BY <1>5, <2>1, <2>3, Local DEF row
<1>6. CASE step[s].st \in Waiting /\ step[s].due /\ CancelAsked(s)
  BY <1>5, <1>6 DEF Inspect, s
<1>7. CASE step[s].st \in Waiting /\ step[s].due /\ ~CancelAsked(s)
  <2>1. DepsSucceeded(s)
    BY <1>1, <1>2 DEF Known
  <2> QED BY <1>5, <1>7, <2>1 DEF Inspect, s, CancelAsked
<1> QED BY <1>3, <1>4, <1>6, <1>7

LEMMA GotoFree ==
  ASSUME IInv, NEW w \in Workers, NEW pc \in Free, pc \in Past => Claimed(wk[w])
  PROVE  Goto(w, pc) \in WorkerRow /\ RowSound(w, Goto(w, pc))
<1> DEFINE row == Goto(w, pc)
<1>0. pc \in Places
  BY DEF Places, Past, Free
<1>1. /\ row \in WorkerRow /\ row.pc = pc /\ row.todo = wk[w].todo
      /\ row.job = wk[w].job /\ row.next = wk[w].next
  BY <1>0, Here, RowGoto DEF Moved
<1> HIDE DEF row
<1>2. Claimed(row) => Claimed(wk[w])
  BY <1>1 DEF Claimed
<1>3. RowSound(w, row)
  BY <1>1, <1>2, Here, FreeSound
<1> QED BY <1>1, <1>3 DEF row

\* To the cancellation of its step: the run is cancelled or the lease is lost.
LEMMA GotoCancel ==
  ASSUME IInv, NEW w \in Workers, Claimed(wk[w]), ~Holds(w) \/ CancelAsked(Mine(w))
  PROVE  Goto(w, "cancelRead") \in WorkerRow /\ RowSound(w, Goto(w, "cancelRead"))
<1> DEFINE row == Goto(w, "cancelRead")
<1>1. /\ row \in WorkerRow /\ row.pc = "cancelRead" /\ row.todo = wk[w].todo
      /\ row.job = wk[w].job
  BY Here, RowGoto DEF Moved, Places, Past
<1>2. ~Holds(w) \/ run.cancel
  BY Here DEF Holds, CancelAsked, Flags, Terminal
<1> HIDE DEF row
<1>3. RowSound(w, row)
  BY <1>1, <1>2, Here DEF RowSound, Holds
<1> QED BY <1>1, <1>3 DEF row

LEMMA ClaimedHere ==
  ASSUME NEW w \in Workers, wk[w].pc \in Past
  PROVE  Claimed(wk[w])
BY DEF Claimed

LEMMA CheckpointSafe ==
  ASSUME IInv, NEW w \in Workers, Checkpoint(w)
  PROVE  Safe(w)
<1>1. Claimed(wk[w])
  BY ClaimedHere DEF Checkpoint, At, Past
<1>2. CASE CancelSeen(w)
  <2>1. LocalStep(w, Goto(w, "cancelRead"))
    BY <1>2 DEF Checkpoint
  <2>2. ~Holds(w) \/ CancelAsked(Mine(w))
    BY <1>2 DEF CancelSeen
  <2> QED BY <1>1, <2>1, <2>2, GotoCancel, Local
<1>3. CASE ~CancelSeen(w)
  <2>1. LocalStep(w, Goto(w, "beat"))
    BY <1>3 DEF Checkpoint
  <2>2. "beat" \in Free
    BY DEF Free
  <2> QED BY <1>1, <2>1, <2>2, GotoFree, Local
<1> QED BY <1>2, <1>3

LEMMA StepRaisesSafe ==
  ASSUME IInv, NEW w \in Workers, StepRaises(w)
  PROVE  Safe(w)
<1>1. Claimed(wk[w]) /\ "failRead" \in Free /\ LocalStep(w, Goto(w, "failRead"))
  BY ClaimedHere DEF StepRaises, At, Past, Free
<1> QED BY <1>1, GotoFree, Local

\* The step it holds, read before a write.
LEMMA HeldSound ==
  ASSUME IInv, NEW w \in Workers, NEW pc \in {"beatSave", "cancelSave", "failSave"},
         Claimed(wk[w]), Holds(w), pc = "cancelSave" => run.cancel
  PROVE  LET row == [Goto(w, pc) EXCEPT !.fresh = {Mine(w)}] IN
         row \in WorkerRow /\ RowSound(w, row)
<1> DEFINE F == {Mine(w)}
           row == [Goto(w, pc) EXCEPT !.fresh = F]
<1>0. pc \in Places /\ F \in SUBSET Steps /\ Shapes
  BY Here DEF Places, Past
<1> HIDE DEF F
<1>1. /\ row \in WorkerRow /\ row.pc = pc /\ row.todo = wk[w].todo
      /\ row.job = wk[w].job /\ row.fresh = F
  BY <1>0, RowFound DEF Moved
<1> HIDE DEF row
<1>2. RowSound(w, row)
  BY <1>1, Here DEF RowSound, Holds, F
<1> QED BY <1>1, <1>2 DEF row, F

LEMMA HeartbeatReadSafe ==
  ASSUME IInv, NEW w \in Workers, HeartbeatRead(w)
  PROVE  Safe(w)
<1>1. Claimed(wk[w])
  BY ClaimedHere DEF HeartbeatRead, At, Past
<1>2. CASE Holds(w) /\ ~step[Mine(w)].exp
  <2>1. LocalStep(w, [Goto(w, "beatSave") EXCEPT !.fresh = {Mine(w)}])
    BY <1>2 DEF HeartbeatRead
  <2> QED BY <1>1, <1>2, <2>1, HeldSound, Local
<1>3. CASE ~(Holds(w) /\ ~step[Mine(w)].exp)
  <2>1. LocalStep(w, LeaseLost)
    BY <1>3 DEF HeartbeatRead
  <2> QED BY <2>1, LostSound, Local
<1> QED BY <1>2, <1>3

LEMMA RecheckSafe ==
  ASSUME IInv, NEW w \in Workers, Recheck(w)
  PROVE  Safe(w)
<1>1. Claimed(wk[w]) /\ wk[w].pc = "recheck"
  BY ClaimedHere DEF Recheck, At, Past
<1>2. CASE LocalStep(w, LeaseLost)
  BY <1>2, LostSound, Local
<1>3. CASE CancelSeen(w) /\ LocalStep(w, Goto(w, "cancelRead"))
  <2>1. ~Holds(w) \/ CancelAsked(Mine(w))
    BY <1>3 DEF CancelSeen
  <2> QED BY <1>1, <1>3, <2>1, GotoCancel, Local
<1>4. CASE ~CancelSeen(w) /\ LocalStep(w, Goto(w, "finish"))
  <2> DEFINE row == Goto(w, "finish")
  <2>1. /\ row \in WorkerRow /\ row.pc = "finish" /\ row.todo = wk[w].todo
        /\ row.job = wk[w].job /\ row.fresh = wk[w].fresh
    BY Here, RowGoto DEF Moved, Places, Past
  <2>2. ~run.cancel
    BY <1>4 DEF CancelSeen, CancelAsked
  <2> HIDE DEF row
  <2>3. RowSound(w, row)
    BY <1>1, <2>1, <2>2, Here DEF RowSound
  <2> QED BY <1>4, <2>1, <2>3, Local DEF row
<1> QED BY <1>2, <1>3, <1>4 DEF Recheck

LEMMA FinishConflictSafe ==
  ASSUME IInv, NEW w \in Workers, FinishConflict(w)
  PROVE  Safe(w)
<1>1. Claimed(wk[w]) /\ Spent(wk[w].job)
  BY ClaimedHere, Here DEF FinishConflict, At, Past
<1>2. CASE step[Mine(w)].flag
  <2>1. LocalStep(w, Goto(w, "cancelRead")) /\ CancelAsked(Mine(w))
    BY <1>2 DEF FinishConflict, CancelAsked
  <2> QED BY <1>1, <2>1, GotoCancel, Local
<1>3. CASE ~step[Mine(w)].flag
  <2>1. LocalStep(w, AckThen(w, "idle"))
    BY <1>3 DEF FinishConflict
  <2> QED BY <1>1, <2>1, AckSound, Local
<1> QED BY <1>2, <1>3

LEMMA CancelReadSafe ==
  ASSUME IInv, NEW w \in Workers, CancelRead(w)
  PROVE  Safe(w)
<1>1. Claimed(wk[w]) /\ Spent(wk[w].job) /\ wk[w].pc = "cancelRead"
  BY ClaimedHere, Here DEF CancelRead, At, Past
<1>2. CASE Holds(w)
  <2>1. LocalStep(w, [Goto(w, "cancelSave") EXCEPT !.fresh = {Mine(w)}])
    BY <1>2 DEF CancelRead
  <2>2. run.cancel
    BY <1>1, <1>2, Here DEF RowSound, Holds
  <2> QED BY <1>1, <1>2, <2>1, <2>2, HeldSound, Local
<1>3. CASE ~Holds(w)
  <2>1. LocalStep(w, AckThen(w, "sync"))
    BY <1>3 DEF CancelRead
  <2> QED BY <1>1, <2>1, AckSound, Local
<1> QED BY <1>2, <1>3

LEMMA FailReadSafe ==
  ASSUME IInv, NEW w \in Workers, FailRead(w)
  PROVE  Safe(w)
<1>1. Claimed(wk[w]) /\ Spent(wk[w].job)
  BY ClaimedHere, Here DEF FailRead, At, Past
<1>2. CASE Holds(w)
  <2>1. LocalStep(w, [Goto(w, "failSave") EXCEPT !.fresh = {Mine(w)}])
    BY <1>2 DEF FailRead
  <2> QED BY <1>1, <1>2, <2>1, HeldSound, Local
<1>3. CASE ~Holds(w)
  <2>1. LocalStep(w, AckThen(w, "idle"))
    BY <1>3 DEF FailRead
  <2> QED BY <1>1, <2>1, AckSound, Local
<1> QED BY <1>2, <1>3

-----------------------------------------------------------------------------
(* The scheduling pass and the recovery.                                   *)

LEMMA WaveSafe ==
  ASSUME IInv, NEW w \in Workers, Wave(w)
  PROVE  Safe(w)
<1> DEFINE blocked == {s \in Scope(w) : step[s].st \in Waiting /\ Blocked(s)}
<1>1. wk[w] \in WorkerRow /\ blocked \subseteq Steps /\ \A s \in blocked : step[s].st \in Waiting
  BY Here DEF Scope
<1>2. CASE blocked = {}
  <2>1. LocalStep(w, Goto(w, "list"))
    BY <1>2 DEF Wave
  <2>2. "list" \in Free /\ "list" \notin Past
    BY DEF Free, Past
  <2> QED BY <2>1, <2>2, GotoFree, Local
<1>3. CASE blocked # {}
  <2> DEFINE row == [Goto(w, "waveSave") EXCEPT !.plan = blocked, !.fresh = blocked,
                                                !.progress = FALSE]
  <2>1. LocalStep(w, row)
    BY <1>3 DEF Wave
  <2> HIDE DEF blocked
  <2>2. /\ row \in WorkerRow /\ row.pc = "waveSave" /\ row.todo = wk[w].todo /\ row.plan = blocked
        /\ row.job = wk[w].job /\ row.fresh = blocked /\ row.next = wk[w].next
    BY <1>1 DEF Goto, WorkerRow, Places
  <2> HIDE DEF row
  <2>3. Claimed(row) => Claimed(wk[w])
    BY <2>2 DEF Claimed, Past
  <2>4. RowSound(w, row)
    BY <1>1, <1>3, <2>2, <2>3, Here DEF RowSound
  <2> QED BY <2>1, <2>2, <2>4, Local
<1> QED BY <1>2, <1>3

LEMMA ScheduledSound ==
  ASSUME IInv, NEW w \in Workers
  PROVE  /\ Scheduled(w) \in WorkerRow /\ RowSound(w, Scheduled(w))
         /\ Scheduled(w).pc = "sync" /\ Scheduled(w).todo = {} /\ ~Claimed(Scheduled(w))
         /\ Scheduled(w).mode = wk[w].mode
<1> DEFINE row == Scheduled(w)
<1>1. wk[w] \in WorkerRow
  BY Here
<1>2. /\ row \in WorkerRow /\ row.pc = "sync" /\ row.todo = {} /\ row.next \in {"sync", "idle"}
      /\ row.mode = wk[w].mode
  BY <1>1 DEF Scheduled, Goto, WorkerRow, Places
<1> HIDE DEF row
<1>3. ~Claimed(row)
  BY <1>2 DEF Claimed, Past
<1>4. RowSound(w, row)
  BY <1>2, <1>3, FreeSound DEF Free
<1> QED BY <1>2, <1>3, <1>4 DEF row

\* The job of the next attempt of a step that waits.
LEMMA NextJob ==
  ASSUME Shapes, NEW s \in Steps, AttemptsOf(s), step[s].att < step[s].max
  PROVE  <<s, step[s].att + 1>> \in Jobs
<1>1. /\ step[s].att \in Nat /\ step[s].max \in Nat /\ used.call \in 0..MaxCalls
      /\ MaxAttempts \in Nat /\ MaxCalls \in Nat
      /\ step[s].max <= MaxAttempts + used.call
  BY BoundAssumption DEF Shapes, StepRowType, AttemptsOf
<1>2. step[s].att + 1 \in 1..(MaxAttempts + MaxCalls)
  BY <1>1
<1> QED BY <1>2 DEF Jobs

LEMMA ReadyListSafe ==
  ASSUME IInv, NEW w \in Workers, ReadyList(w)
  PROVE  Safe(w)
<1> DEFINE ready == {s \in Scope(w) : step[s].st \in Waiting /\ step[s].due /\ DepsSucceeded(s)}
           jobs == {<<s, step[s].att + 1>> : s \in ready}
<1>1. wk[w] \in WorkerRow /\ Shapes /\ ready \subseteq Steps
  BY Here DEF Scope
<1>2. CASE ready = {}
  <2>1. LocalStep(w, Scheduled(w))
    BY <1>2 DEF ReadyList
  <2> QED BY <2>1, ScheduledSound, Local
<1>3. CASE ready # {}
  <2> DEFINE row == [Goto(w, "publish") EXCEPT !.todo = jobs]
  <2>1. LocalStep(w, row)
    BY <1>3 DEF ReadyList
  <2>2. ASSUME NEW s \in ready
        PROVE  LET j == <<s, step[s].att + 1>> IN j \in Jobs /\ Known(j)
    <3>1. s \in Steps /\ AttemptsOf(s) /\ step[s].att < step[s].max
      BY <1>1, Here DEF Attempts, AttemptsOf
    <3>2. <<s, step[s].att + 1>> \in Jobs
      BY <1>1, <3>1, NextJob
    <3>3. Known(<<s, step[s].att + 1>>)
      BY DEF Known, Waiting
    <3> QED BY <3>2, <3>3
  <2>3. jobs \subseteq Jobs /\ jobs # {} /\ \A j \in jobs : Known(j)
    BY <1>3, <2>2
  <2> HIDE DEF ready, jobs
  <2>4. /\ row \in WorkerRow /\ row.pc = "publish" /\ row.todo = jobs
        /\ row.job = wk[w].job /\ row.next = wk[w].next
    BY <1>1, <2>3 DEF Goto, WorkerRow, Places
  <2> HIDE DEF row
  <2>5. Claimed(row) => Claimed(wk[w])
    BY <2>4 DEF Claimed, Past
  <2>6. RowSound(w, row)
    BY <2>3, <2>4, <2>5, Here DEF RowSound
  <2> QED BY <2>1, <2>4, <2>6, Local
<1> QED BY <1>2, <1>3

LEMMA AggregateIsStatus ==
  ASSUME NEW rows
  PROVE  Aggregate(rows) \in RunStatuses
BY DEF Aggregate, RunStatuses, Statuses, Waiting, Terminal

LEMMA SyncReadSafe ==
  ASSUME IInv, NEW w \in Workers, SyncRead(w)
  PROVE  Safe(w)
<1> DEFINE a == Aggregate(step)
           row == [Goto(w, "syncSave") EXCEPT !.agg = a, !.runFresh = TRUE]
<1>1. LocalStep(w, row)
  BY DEF SyncRead
<1>2. wk[w] \in WorkerRow /\ a \in RunStatuses
  BY Here, AggregateIsStatus
<1> HIDE DEF a
<1>3. /\ row \in WorkerRow /\ row.pc = "syncSave" /\ row.todo = wk[w].todo
      /\ row.job = wk[w].job /\ row.next = wk[w].next
  BY <1>2 DEF Goto, WorkerRow, Places
<1> HIDE DEF row
<1>4. Claimed(row) => Claimed(wk[w])
  BY <1>3 DEF Claimed, Past
<1>5. RowSound(w, row)
  BY <1>3, <1>4, Here, FreeSound DEF Free
<1> QED BY <1>1, <1>3, <1>5, Local

LEMMA RecoverableSound ==
  ASSUME IInv, NEW w \in Workers, NEW own \in BOOLEAN
  PROVE  LET row == ListRecoverable(w, own) IN row \in WorkerRow /\ RowSound(w, row)
<1> DEFINE found == {s \in Steps : Recoverable(s) /\ (own => InQueue(w, s))}
<1>1. CASE found = {}
  <2>1. ListRecoverable(w, own) = IdleWorker
    BY <1>1 DEF ListRecoverable
  <2> QED BY <2>1, IdleSound
<1>2. CASE found # {}
  <2> DEFINE row == [IdleWorker EXCEPT !.pc = "recoverRead", !.mode = "recover",
                                       !.own = own, !.plan = found]
  <2>1. ListRecoverable(w, own) = row
    BY <1>2 DEF ListRecoverable
  <2>2. found \subseteq Steps
    OBVIOUS
  <2> HIDE DEF found
  <2>3. /\ row \in WorkerRow /\ row.pc = "recoverRead" /\ row.plan = found
        /\ row.todo = {} /\ row.fresh = {} /\ row.next = "idle"
    BY <2>2, IdleIsRow DEF IdleWorker, WorkerRow, Places
  <2> HIDE DEF row
  <2>4. RowSound(w, row)
    BY <1>2, <2>3 DEF RowSound, Claimed, Past
  <2> QED BY <2>1, <2>3, <2>4
<1> QED BY <1>1, <1>2

LEMMA RecoverAfterLossSafe ==
  ASSUME IInv, NEW w \in Workers, RecoverAfterLoss(w)
  PROVE  Safe(w)
<1>1. TRUE \in BOOLEAN /\ LocalStep(w, ListRecoverable(w, TRUE))
  BY DEF RecoverAfterLoss
<1> QED BY <1>1, RecoverableSound, Local

LEMMA RecoverSafe ==
  ASSUME IInv, NEW w \in Workers, Recover(w)
  PROVE  Safe(w)
<1> DEFINE own == w \in CaptureWorkers
<1>1. own \in BOOLEAN /\ LocalStep(w, ListRecoverable(w, own))
  BY DEF Recover
<1> HIDE DEF own
<1> QED BY <1>1, RecoverableSound, Local

\* On to the next step of the recovery, to the wave after it, or home.
LEMMA RecoveryGoesOn ==
  ASSUME IInv, NEW w \in Workers, NEW rest \in SUBSET Steps, NEW touched \in BOOLEAN
  PROVE  LET row == NextRecovery(w, rest, touched) IN
         /\ row \in WorkerRow /\ row.pc \in {"recoverRead", "wave", "idle"}
         /\ row.pc = "recoverRead" => row.plan # {}
         /\ row.todo = {} /\ row.fresh = {}
         /\ Claimed(row) => Claimed(wk[w]) /\ row.job = wk[w].job
         /\ row.mode \in {"job", wk[w].mode}
<1>1. wk[w] \in WorkerRow
  BY Here
<1>2. CASE rest # {}
  <2> DEFINE row == [Goto(w, "recoverRead") EXCEPT !.plan = rest, !.progress = touched,
                                                   !.fresh = {}, !.todo = {}]
  <2>1. NextRecovery(w, rest, touched) = row
    BY <1>2 DEF NextRecovery
  <2>2. /\ row \in WorkerRow /\ row.pc = "recoverRead" /\ row.plan = rest /\ row.todo = {}
        /\ row.fresh = {} /\ row.job = wk[w].job /\ row.next = wk[w].next /\ row.mode = wk[w].mode
    BY <1>1 DEF Goto, WorkerRow, Places
  <2> HIDE DEF row
  <2> QED BY <1>2, <2>1, <2>2 DEF Claimed, Past
<1>3. CASE rest = {} /\ touched
  <2> DEFINE row == [Goto(w, "wave") EXCEPT !.plan = {}, !.progress = FALSE,
                                            !.fresh = {}, !.todo = {}]
  <2>1. NextRecovery(w, rest, touched) = row
    BY <1>3 DEF NextRecovery
  <2>2. /\ row \in WorkerRow /\ row.pc = "wave" /\ row.todo = {}
        /\ row.fresh = {} /\ row.job = wk[w].job /\ row.next = wk[w].next /\ row.mode = wk[w].mode
    BY <1>1 DEF Goto, WorkerRow, Places
  <2> HIDE DEF row
  <2> QED BY <2>1, <2>2 DEF Claimed, Past
<1>4. CASE rest = {} /\ ~touched
  <2>1. NextRecovery(w, rest, touched) = IdleWorker
    BY <1>4 DEF NextRecovery
  <2>2. ~Claimed(IdleWorker)
    BY DEF IdleWorker, Claimed, Past
  <2> QED BY <2>1, <2>2, IdleIsRow
<1> QED BY <1>2, <1>3, <1>4

\* Sound, whatever was written, at a place where no fresh row is relied on.
LEMMA Arrives ==
  ASSUME IInv, RowsMove, NEW w \in Workers,
         \/ wk'[w].pc \in Free
         \/ wk'[w].pc \in {"publish", "recoverEnqueue"} /\ wk'[w].todo # {}
         \/ wk'[w].pc \in {"recoverRead", "insert"} /\ wk'[w].plan # {},
         wk'[w].pc = "recoverEnqueue" => wk'[w].plan # {},
         \A k \in wk'[w].todo : Known(k)',
         Claimed(wk'[w]) => wk'[w].job = wk[w].job /\ (Claimed(wk[w]) \/ \A j \in {wk[w].job} : Spent(j)')
  PROVE  WorkerSound(w)'
<1> DEFINE new == wk'[w]
<1>1. PICK j \in Jobs : j = wk[w].job
  BY Here
<1>2. Claimed(new) => new.job = j /\ Spent(j)'
  BY <1>1, Here, SpentStays
<1>3. /\ \/ new.pc \in Free
         \/ new.pc \in {"publish", "recoverEnqueue"} /\ new.todo # {}
         \/ new.pc \in {"recoverRead", "insert"} /\ new.plan # {}
      /\ new.pc = "recoverEnqueue" => new.plan # {}
      /\ \A k \in new.todo : Known(k)'
  OBVIOUS
<1> HIDE DEF new
<1>4. \A k \in {new.job} : Claimed(new) => Spent(k)'
  BY <1>2
<1>5. CASE new.pc \in Free
  BY <1>3, <1>4, <1>5 DEF WorkerSound, RowSound, Free, new
<1>6. CASE new.pc \in {"publish", "recoverEnqueue", "recoverRead", "insert"}
  BY <1>3, <1>4, <1>6 DEF WorkerSound, RowSound, Free, new
<1> QED BY <1>3, <1>5, <1>6

LEMMA RecoverReadSafe ==
  ASSUME IInv, NEW w \in Workers, RecoverRead(w)
  PROVE  Safe(w)
<1> DEFINE s == Min(wk[w].plan)
           rest == wk[w].plan \ {s}
           touched == wk[w].progress \/ step[s].st # "running"
<1>1. /\ wk[w] \in WorkerRow /\ wk[w].pc = "recoverRead" /\ wk[w].plan # {}
      /\ wk[w].plan \subseteq Steps /\ wk[w].progress \in BOOLEAN
  <2>1. wk[w] \in WorkerRow /\ wk[w].pc = "recoverRead" /\ RowSound(w, wk[w])
    BY Here DEF RecoverRead, At
  <2> QED BY <2>1 DEF RowSound, WorkerRow
<1>2. s \in wk[w].plan /\ s \in Steps
  BY <1>1, MinIsMember
<1>3. CASE step[s].st = "running" /\ step[s].exp
  <2> DEFINE row == [Goto(w, "recoverSave") EXCEPT !.fresh = {s}]
  <2>1. LocalStep(w, row)
    BY <1>3 DEF RecoverRead
  <2>2. "recoverSave" \in Places /\ {s} \in SUBSET Steps
    BY <1>2 DEF Places
  <2> HIDE DEF s
  <2>3. /\ row \in WorkerRow /\ row.pc = "recoverSave" /\ row.todo = wk[w].todo
        /\ row.job = wk[w].job /\ row.plan = wk[w].plan /\ row.fresh = {s} /\ row.next = wk[w].next
    BY <2>2, Here, RowFound DEF Moved
  <2> HIDE DEF row
  <2>4. Claimed(row) => Claimed(wk[w])
    BY <2>3 DEF Claimed, Past
  <2>5. RowSound(w, row)
    BY <1>1, <1>3, <2>3, <2>4, Here DEF RowSound
  <2> QED BY <2>1, <2>3, <2>5, Local
<1>4. CASE ~(step[s].st = "running" /\ step[s].exp)
  <2> DEFINE row == NextRecovery(w, rest, touched)
  <2>1. LocalStep(w, row)
    BY <1>4 DEF RecoverRead
  <2>2. rest \in SUBSET Steps /\ touched \in BOOLEAN
    BY <1>1
  <2> HIDE DEF rest, touched
  <2>3. /\ row \in WorkerRow /\ row.pc \in {"recoverRead", "wave", "idle"}
        /\ row.pc = "recoverRead" => row.plan # {}
        /\ row.todo = {} /\ row.fresh = {}
        /\ Claimed(row) => Claimed(wk[w]) /\ row.job = wk[w].job
    BY <2>2, RecoveryGoesOn
  <2> HIDE DEF row
  <2>4. RowSound(w, row)
    BY <2>3, Here DEF RowSound
  <2> QED BY <2>1, <2>3, <2>4, Local
<1> QED BY <1>3, <1>4

LEMMA CreateRunSafe ==
  ASSUME IInv, NEW w \in Workers, CreateRun(w)
  PROVE  Safe(w)
<1> DEFINE missing == Steps \ Rows(step)
           row == [IdleWorker EXCEPT !.pc = "insert", !.mode = "create",
                                     !.own = FALSE, !.plan = missing]
<1>1. LocalStep(w, row) /\ missing # {} /\ missing \subseteq Steps
  BY DEF CreateRun
<1> HIDE DEF missing
<1>2. /\ row \in WorkerRow /\ row.pc = "insert" /\ row.plan = missing /\ row.next = "idle"
      /\ row.todo = {} /\ row.fresh = {}
  BY <1>1, IdleIsRow DEF IdleWorker, WorkerRow, Places
<1> HIDE DEF row
<1>3. RowSound(w, row)
  BY <1>1, <1>2 DEF RowSound, Claimed, Past
<1> QED BY <1>1, <1>2, <1>3, Local

-----------------------------------------------------------------------------
(* Steps that write the row of a step.                                     *)

LEMMA Writes ==
  ASSUME IInv, NEW w \in Workers, NEW s \in Steps, NEW new, NEW won, NEW lost,
         SaveStep(w, s, new, won, lost), UNCHANGED <<run, job, outbox, used>>,
         s \in wk[w].fresh =>
           /\ new \in StepRowType /\ (new.st # step[s].st \/ step[s].st = "running")
           /\ new.st = "running" =>
                new.lease = w \/ (step[s].st = "running" /\ new.lease = step[s].lease),
         s \in wk[w].fresh /\ step'[s] = new /\ Only(s) /\ Steady => OneMoves(s) \/ Same(s)
  PROVE  /\ RowsMove /\ JobsKeep /\ RunKeeps /\ AllRows /\ \A v \in Workers \ {w} : Kept(v)
         /\ \/ s \in wk[w].fresh /\ wk'[w] = won /\ step'[s] = new /\ Only(s)
            \/ s \notin wk[w].fresh /\ wk'[w] = lost /\ step' = step
<1>1. Shapes /\ \A v \in Workers : wk[v] \in WorkerRow
  BY DEF IInv, Shapes
<1>2. JobsKeep /\ RunKeeps /\ Steady /\ UNCHANGED used
  BY JobsStill, RunStill
<1>3. AllRows /\
         \/ /\ s \in wk[w].fresh /\ wk'[w] = won
            /\ step'[s] = new /\ \A t \in Steps \ {s} : step'[t] = step[t]
            /\ \A v \in Workers \ {w} : Outdated(v, {s})
         \/ /\ s \notin wk[w].fresh /\ wk'[w] = lost
            /\ step' = step
            /\ \A v \in Workers \ {w} : Outdated(v, {})
  BY <1>1, Saved
<1>4. CASE s \in wk[w].fresh
  <2>1. /\ wk'[w] = won /\ step'[s] = new /\ Only(s)
        /\ \A v \in Workers \ {w} : Outdated(v, {s})
    BY <1>3, <1>4 DEF Only
  <2>2. step' \in [Steps -> StepRowType]
    BY <1>1, <1>4, SavedRows
  <2>3. OneMoves(s) \/ \A t \in Steps : Same(t)
    BY <1>2, <1>4, <2>1 DEF Only, Same, KeepsAttempts, KeepsFlag
  <2>4. used' \in [crash : Nat, lapse : Nat, call : 0..MaxCalls] /\ used'.call >= used.call
    BY <1>1, <1>2, BoundAssumption DEF Shapes
  <2>5. RowsMove
    BY <1>2, <2>2, <2>3, <2>4 DEF RowsMove
  <2>6. ASSUME NEW v \in Workers \ {w} PROVE Kept(v)
    BY <1>1, <1>2, <1>4, <2>1, KeptOne
  <2> QED BY <1>2, <1>3, <1>4, <2>1, <2>5, <2>6
<1>5. CASE s \notin wk[w].fresh
  <2>1. wk'[w] = lost /\ step' = step /\ \A v \in Workers \ {w} : Outdated(v, {})
    BY <1>3, <1>5
  <2>2. \A t \in Steps : Same(t)
    BY <2>1 DEF Same, KeepsAttempts, KeepsFlag
  <2>3. RowsMove
    BY <1>1, <1>2, <2>1, SameMoves
  <2>4. \A v \in Workers \ {w} : Kept(v)
    BY <1>1, <1>2, <2>1, <2>2, KeptSame
  <2> QED BY <1>2, <1>3, <1>5, <2>1, <2>3, <2>4
<1> QED BY <1>4, <1>5

LEMMA AckArrives ==
  ASSUME IInv, RowsMove, NEW w \in Workers, NEW next \in {"idle", "sync", "wave"},
         wk'[w] = AckThen(w, next), NEW j \in Jobs, j = wk[w].job, Spent(j)'
  PROVE  wk'[w] \in WorkerRow /\ WorkerSound(w)'
<1>1. /\ wk'[w] \in WorkerRow /\ wk'[w].pc = "ack" /\ wk'[w].todo = wk[w].todo
      /\ wk'[w].job = j
  BY Here, RowAck DEF Moved
<1>2. \A k \in wk'[w].todo : Known(k)'
  BY <1>1, Here, KnownStays
<1>3. \A k \in {wk[w].job} : Spent(k)'
  OBVIOUS
<1> QED BY <1>1, <1>2, <1>3, Arrives DEF Free

LEMMA IdleArrives ==
  ASSUME IInv, RowsMove, NEW w \in Workers, wk'[w] \in {IdleWorker, LeaseLost}
  PROVE  wk'[w] \in WorkerRow /\ WorkerSound(w)'
<1> DEFINE new == wk'[w]
<1>1. IdleWorker \in WorkerRow /\ IdleWorker.pc = "idle" /\ IdleWorker.todo = {} /\ ~Claimed(IdleWorker)
  BY IdleIsRow DEF IdleWorker, Claimed, Past
<1>2. LeaseLost \in WorkerRow /\ LeaseLost.pc = "recover" /\ LeaseLost.todo = {} /\ ~Claimed(LeaseLost)
  BY IdleIsRow DEF LeaseLost, IdleWorker, WorkerRow, Places, Claimed, Past
<1>3. new = IdleWorker \/ new = LeaseLost
  OBVIOUS
<1> HIDE DEF new
<1>4. new \in WorkerRow /\ new.pc \in {"idle", "recover"} /\ new.todo = {} /\ ~Claimed(new)
  BY <1>1, <1>2, <1>3
<1> QED BY <1>4, Arrives DEF Free, new

LEMMA CancelQueuedSafe ==
  ASSUME IInv, NEW w \in Workers, CancelQueued(w)
  PROVE  Safe(w)
<1> DEFINE new == RequestCancellation(step[Mine(w)])
           row == AckThen(w, "sync")
<1>1. PICK s \in Steps : s = Mine(w)
  BY Here
<1>2. PICK j \in Jobs : j = wk[w].job /\ j[1] = s
  BY <1>1, Here
<1>3. wk[w].pc = "cancelQueued" /\ SaveStep(w, s, new, row, row) /\ UNCHANGED <<run, job, outbox, used>>
  BY <1>1 DEF CancelQueued, At
<1>4. Known(j) /\ (s \in wk[w].fresh \/ Spent(j)) /\ (s \in wk[w].fresh => step[s].st \in Waiting)
  BY <1>2, <1>3, Here DEF RowSound
<1>5. step[s] \in StepRowType
  BY Here DEF Shapes
<1>6. s \in wk[w].fresh =>
      /\ new \in StepRowType /\ new.att = step[s].att /\ new.max = step[s].max
      /\ new.st = "cancelled" /\ new.st # step[s].st /\ new.st # "running"
  BY <1>1, <1>4, <1>5, RowWithdrawn DEF Waiting
<1> HIDE DEF new, row
<1>7. s \in wk[w].fresh /\ step'[s] = new /\ Only(s) /\ Steady => OneMoves(s)
  BY <1>4, <1>6 DEF OneMoves, Withdraws, KeepsAttempts
<1>8. /\ RowsMove /\ JobsKeep /\ RunKeeps /\ AllRows /\ \A v \in Workers \ {w} : Kept(v)
      /\ \/ s \in wk[w].fresh /\ wk'[w] = row /\ step'[s] = new /\ Only(s)
         \/ s \notin wk[w].fresh /\ wk'[w] = row /\ step' = step
  BY <1>3, <1>6, <1>7, Writes
<1>9. Spent(j)'
  <2>1. CASE Spent(j)
    BY <1>8, <2>1, Here, SpentStays
  <2>2. CASE s \in wk[w].fresh
    <3>1. Known(j)' /\ step'[s].st = "cancelled"
      BY <1>4, <1>6, <1>8, <2>2, Here, KnownStays
    <3> QED BY <1>2, <3>1 DEF Known, Spent
  <2> QED BY <1>4, <2>1, <2>2
<1>10. wk'[w] \in WorkerRow /\ WorkerSound(w)'
  BY <1>2, <1>8, <1>9, AckArrives DEF row
<1> QED BY <1>8, <1>10 DEF Safe

LEMMA ClaimSafe ==
  ASSUME IInv, NEW w \in Workers, Claim(w)
  PROVE  Safe(w)
<1> DEFINE won == [Goto(w, "sync") EXCEPT !.next = "execute", !.fresh = {}]
           lost == AckThen(w, "idle")
           new == StartStep(step[Mine(w)], w)
<1>1. PICK s \in Steps : s = Mine(w)
  BY Here
<1>2. PICK j \in Jobs : j = wk[w].job /\ j[1] = s
  BY <1>1, Here
<1>3. wk[w].pc = "claim" /\ UNCHANGED <<run, job, outbox, used>>
  BY DEF Claim, At
<1>4. /\ Known(j) /\ (s \in wk[w].fresh \/ Spent(j))
      /\ s \in wk[w].fresh => step[s].st \in Waiting /\ ~run.cancel
  BY <1>2, <1>3, Here DEF RowSound
<1>5. step[s] \in StepRowType /\ wk[w] \in WorkerRow
  BY Here DEF Shapes
<1>6. s \in wk[w].fresh => step[s].att < step[s].max
  BY <1>4, Here DEF Attempts, AttemptsOf
<1>7. SaveStep(w, s, new, won, lost)
  <2>1. step[s].att \in Nat /\ step[s].max \in Nat
    BY <1>5 DEF StepRowType
  <2> QED BY <1>1, <1>6, <2>1 DEF Claim
<1>8. /\ new \in StepRowType /\ new.st = "running" /\ new.lease = w
      /\ new.att = step[s].att + 1 /\ new.max = step[s].max /\ new.flag = step[s].flag
  BY <1>1, <1>5, RowStarted
<1>9. /\ won \in WorkerRow /\ won.pc = "sync" /\ won.todo = wk[w].todo
      /\ won.job = wk[w].job /\ won.fresh = {}
  BY <1>5 DEF Goto, WorkerRow, Places
<1> HIDE DEF new, won, lost
<1>10. s \in wk[w].fresh /\ step'[s] = new /\ Only(s) /\ Steady => OneMoves(s)
  <2>1. DepsSucceeded(s)
    BY <1>2, <1>4 DEF Known
  <2> QED BY <1>4, <1>6, <1>8, <2>1 DEF OneMoves, Starts, KeepsFlag
<1>11. /\ RowsMove /\ JobsKeep /\ RunKeeps /\ AllRows /\ \A v \in Workers \ {w} : Kept(v)
       /\ \/ s \in wk[w].fresh /\ wk'[w] = won /\ step'[s] = new /\ Only(s)
          \/ s \notin wk[w].fresh /\ wk'[w] = lost /\ step' = step
  <2>1. s \in wk[w].fresh => new.st # step[s].st
    BY <1>4, <1>8 DEF Waiting
  <2> QED BY <1>3, <1>7, <1>8, <1>10, <2>1, Writes
<1>12. wk'[w] \in WorkerRow /\ WorkerSound(w)'
  <2>1. CASE s \in wk[w].fresh
    <3>1. wk'[w] = won /\ step'[s].att = step[s].att + 1
      BY <1>8, <1>11, <2>1
    <3>2. j[2] <= step[s].att + 1
      <4>1. j[2] \in Nat /\ step[s].att \in Nat
        BY <1>5 DEF Jobs, StepRowType
      <4> QED BY <1>2, <1>4, <4>1 DEF Known
    <3>3. Spent(j)'
      BY <1>2, <3>1, <3>2 DEF Spent
    <3>4. \A k \in {wk[w].job} : Spent(k)'
      BY <1>2, <3>3
    <3>5. \A k \in wk'[w].todo : Known(k)'
      BY <1>9, <1>11, <3>1, Here, KnownStays
    <3> QED BY <1>9, <1>11, <3>1, <3>4, <3>5, Arrives DEF Free
  <2>2. CASE s \notin wk[w].fresh
    <3>1. Spent(j)' /\ wk'[w] = AckThen(w, "idle")
      BY <1>4, <1>11, <2>2, Here, SpentStays DEF lost
    <3> QED BY <1>2, <1>11, <3>1, AckArrives
  <2> QED BY <2>1, <2>2
<1> QED BY <1>11, <1>12 DEF Safe

LEMMA HeartbeatSaveSafe ==
  ASSUME IInv, NEW w \in Workers, HeartbeatSave(w)
  PROVE  Safe(w)
<1> DEFINE won == Goto(w, "recheck")
           new == [step[Mine(w)] EXCEPT !.exp = FALSE]
<1>1. PICK s \in Steps : s = Mine(w)
  BY Here
<1>2. wk[w].pc = "beatSave" /\ UNCHANGED <<run, job, outbox, used>>
      /\ SaveStep(w, s, new, won, LeaseLost)
  BY <1>1 DEF HeartbeatSave, At
<1>3. \A t \in wk[w].fresh : step[t].st = "running" /\ step[t].lease = w
  BY <1>2, Here DEF RowSound
<1>4. step[s] \in StepRowType /\ wk[w] \in WorkerRow /\ Claimed(wk[w])
  BY <1>2, Here DEF Shapes, Claimed, Past
<1>5. /\ new \in StepRowType /\ new.st = step[s].st /\ new.lease = step[s].lease
      /\ new.att = step[s].att /\ new.max = step[s].max /\ new.flag = step[s].flag
  BY <1>1, <1>4 DEF StepRowType
<1>6. /\ won \in WorkerRow /\ won.pc = "recheck" /\ won.todo = wk[w].todo
      /\ won.job = wk[w].job /\ won.fresh = wk[w].fresh
  BY Here, RowGoto DEF Moved, Places, Past
<1> HIDE DEF new, won
<1>7. s \in wk[w].fresh /\ step'[s] = new /\ Only(s) /\ Steady => Same(s)
  BY <1>5 DEF Same, KeepsAttempts, KeepsFlag
<1>8. /\ RowsMove /\ JobsKeep /\ RunKeeps /\ AllRows /\ \A v \in Workers \ {w} : Kept(v)
      /\ \/ s \in wk[w].fresh /\ wk'[w] = won /\ step'[s] = new /\ Only(s)
         \/ s \notin wk[w].fresh /\ wk'[w] = LeaseLost /\ step' = step
  BY <1>2, <1>3, <1>5, <1>7, Writes
<1>9. wk'[w] \in WorkerRow /\ WorkerSound(w)'
  <2>1. CASE s \notin wk[w].fresh
    BY <1>8, <2>1, IdleArrives
  <2>2. CASE s \in wk[w].fresh
    <3>1. wk'[w] = won /\ \A t \in wk[w].fresh : step'[t].st = "running" /\ step'[t].lease = w
      <4>1. wk[w].fresh \subseteq Steps
        BY <1>4 DEF WorkerRow
      <4> QED BY <1>3, <1>5, <1>8, <2>2, <4>1 DEF Only
    <3>2. PICK j \in Jobs : j = wk[w].job
      BY Here
    <3>3. Spent(j)'
      BY <1>4, <1>8, <3>2, Here, SpentStays
    <3>4. \A k \in wk[w].todo : Known(k)'
      BY <1>8, Here, KnownStays
    <3>5. \A k \in {won.job} : Spent(k)'
      BY <1>6, <3>2, <3>3
    <3> QED BY <1>6, <3>1, <3>4, <3>5 DEF WorkerSound, RowSound
  <2> QED BY <2>1, <2>2
<1> QED BY <1>8, <1>9 DEF Safe

LEMMA FinishSafe ==
  ASSUME IInv, NEW w \in Workers, Finish(w)
  PROVE  Safe(w)
<1> DEFINE status == IF Mine(w) \in ReviewSteps THEN "awaiting_review" ELSE "succeeded"
           next == IF status = "succeeded" THEN "wave" ELSE "sync"
           new == FinishStep(step[Mine(w)], status)
           won == AckThen(w, next)
           lost == Goto(w, "conflict")
<1>1. PICK s \in Steps : s = Mine(w)
  BY Here
<1>2. PICK j \in Jobs : j = wk[w].job
  BY Here
<1>3. wk[w].pc = "finish" /\ UNCHANGED <<run, job, outbox, used>>
      /\ SaveStep(w, s, new, won, lost)
  BY <1>1 DEF Finish, At
<1>4. \A t \in wk[w].fresh : step[t].st = "running" /\ ~run.cancel
  BY <1>3, Here DEF RowSound
<1>5. step[s] \in StepRowType /\ Claimed(wk[w])
  BY <1>3, Here DEF Shapes, Claimed, Past
<1>6. Becomes(new, step[s], status) /\ status \in {"awaiting_review", "succeeded"}
  <2>1. status \in Statuses /\ status \in {"awaiting_review", "succeeded"}
    BY DEF Statuses, Terminal
  <2> HIDE DEF status
  <2> QED BY <1>1, <1>5, <2>1, RowFinished
<1>7. next \in {"idle", "sync", "wave"}
  OBVIOUS
<1> HIDE DEF new, won, lost, next, status
<1>8. s \in wk[w].fresh /\ step'[s] = new /\ Only(s) /\ Steady => OneMoves(s)
  BY <1>4, <1>6 DEF Becomes, OneMoves, Delivers, KeepsAttempts, KeepsFlag
<1>9. /\ RowsMove /\ JobsKeep /\ RunKeeps /\ AllRows /\ \A v \in Workers \ {w} : Kept(v)
      /\ \/ s \in wk[w].fresh /\ wk'[w] = won /\ step'[s] = new /\ Only(s)
         \/ s \notin wk[w].fresh /\ wk'[w] = lost /\ step' = step
  <2>1. s \in wk[w].fresh =>
           /\ new \in StepRowType /\ step[s].st = "running" /\ new.st # "running"
    BY <1>4, <1>6 DEF Becomes
  <2> QED BY <1>3, <1>8, <2>1, Writes
<1>10. Spent(j)'
  BY <1>2, <1>5, <1>9, Here, SpentStays
<1>11. wk'[w] \in WorkerRow /\ WorkerSound(w)'
  <2>1. CASE s \in wk[w].fresh
    BY <1>2, <1>7, <1>9, <1>10, <2>1, AckArrives DEF won
  <2>2. CASE s \notin wk[w].fresh
    <3>1. /\ lost \in WorkerRow /\ lost.pc = "conflict" /\ lost.todo = wk[w].todo
          /\ lost.job = wk[w].job
      BY Here, RowGoto DEF Moved, Places, Past, lost
    <3>2. wk'[w] = lost /\ \A k \in wk[w].todo : Known(k)'
      BY <1>9, <2>2, Here, KnownStays
    <3> QED BY <1>5, <1>9, <3>1, <3>2, Arrives DEF Free
  <2> QED BY <2>1, <2>2
<1> QED BY <1>9, <1>11 DEF Safe

LEMMA CancelSaveSafe ==
  ASSUME IInv, NEW w \in Workers, CancelSave(w)
  PROVE  Safe(w)
<1> DEFINE new == CancelRunningStep(step[Mine(w)])
           row == AckThen(w, "sync")
<1>1. PICK s \in Steps : s = Mine(w)
  BY Here
<1>2. PICK j \in Jobs : j = wk[w].job
  BY Here
<1>3. wk[w].pc = "cancelSave" /\ UNCHANGED <<run, job, outbox, used>>
      /\ SaveStep(w, s, new, row, row)
  BY <1>1 DEF CancelSave, At
<1>4. run.cancel /\ \A t \in wk[w].fresh : step[t].st = "running"
  BY <1>3, Here DEF RowSound
<1>5. step[s] \in StepRowType /\ Claimed(wk[w])
  BY <1>3, Here DEF Shapes, Claimed, Past
<1>6. /\ new \in StepRowType /\ new.att = step[s].att /\ new.max = step[s].max
      /\ new.st = "cancelled"
  BY <1>1, <1>5, RowCancelled
<1> HIDE DEF new, row
<1>7. s \in wk[w].fresh /\ step'[s] = new /\ Only(s) /\ Steady => OneMoves(s)
  BY <1>4, <1>6 DEF OneMoves, Cancels, KeepsAttempts
<1>8. /\ RowsMove /\ JobsKeep /\ RunKeeps /\ AllRows /\ \A v \in Workers \ {w} : Kept(v)
      /\ wk'[w] = row
  BY <1>3, <1>4, <1>6, <1>7, Writes
<1>9. Spent(j)'
  BY <1>2, <1>5, <1>8, Here, SpentStays
<1>10. wk'[w] \in WorkerRow /\ WorkerSound(w)'
  BY <1>2, <1>8, <1>9, AckArrives DEF row
<1> QED BY <1>8, <1>10 DEF Safe

\* The job that wakes the next attempt of a step that has just failed.
LEMMA RetryJob ==
  ASSUME IInv, RowsMove, NEW s \in Steps, step[s].st = "running", step[s].att < step[s].max,
         step'[s].st = "retrying", step'[s].att = step[s].att
  PROVE  \A k \in {<<s, step[s].att + 1>>} : k \in Jobs /\ Known(k)'
<1>1. Shapes /\ AttemptsOf(s) /\ DepsSucceeded(s)
  BY DEF IInv, Attempts, Started
<1>2. <<s, step[s].att + 1>> \in Jobs
  BY <1>1, NextJob
<1>3. PICK a \in Nat : a = step[s].att + 1
  BY <1>1 DEF Shapes, StepRowType
<1>4. DepsSucceeded(s)'
  BY <1>1, DepsStay
<1>5. Known(<<s, a>>)'
  BY <1>3, <1>4 DEF Known, Waiting
<1> QED BY <1>2, <1>3, <1>5

WithTodo(w, pc, T) == [Goto(w, pc) EXCEPT !.fresh = {}, !.todo = T]

LEMMA RowTodo ==
  ASSUME Shapes, NEW w \in Workers, NEW pc \in Places, NEW T \in SUBSET Jobs
  PROVE  LET row == WithTodo(w, pc, T) IN
         /\ row \in WorkerRow /\ row.pc = pc /\ row.todo = T /\ row.fresh = {}
         /\ row.job = wk[w].job /\ row.next = wk[w].next /\ row.plan = wk[w].plan
<1>1. wk[w] \in WorkerRow
  BY DEF Shapes
<1> QED BY <1>1 DEF Goto, WorkerRow, WithTodo

LEMMA FailSaveSafe ==
  ASSUME IInv, NEW w \in Workers, FailSave(w)
  PROVE  Safe(w)
<1>1. PICK s \in Steps : s = Mine(w)
  BY Here
<1>2. PICK j \in Jobs : j = wk[w].job
  BY Here
<1>3. wk[w].pc = "failSave" /\ UNCHANGED <<run, job, outbox, used>>
  BY DEF FailSave, At
<1>4. PICK retryable \in BOOLEAN :
        LET new == FailStep(step[s], retryable) IN
        SaveStep(w, s, new,
          IF new.st = "retrying"
          THEN [Goto(w, "release") EXCEPT !.fresh = {}, !.todo = {<<s, new.att + 1>>}]
          ELSE AckThen(w, "wave"),
          AckThen(w, "idle"))
  BY <1>1 DEF FailSave
<1> DEFINE new == FailStep(step[s], retryable)
           again == [Goto(w, "release") EXCEPT !.fresh = {}, !.todo = {<<s, new.att + 1>>}]
           won == IF new.st = "retrying" THEN again ELSE AckThen(w, "wave")
           lost == AckThen(w, "idle")
<1>5. SaveStep(w, s, new, won, lost)
  BY <1>4
<1>6. \A t \in wk[w].fresh : step[t].st = "running"
  BY <1>3, Here DEF RowSound
<1>7. step[s] \in StepRowType /\ Claimed(wk[w]) /\ wk[w] \in WorkerRow
  BY <1>3, Here DEF Shapes, Claimed, Past
<1>8. \/ Becomes(new, step[s], "failed")
      \/ Becomes(new, step[s], "retrying") /\ step[s].att < step[s].max
  BY <1>7, RowFailed
<1> HIDE DEF new, again
<1>9. s \in wk[w].fresh /\ step'[s] = new /\ Only(s) /\ Steady => OneMoves(s)
  BY <1>6, <1>8 DEF Becomes, OneMoves, Fails, KeepsAttempts, KeepsFlag
<1>10. s \in wk[w].fresh =>
           /\ new \in StepRowType /\ step[s].st = "running" /\ new.st # "running"
  BY <1>6, <1>8 DEF Becomes
<1> HIDE DEF won, lost
<1>11. /\ RowsMove /\ JobsKeep /\ RunKeeps /\ AllRows /\ \A v \in Workers \ {w} : Kept(v)
       /\ \/ s \in wk[w].fresh /\ wk'[w] = won /\ step'[s] = new /\ Only(s)
          \/ s \notin wk[w].fresh /\ wk'[w] = lost /\ step' = step
  BY <1>3, <1>5, <1>9, <1>10, Writes
<1>12. Spent(j)'
  BY <1>2, <1>7, <1>11, Here, SpentStays
<1>13. wk'[w] \in WorkerRow /\ WorkerSound(w)'
  <2>1. CASE s \notin wk[w].fresh
    BY <1>2, <1>11, <1>12, <2>1, AckArrives DEF lost
  <2>2. CASE s \in wk[w].fresh /\ new.st # "retrying"
    BY <1>2, <1>11, <1>12, <2>2, AckArrives DEF won
  <2>3. CASE s \in wk[w].fresh /\ new.st = "retrying"
    <3> DEFINE k == <<s, step[s].att + 1>>
    <3>1. new.att = step[s].att /\ step[s].att < step[s].max /\ step[s].st = "running"
      BY <1>6, <1>8, <2>3 DEF Becomes
    <3>2. \A i \in {k} : i \in Jobs /\ Known(i)'
      BY <1>11, <2>3, <3>1, RetryJob
    <3>3. again = [Goto(w, "release") EXCEPT !.fresh = {}, !.todo = {k}] /\ wk'[w] = again
      BY <1>11, <2>3, <3>1 DEF again, won
    <3> DEFINE T == {k}
    <3> HIDE DEF k
    <3>6. T \in SUBSET Jobs /\ "release" \in Places /\ Shapes
      BY <3>2, Here DEF Places
    <3>7. again = WithTodo(w, "release", T) /\ \A i \in T : Known(i)'
      BY <3>2, <3>3 DEF WithTodo
    <3> HIDE DEF T
    <3>4. /\ again \in WorkerRow /\ again.pc = "release" /\ again.todo = T
          /\ again.job = wk[w].job
      BY <3>6, <3>7, RowTodo
    <3>5. \A i \in wk'[w].todo : Known(i)'
      BY <3>3, <3>4, <3>7
    <3> QED BY <1>7, <1>11, <3>3, <3>4, <3>5, Arrives DEF Free
  <2> QED BY <2>1, <2>2, <2>3
<1> QED BY <1>11, <1>13 DEF Safe

LEMMA WaveSaveSafe ==
  ASSUME IInv, NEW w \in Workers, WaveSave(w)
  PROVE  Safe(w)
<1> DEFINE first == Min(wk[w].plan)
<1>1. /\ wk[w] \in WorkerRow /\ wk[w].pc = "waveSave" /\ wk[w].plan # {}
      /\ wk[w].plan \subseteq Steps /\ UNCHANGED <<run, job, outbox, used>>
      /\ \A t \in wk[w].fresh : step[t].st \in Waiting
  <2>1. wk[w] \in WorkerRow /\ wk[w].pc = "waveSave" /\ RowSound(w, wk[w])
    BY Here DEF WaveSave, At
  <2> QED BY <2>1 DEF RowSound, WorkerRow, WaveSave
<1>2. PICK s \in Steps : s = first
  BY <1>1, MinIsMember
<1> HIDE DEF first
<1> DEFINE rest == wk[w].plan \ {s}
           saved == wk[w].progress \/ s \in wk[w].fresh
           more == saved /\ rest # {}
           pc == IF rest # {} THEN "waveSave" ELSE IF saved THEN "wave" ELSE "list"
           left == wk[w].fresh \ {s}
           after == [Goto(w, pc) EXCEPT !.plan = rest, !.fresh = left, !.progress = more]
           won == [after EXCEPT !.changed = TRUE]
           new == RequestCancellation(step[s])
<1>3. SaveStep(w, s, new, won, after)
  BY <1>2 DEF WaveSave, Goto, first
<1>4. step[s] \in StepRowType
  BY Here DEF Shapes
<1>5. s \in wk[w].fresh =>
      /\ new \in StepRowType /\ new.att = step[s].att /\ new.max = step[s].max
      /\ new.st = "cancelled" /\ new.st # step[s].st /\ new.st # "running"
  BY <1>1, <1>4, RowWithdrawn DEF Waiting
<1>6. /\ pc \in {"waveSave", "wave", "list"} /\ (pc = "waveSave" => rest # {})
      /\ rest \subseteq Steps /\ left \subseteq Steps /\ more \in BOOLEAN
  BY <1>1 DEF WorkerRow
<1>7. \A t \in left : t # s /\ t \in wk[w].fresh
  OBVIOUS
<1> HIDE DEF new, rest, left, more, pc
<1>8. /\ after \in WorkerRow /\ after.pc = pc /\ after.plan = rest /\ after.fresh = left
      /\ after.todo = wk[w].todo /\ after.job = wk[w].job /\ after.next = wk[w].next
  BY <1>1, <1>6 DEF Goto, WorkerRow, Places
<1> HIDE DEF after
<1>9. /\ won \in WorkerRow /\ won.pc = pc /\ won.plan = rest /\ won.fresh = left
      /\ won.todo = wk[w].todo /\ won.job = wk[w].job /\ won.next = wk[w].next
  BY <1>8 DEF WorkerRow
<1> HIDE DEF won, saved
<1>10. s \in wk[w].fresh /\ step'[s] = new /\ Only(s) /\ Steady => OneMoves(s)
  BY <1>1, <1>5 DEF OneMoves, Withdraws, KeepsAttempts
<1>11. /\ RowsMove /\ JobsKeep /\ RunKeeps /\ AllRows /\ \A v \in Workers \ {w} : Kept(v)
       /\ \/ s \in wk[w].fresh /\ wk'[w] = won /\ step'[s] = new /\ Only(s)
          \/ s \notin wk[w].fresh /\ wk'[w] = after /\ step' = step
  BY <1>1, <1>3, <1>5, <1>10, Writes
<1>12. /\ wk'[w] \in WorkerRow /\ wk'[w].pc = pc /\ wk'[w].plan = rest /\ wk'[w].fresh = left
       /\ wk'[w].todo = wk[w].todo /\ wk'[w].job = wk[w].job /\ wk'[w].next = wk[w].next
  BY <1>8, <1>9, <1>11
<1>13. \A t \in left : step'[t].st \in Waiting
  BY <1>1, <1>6, <1>7, <1>11 DEF Only
<1>14. WorkerSound(w)'
  <2>1. PICK j \in Jobs : j = wk[w].job
    BY Here
  <2>2. Claimed(wk'[w]) => Claimed(wk[w])
    BY <1>6, <1>12 DEF Claimed, Past
  <2>3. \A k \in {wk'[w].job} : Claimed(wk'[w]) => Spent(k)'
    BY <1>11, <1>12, <2>1, <2>2, Here, SpentStays
  <2>4. \A k \in wk'[w].todo : Known(k)'
    BY <1>11, <1>12, Here, KnownStays
  <2> QED BY <1>6, <1>12, <1>13, <2>3, <2>4 DEF WorkerSound, RowSound
<1> QED BY <1>11, <1>12, <1>14 DEF Safe

LEMMA RecoverSaveSafe ==
  ASSUME IInv, NEW w \in Workers, RecoverSave(w)
  PROVE  Safe(w)
<1> DEFINE first == Min(wk[w].plan)
<1>1. /\ wk[w] \in WorkerRow /\ wk[w].pc = "recoverSave" /\ wk[w].plan # {}
      /\ wk[w].plan \subseteq Steps /\ wk[w].progress \in BOOLEAN
      /\ UNCHANGED <<run, job, outbox, used>>
      /\ \A t \in wk[w].fresh : step[t].st = "running"
  <2>1. wk[w] \in WorkerRow /\ wk[w].pc = "recoverSave" /\ RowSound(w, wk[w])
    BY Here DEF RecoverSave, At
  <2> QED BY <2>1 DEF RowSound, WorkerRow, RecoverSave
<1>2. PICK s \in Steps : s = first
  BY <1>1, MinIsMember
<1> HIDE DEF first
<1> DEFINE rest == wk[w].plan \ {s}
           progress == wk[w].progress
           new == FailStep(step[s], TRUE)
           again == [Goto(w, "recoverEnqueue") EXCEPT !.fresh = {}, !.todo = {<<s, new.att + 1>>}]
           won == IF new.st = "retrying" THEN again ELSE NextRecovery(w, rest, TRUE)
           lost == NextRecovery(w, rest, progress)
<1>3. SaveStep(w, s, new, won, lost)
  BY <1>2 DEF RecoverSave, first
<1>4. step[s] \in StepRowType
  BY Here DEF Shapes
<1>5. \/ Becomes(new, step[s], "failed")
      \/ Becomes(new, step[s], "retrying") /\ step[s].att < step[s].max
  BY <1>4, RowFailed
<1>6. rest \in SUBSET Steps /\ progress \in BOOLEAN
  BY <1>1
<1> HIDE DEF new, again, won, lost, rest, progress
<1>7. s \in wk[w].fresh /\ step'[s] = new /\ Only(s) /\ Steady => OneMoves(s)
  BY <1>1, <1>5 DEF Becomes, OneMoves, Fails, KeepsAttempts, KeepsFlag
<1>8. s \in wk[w].fresh =>
           /\ new \in StepRowType /\ step[s].st = "running" /\ new.st # "running"
  BY <1>1, <1>5 DEF Becomes
<1>9. /\ RowsMove /\ JobsKeep /\ RunKeeps /\ AllRows /\ \A v \in Workers \ {w} : Kept(v)
      /\ \/ s \in wk[w].fresh /\ wk'[w] = won /\ step'[s] = new /\ Only(s)
         \/ s \notin wk[w].fresh /\ wk'[w] = lost /\ step' = step
  BY <1>1, <1>3, <1>7, <1>8, Writes
<1>10. ASSUME NEW touched \in BOOLEAN, wk'[w] = NextRecovery(w, rest, touched)
       PROVE  wk'[w] \in WorkerRow /\ WorkerSound(w)'
  <2> DEFINE row == NextRecovery(w, rest, touched)
  <2>1. /\ row \in WorkerRow /\ row.pc \in {"recoverRead", "wave", "idle"}
        /\ row.pc = "recoverRead" => row.plan # {}
        /\ row.todo = {} /\ row.fresh = {}
        /\ Claimed(row) => Claimed(wk[w]) /\ row.job = wk[w].job
    BY <1>6, RecoveryGoesOn
  <2>2. wk'[w] = row
    BY <1>10
  <2> HIDE DEF row
  <2> QED BY <1>9, <2>1, <2>2, Arrives DEF Free
<1>11. wk'[w] \in WorkerRow /\ WorkerSound(w)'
  <2>1. CASE s \notin wk[w].fresh
    BY <1>6, <1>9, <1>10, <2>1 DEF lost
  <2>2. CASE s \in wk[w].fresh /\ new.st # "retrying"
    BY <1>9, <1>10, <2>2 DEF won
  <2>3. CASE s \in wk[w].fresh /\ new.st = "retrying"
    <3> DEFINE k == <<s, step[s].att + 1>>
    <3>1. new.att = step[s].att /\ step[s].att < step[s].max /\ step[s].st = "running"
      BY <1>1, <1>5, <2>3 DEF Becomes
    <3>2. \A i \in {k} : i \in Jobs /\ Known(i)'
      BY <1>9, <2>3, <3>1, RetryJob
    <3>3. again = [Goto(w, "recoverEnqueue") EXCEPT !.fresh = {}, !.todo = {k}] /\ wk'[w] = again
      BY <1>9, <2>3, <3>1 DEF again, won
    <3> DEFINE T == {k}
    <3> HIDE DEF k
    <3>7. T \in SUBSET Jobs /\ "recoverEnqueue" \in Places /\ Shapes
      BY <3>2, Here DEF Places
    <3>8. /\ again = WithTodo(w, "recoverEnqueue", T)
          /\ \A i \in T : Known(i)'
      BY <3>2, <3>3 DEF WithTodo
    <3>9. T # {}
      OBVIOUS
    <3> HIDE DEF T
    <3>4. /\ again \in WorkerRow /\ again.pc = "recoverEnqueue" /\ again.todo = T
          /\ again.job = wk[w].job /\ again.plan = wk[w].plan /\ again.fresh = {}
          /\ again.next = wk[w].next
      BY <3>7, <3>8, RowTodo
    <3>5. \A i \in wk'[w].todo : Known(i)'
      BY <3>3, <3>4, <3>8
    <3>6. Claimed(wk'[w]) => Claimed(wk[w])
      BY <3>3, <3>4 DEF Claimed, Past
    <3> QED BY <1>1, <1>9, <3>3, <3>4, <3>5, <3>6, <3>9, Arrives DEF Free
  <2> QED BY <2>1, <2>2, <2>3
<1> QED BY <1>9, <1>11 DEF Safe

LEMMA InsertStepSafe ==
  ASSUME IInv, NEW w \in Workers, InsertStep(w)
  PROVE  Safe(w)
<1> DEFINE first == Min(wk[w].plan)
<1>1. /\ wk[w] \in WorkerRow /\ wk[w].pc = "insert" /\ wk[w].plan # {}
      /\ wk[w].plan \subseteq Steps /\ UNCHANGED <<run, job, outbox, used>>
  <2>1. wk[w] \in WorkerRow /\ wk[w].pc = "insert" /\ RowSound(w, wk[w])
    BY Here DEF InsertStep, At
  <2> QED BY <2>1 DEF RowSound, WorkerRow, InsertStep
<1>2. PICK s \in Steps : s = first
  BY <1>1, MinIsMember
<1> HIDE DEF first
<1>3. Shapes /\ JobsKeep /\ RunKeeps /\ Steady
  BY <1>1, Here, JobsStill, RunStill
<1> DEFINE rest == wk[w].plan \ {s}
           pc == IF rest = {} THEN "wave" ELSE "insert"
           row == [Goto(w, pc) EXCEPT !.plan = rest]
<1>4. CASE step[s].st = "absent"
  <2>1. step' = [step EXCEPT ![s] = StepRow("queued")] /\ wk' = [wk EXCEPT ![w] = row]
    BY <1>2, <1>4 DEF InsertStep, first
  <2>2. /\ step' \in [Steps -> StepRowType] /\ Only(s) /\ step'[s].st = "queued"
        /\ step'[s].att = 0 /\ step'[s].max = MaxAttempts /\ ~step'[s].flag
    BY <1>3, <2>1, RowCreated DEF Shapes, Only
  <2>3. OneMoves(s)
    BY <1>3, <1>4, <2>2 DEF OneMoves, Inserts
  <2>4. RowsMove
    BY <1>1, <1>3, <2>2, <2>3, BoundAssumption DEF RowsMove, Shapes
  <2>5. /\ AllRows /\ wk'[w] = row /\ \A v \in Workers \ {w} : Outdated(v, {})
    BY <1>3, <2>1, OneWorker
  <2>6. ASSUME NEW v \in Workers \ {w} PROVE Kept(v)
    <3>1. wk[v].fresh = wk'[v].fresh /\ wk[v].fresh \subseteq Steps
      BY <1>3, <2>5 DEF Outdated, Shapes, WorkerRow
    <3>2. \A t \in Steps : step[t].st \in Waiting \union {"running"} => step'[t] = step[t]
      BY <1>4, <2>2 DEF Only, Waiting
    <3>3. \A t \in Steps : step'[t].st = "running" => step'[t] = step[t]
      BY <2>2 DEF Only
    <3>4. wk[v].fresh \ wk'[v].fresh = {}
      BY <3>1
    <3> QED BY <1>3, <2>5, <3>1, <3>2, <3>3, <3>4 DEF Kept
  <2>7. /\ row \in WorkerRow /\ row.pc = pc /\ row.plan = rest /\ row.todo = wk[w].todo
        /\ row.job = wk[w].job /\ row.next = wk[w].next
    <3>1. rest \subseteq Steps /\ pc \in Places
      BY <1>1 DEF Places
    <3> HIDE DEF rest, pc
    <3> QED BY <1>1, <3>1 DEF Goto, WorkerRow
  <2> HIDE DEF row
  <2>8. \A k \in wk'[w].todo : Known(k)'
    BY <2>4, <2>5, <2>7, Here, KnownStays
  <2>9. Claimed(wk'[w]) => Claimed(wk[w])
    BY <2>5, <2>7 DEF Claimed, Past
  <2>10. WorkerSound(w)'
    BY <2>4, <2>5, <2>7, <2>8, <2>9, Arrives DEF Free
  <2> QED BY <1>3, <2>4, <2>5, <2>6, <2>7, <2>10 DEF Safe
<1>5. CASE step[s].st # "absent"
  <2>1. LocalStep(w, IdleWorker)
    BY <1>2, <1>5 DEF InsertStep, first, LocalStep
  <2> QED BY <2>1, IdleSound, Local
<1> QED BY <1>4, <1>5

-----------------------------------------------------------------------------
(* Steps that write jobs or the run row.                                   *)

LEMMA Frame ==
  ASSUME IInv, NEW w \in Workers, NEW row,
         \/ wk' = [wk EXCEPT ![w] = row]
         \/ \E b \in BOOLEAN : wk' = [Outdate({}, b) EXCEPT ![w] = row],
         UNCHANGED <<step, used>>, Steady
  PROVE  RowsMove /\ AllRows /\ wk'[w] = row /\ \A v \in Workers \ {w} : Kept(v)
<1>1. Shapes /\ \A v \in Workers : wk[v] \in WorkerRow
  BY DEF IInv, Shapes
<1>2. AllRows /\ wk'[w] = row /\ \A v \in Workers \ {w} : Outdated(v, {})
  <2>1. CASE wk' = [wk EXCEPT ![w] = row]
    BY <1>1, <2>1, OneWorker
  <2>2. ASSUME NEW b \in BOOLEAN, wk' = [Outdate({}, b) EXCEPT ![w] = row]
        PROVE  AllRows /\ wk'[w] = row /\ \A v \in Workers \ {w} : Outdated(v, {})
    <3>1. {} \in SUBSET Steps
      OBVIOUS
    <3> QED BY <1>1, <2>2, <3>1, OutdateOthers
  <2> QED BY <2>1, <2>2
<1>3. RowsMove
  BY <1>1, SameMoves
<1>4. \A s \in Steps : Same(s)
  BY DEF Same, KeepsAttempts, KeepsFlag
<1> QED BY <1>1, <1>2, <1>3, <1>4, KeptSame

LEMMA JobWritten ==
  ASSUME IInv, NEW j \in Jobs, NEW r \in JobType, job' = [job EXCEPT ![j] = r],
         UNCHANGED outbox,
         r.st # "none" => job[j].st # "none" \/ Known(j),
         r.st = "done" => job[j].st = "done" \/ Spent(j)
  PROVE  JobsKeep
BY DEF IInv, Shapes, JobsKeep

LEMMA PublishedKeeps ==
  ASSUME IInv, NEW j \in Jobs, Known(j), NEW late \in BOOLEAN, job' = Published(j, late),
         UNCHANGED outbox
  PROVE  JobsKeep
<1> DEFINE r == [st |-> "ready", by |-> NoWorker, late |-> late]
<1>1. r \in JobType
  BY DEF JobType
<1>2. CASE job[j].st = "none"
  BY <1>1, <1>2, JobWritten DEF Published
<1>3. CASE job[j].st # "none"
  BY <1>3, JobsStill DEF Published
<1> QED BY <1>2, <1>3

\* A lease taken, given back or lapsed.
LEMMA LeasedKeeps ==
  ASSUME IInv, NEW j \in Jobs, NEW st \in {"ready", "leased"},
         NEW by \in Workers \union {NoWorker}, job[j].st # "none",
         job' = [job EXCEPT ![j] = [@ EXCEPT !.st = st, !.by = by]], UNCHANGED outbox
  PROVE  JobsKeep
<1> DEFINE r == [job[j] EXCEPT !.st = st, !.by = by]
<1>1. job[j] \in JobType
  BY DEF IInv, Shapes
<1>2. r \in JobType /\ r.st = st
  BY <1>1 DEF JobType
<1>3. job' = [job EXCEPT ![j] = r]
  OBVIOUS
<1> HIDE DEF r
<1> QED BY <1>2, <1>3, JobWritten

LEMMA AckedKeeps ==
  ASSUME IInv, NEW w \in Workers, Spent(wk[w].job), job' = Acked(w), UNCHANGED outbox
  PROVE  JobsKeep
<1>1. PICK j \in Jobs : j = wk[w].job
  BY Here
<1> DEFINE r == [job[j] EXCEPT !.st = "done", !.by = NoWorker]
<1>2. job[j] \in JobType
  BY DEF IInv, Shapes
<1>3. r \in JobType /\ r.st = "done"
  BY <1>2 DEF JobType
<1>4. CASE HoldsJob(w)
  <2>1. job' = [job EXCEPT ![j] = r] /\ job[j].st = "leased" /\ Spent(j)
    BY <1>1, <1>4 DEF Acked, HoldsJob
  <2> HIDE DEF r
  <2> QED BY <1>3, <2>1, JobWritten
<1>5. CASE ~HoldsJob(w)
  BY <1>5, JobsStill DEF Acked
<1> QED BY <1>4, <1>5

LEMMA AckSafe ==
  ASSUME IInv, NEW w \in Workers, Ack(w)
  PROVE  Safe(w)
<1> DEFINE next == wk[w].next
           on == [Goto(w, next) EXCEPT !.next = "idle"]
           row == IF next = "idle" THEN IdleWorker ELSE on
<1>1. /\ wk[w].pc = "ack" /\ job' = Acked(w) /\ wk' = [wk EXCEPT ![w] = row]
      /\ UNCHANGED <<step, run, outbox, used>>
  BY DEF Ack, At
<1>2. Claimed(wk[w]) /\ Spent(wk[w].job) /\ wk[w] \in WorkerRow
  BY <1>1, Here DEF Claimed, Past
<1>3. JobsKeep
  BY <1>1, <1>2, AckedKeeps
<1>4. RunKeeps /\ Steady
  BY <1>1, RunStill
<1>5. next \in {"idle", "sync", "execute", "wave"}
  BY <1>2 DEF WorkerRow
<1> HIDE DEF row
<1>6. RowsMove /\ AllRows /\ wk'[w] = row /\ \A v \in Workers \ {w} : Kept(v)
  BY <1>1, <1>4, Frame
<1>7. CASE next = "idle"
  <2>1. wk'[w] = IdleWorker
    BY <1>6, <1>7 DEF row
  <2> QED BY <1>3, <1>4, <1>6, <2>1, IdleArrives DEF Safe
<1>8. CASE next # "idle"
  <2>1. row = on
    BY <1>8 DEF row
  <2> HIDE DEF next
  <2>2. on \in WorkerRow /\ on.pc = next /\ on.todo = wk[w].todo /\ on.job = wk[w].job
    BY <1>2, <1>5, <1>8 DEF Goto, WorkerRow, Places, Past
  <2> HIDE DEF on
  <2>3. \A k \in wk'[w].todo : Known(k)'
    BY <1>6, <2>1, <2>2, Here, KnownStays
  <2>4. WorkerSound(w)'
    BY <1>2, <1>5, <1>6, <1>8, <2>1, <2>2, <2>3, Arrives DEF Free
  <2> QED BY <1>3, <1>4, <1>6, <2>1, <2>2, <2>4 DEF Safe
<1> QED BY <1>7, <1>8

\* Goes on to the synchronisation of the run row, with nothing to publish.
LEMMA SyncArrives ==
  ASSUME IInv, RowsMove, NEW w \in Workers, NEW row, wk'[w] = row,
         row \in WorkerRow, row.pc = "sync", row.todo = {}, row.job = wk[w].job,
         row.next \in {wk[w].next, "idle", "sync"}
  PROVE  WorkerSound(w)'
<1>1. Claimed(row) => Claimed(wk[w])
  BY DEF Claimed, Past
<1> QED BY <1>1, Arrives DEF Free

LEMMA ReleaseSafe ==
  ASSUME IInv, NEW w \in Workers, Release(w)
  PROVE  Safe(w)
<1> DEFINE retry == wk[w].todo
           j == CHOOSE x \in retry : TRUE
           on == [Goto(w, "sync") EXCEPT !.todo = {}]
           done == IF retry = {} THEN IdleWorker ELSE on
<1>1. wk[w] \in WorkerRow /\ UNCHANGED <<step, run, outbox, used>>
  BY Here DEF Release
<1>2. RunKeeps /\ Steady
  BY <1>1, RunStill
<1>3. /\ on \in WorkerRow /\ on.pc = "sync" /\ on.todo = {} /\ on.job = wk[w].job
      /\ on.next = wk[w].next
  BY <1>1 DEF Goto, WorkerRow, Places
<1>4. PICK row : /\ row \in {IdleWorker, on} /\ wk' = [wk EXCEPT ![w] = row]
                 /\ \/ job' = job
                    \/ HoldsJob(w) /\ job' = Released(w)
                    \/ retry # {} /\ job' = Published(j, TRUE)
  <2>1. done \in {IdleWorker, on}
    OBVIOUS
  <2>2. CASE HoldsJob(w) \/ retry = {}
    BY <2>1, <2>2 DEF Release
  <2>3. CASE ~(HoldsJob(w) \/ retry = {})
    BY <2>1, <2>3 DEF Release
  <2> QED BY <2>2, <2>3
<1> HIDE DEF done, on
<1>5. JobsKeep
  <2>1. CASE job' = job
    BY <1>1, <2>1, JobsStill
  <2>2. CASE HoldsJob(w) /\ job' = Released(w)
    <3>1. PICK i \in Jobs : i = wk[w].job
      BY Here
    <3>2. job[i].st # "none" /\ job' = [job EXCEPT ![i] = [@ EXCEPT !.st = "ready", !.by = NoWorker]]
      BY <2>2, <3>1 DEF HoldsJob, Released
    <3> QED BY <1>1, <3>2, LeasedKeeps
  <2>3. CASE retry # {} /\ job' = Published(j, TRUE)
    <3>1. j \in Jobs /\ Known(j)
      BY <2>3, Here
    <3> HIDE DEF j
    <3> QED BY <1>1, <2>3, <3>1, PublishedKeeps
  <2> QED BY <1>4, <2>1, <2>2, <2>3
<1>6. RowsMove /\ AllRows /\ wk'[w] = row /\ \A v \in Workers \ {w} : Kept(v)
  BY <1>1, <1>2, <1>4, Frame
<1>7. CASE row = IdleWorker
  BY <1>2, <1>5, <1>6, <1>7, IdleArrives DEF Safe
<1>8. CASE row = on
  <2>1. WorkerSound(w)'
    BY <1>3, <1>6, <1>8, SyncArrives
  <2> QED BY <1>2, <1>3, <1>5, <1>6, <1>8, <2>1 DEF Safe
<1> QED BY <1>4, <1>7, <1>8

LEMMA PublishSafe ==
  ASSUME IInv, NEW w \in Workers, Publish(w)
  PROVE  Safe(w)
<1> DEFINE j == CHOOSE x \in wk[w].todo : \A y \in wk[w].todo : x[1] <= y[1]
           rest == wk[w].todo \ {j}
           unborn == wk[w].mode = "create" /\ run.status = "queued"
           stay == [wk[w] EXCEPT !.todo = rest]
           gone == [Goto(w, "sync") EXCEPT !.todo = {}, !.changed = FALSE]
           row == IF rest = {} THEN Scheduled(w) ELSE stay
           out == IF wk[w].mode = "recover" THEN gone ELSE IdleWorker
<1>1. /\ wk[w] \in WorkerRow /\ wk[w].pc = "publish" /\ UNCHANGED <<step, outbox, used>>
      /\ wk[w].todo # {} /\ wk[w].todo \subseteq Jobs
  <2>1. wk[w] \in WorkerRow /\ wk[w].pc = "publish" /\ RowSound(w, wk[w])
    BY Here DEF Publish, At
  <2> QED BY <2>1 DEF RowSound, WorkerRow, Publish
<1>2. j \in wk[w].todo
  BY <1>1, FirstJob
<1>3. j \in Jobs /\ Known(j)
  BY <1>2, Here
<1>4. \A k \in rest : k \in wk[w].todo
  OBVIOUS
<1>5. CASE ~Refused(j, FALSE)
  <2>1. job' = Published(j, FALSE) /\ wk' = [wk EXCEPT ![w] = row] /\ UNCHANGED run
    BY <1>5 DEF Publish
  <2> HIDE DEF j
  <2>2. rest \in SUBSET Jobs
    BY <1>1
  <2> HIDE DEF rest
  <2>3. FALSE \in BOOLEAN /\ JobsKeep
    BY <1>1, <1>3, <2>1, PublishedKeeps
  <2>4. RunKeeps /\ Steady
    BY <2>1, RunStill
  <2>5. /\ stay \in WorkerRow /\ stay.pc = "publish" /\ stay.todo = rest /\ stay.job = wk[w].job
        /\ stay.next = wk[w].next
    BY <1>1, <2>2 DEF WorkerRow
  <2>6. row = Scheduled(w) \/ (row = stay /\ rest # {})
    OBVIOUS
  <2> HIDE DEF row, stay
  <2>7. RowsMove /\ AllRows /\ wk'[w] = row /\ \A v \in Workers \ {w} : Kept(v)
    BY <1>1, <2>1, <2>4, Frame
  <2>8. row \in WorkerRow /\ WorkerSound(w)'
    <3>1. CASE row = Scheduled(w)
      <4>1. row \in WorkerRow /\ row.pc = "sync" /\ row.todo = {} /\ ~Claimed(row)
        BY <3>1, ScheduledSound
      <4> QED BY <2>7, <4>1, Arrives DEF Free
    <3>2. CASE row = stay /\ rest # {}
      <4>1. \A k \in wk'[w].todo : Known(k)'
        BY <1>4, <2>5, <2>7, <3>2, Here, KnownStays
      <4>2. Claimed(row) => Claimed(wk[w])
        BY <1>1, <2>5, <3>2 DEF Claimed, Past
      <4> QED BY <2>5, <2>7, <3>2, <4>1, <4>2, Arrives DEF Free
    <3> QED BY <2>6, <3>1, <3>2
  <2> QED BY <2>3, <2>4, <2>7, <2>8 DEF Safe
<1>6. CASE Refused(j, FALSE)
  <2>1. /\ UNCHANGED job /\ wk' = [Outdate({}, unborn) EXCEPT ![w] = out]
        /\ run' = IF unborn THEN [run EXCEPT !.status = "failed"] ELSE run
    BY <1>6 DEF Publish
  <2>2. JobsKeep
    BY <1>1, <2>1, JobsStill
  <2>3. RunKeeps /\ Steady
    <3>1. run \in [status : RunStatuses, cancel : BOOLEAN]
      BY Here DEF Shapes
    <3> QED BY <2>1, <3>1 DEF RunKeeps, Steady, RunStatuses, Statuses, Terminal
  <2>4. unborn \in BOOLEAN
    OBVIOUS
  <2>5. /\ gone \in WorkerRow /\ gone.pc = "sync" /\ gone.todo = {} /\ gone.job = wk[w].job
        /\ gone.next = wk[w].next
    BY <1>1 DEF Goto, WorkerRow, Places
  <2>6. out = gone \/ out = IdleWorker
    OBVIOUS
  <2> HIDE DEF unborn, out, gone
  <2>7. RowsMove /\ AllRows /\ wk'[w] = out /\ \A v \in Workers \ {w} : Kept(v)
    BY <1>1, <2>1, <2>3, <2>4, Frame
  <2>8. CASE out = IdleWorker
    BY <2>2, <2>3, <2>7, <2>8, IdleArrives DEF Safe
  <2>9. CASE out = gone
    <3>1. WorkerSound(w)'
      BY <2>5, <2>7, <2>9, SyncArrives
    <3> QED BY <2>2, <2>3, <2>5, <2>7, <2>9, <3>1 DEF Safe
  <2> QED BY <2>6, <2>8, <2>9
<1> QED BY <1>5, <1>6

Settled(x) == [x EXCEPT !.agg = "queued", !.runFresh = FALSE, !.tries = 0]

LEMMA RowSettled ==
  ASSUME NEW x \in WorkerRow
  PROVE  LET row == Settled(x) IN
         /\ row \in WorkerRow /\ row.pc = x.pc /\ row.todo = x.todo /\ row.job = x.job
         /\ row.next = x.next /\ row.mode = x.mode /\ row.runFresh = FALSE
<1>1. "queued" \in RunStatuses /\ 0 \in 0..SyncRetries
  BY DEF RunStatuses, Statuses, Waiting, SyncRetries
<1> QED BY <1>1 DEF Settled, WorkerRow

LEMMA SyncSaveSafe ==
  ASSUME IInv, NEW w \in Workers, SyncSave(w)
  PROVE  Safe(w)
<1> DEFINE next == wk[w].next
           go == [Goto(w, next) EXCEPT !.next = "idle"]
           back == [Goto(w, "sync") EXCEPT !.next = "idle"]
           on == Settled(go)
           done == IF next = "idle" THEN IdleWorker ELSE on
           n == Goto(w, "sync").tries + 1
           again == [Goto(w, "sync") EXCEPT !.tries = n, !.agg = "queued"]
           ack == AckThen(w, "idle")
           acked == Settled(ack)
           resync == Settled(back)
           raised == IF next = "execute" THEN acked
                     ELSE IF next = "sync" /\ wk[w].mode = "recover" THEN resync
                     ELSE IdleWorker
           lost == IF wk[w].tries < SyncRetries THEN again ELSE raised
<1>1. /\ wk[w].pc = "syncSave" /\ UNCHANGED <<step, job, outbox, used>>
      /\ wk[w] \in WorkerRow
  BY Here DEF SyncSave, At
<1>2. JobsKeep
  BY <1>1, JobsStill
<1>3. \/ /\ run' = [run EXCEPT !.status = wk[w].agg]
         /\ wk' = [Outdate({}, TRUE) EXCEPT ![w] = done]
      \/ run' = run /\ wk' = [wk EXCEPT ![w] = lost]
  BY DEF SyncSave, Settled
<1>4. RunKeeps /\ Steady
  <2>1. run \in [status : RunStatuses, cancel : BOOLEAN] /\ wk[w].agg \in RunStatuses
    BY <1>1, Here DEF Shapes, WorkerRow
  <2> QED BY <1>3, <2>1 DEF RunKeeps, Steady
<1>5. PICK row : /\ \/ row = done
                    \/ row = lost
                 /\ \/ wk' = [Outdate({}, TRUE) EXCEPT ![w] = row]
                    \/ wk' = [wk EXCEPT ![w] = row]
  BY <1>3
<1>6. \/ row = IdleWorker
      \/ row = on /\ next # "idle"
      \/ row = again /\ wk[w].tries < SyncRetries
      \/ row = acked /\ next = "execute"
      \/ row = resync
  BY <1>5
<1>7. /\ next \in {"idle", "sync", "execute", "wave"} /\ wk[w].tries \in 0..SyncRetries
  BY <1>1 DEF WorkerRow
<1>8. next # "idle" => on \in WorkerRow /\ on.pc = next /\ on.todo = wk[w].todo /\ on.job = wk[w].job
                       /\ on.next = "idle"
  <2>1. next # "idle" => go \in WorkerRow /\ go.pc = next /\ go.todo = wk[w].todo
                         /\ go.job = wk[w].job /\ go.next = "idle"
    <3> HIDE DEF next
    <3> QED BY <1>1, <1>7 DEF Goto, WorkerRow, Places, Past
  <2> HIDE DEF go, next
  <2> QED BY <2>1, RowSettled
<1>9. /\ wk[w].tries < SyncRetries => again \in WorkerRow
      /\ again.pc = "sync" /\ again.todo = wk[w].todo /\ again.job = wk[w].job
      /\ again.next = next
  <2>1. wk[w].tries < SyncRetries => n \in 0..SyncRetries
    BY <1>1, <1>7 DEF SyncRetries, Goto, WorkerRow
  <2>2. "queued" \in RunStatuses
    BY DEF RunStatuses, Statuses, Waiting
  <2> HIDE DEF n
  <2> QED BY <1>1, <2>1, <2>2 DEF Goto, WorkerRow, Places
<1>10. /\ acked \in WorkerRow /\ acked.pc = "ack" /\ acked.todo = wk[w].todo /\ acked.job = wk[w].job
       /\ acked.next = "idle"
  <2>1. ack \in WorkerRow /\ ack.pc = "ack" /\ ack.todo = wk[w].todo /\ ack.job = wk[w].job
        /\ ack.next = "idle"
    BY Here, RowAck DEF Moved
  <2> HIDE DEF ack
  <2> QED BY <2>1, RowSettled
<1>11. /\ resync \in WorkerRow /\ resync.pc = "sync" /\ resync.todo = wk[w].todo
       /\ resync.job = wk[w].job /\ resync.next = "idle"
  <2>1. back \in WorkerRow /\ back.pc = "sync" /\ back.todo = wk[w].todo /\ back.job = wk[w].job
        /\ back.next = "idle"
    BY <1>1 DEF Goto, WorkerRow, Places
  <2> HIDE DEF back
  <2> QED BY <2>1, RowSettled
<1>12. next = "execute" => Claimed(wk[w])
  BY DEF Claimed
<1> HIDE DEF next, on, done, again, acked, resync, raised, lost
<1>13. RowsMove /\ AllRows /\ wk'[w] = row /\ \A v \in Workers \ {w} : Kept(v)
  <2>1. TRUE \in BOOLEAN
    OBVIOUS
  <2> QED BY <1>1, <1>4, <1>5, <2>1, Frame
<1>14. \A k \in wk[w].todo : Known(k)'
  BY <1>13, Here, KnownStays
<1>15. CASE row = IdleWorker
  BY <1>2, <1>4, <1>13, <1>15, IdleArrives DEF Safe
<1>16. CASE row # IdleWorker
  <2>1. /\ row \in WorkerRow /\ row.todo = wk[w].todo /\ row.job = wk[w].job
        /\ row.pc \in {"sync", "wave", "execute", "ack"}
        /\ Claimed(row) => Claimed(wk[w])
    <3>1. CASE row = on /\ next # "idle"
      BY <1>7, <1>8, <1>12, <3>1 DEF Claimed, Past
    <3>2. CASE row = again /\ wk[w].tries < SyncRetries
      BY <1>9, <1>12, <3>2 DEF Claimed, Past
    <3>3. CASE row = acked /\ next = "execute"
      BY <1>10, <1>12, <3>3
    <3>4. CASE row = resync
      BY <1>11, <3>4 DEF Claimed, Past
    <3> QED BY <1>6, <1>16, <3>1, <3>2, <3>3, <3>4
  <2>2. WorkerSound(w)'
    BY <1>13, <1>14, <2>1, Arrives DEF Free
  <2> QED BY <1>2, <1>4, <1>13, <2>1, <2>2 DEF Safe
<1> QED BY <1>15, <1>16

LEMMA RecoverEnqueueSafe ==
  ASSUME IInv, NEW w \in Workers, RecoverEnqueue(w)
  PROVE  Safe(w)
<1> DEFINE j == CHOOSE x \in wk[w].todo : TRUE
           rest == wk[w].plan \ {j[1]}
           row == NextRecovery(w, rest, TRUE)
<1>1. /\ wk[w] \in WorkerRow /\ UNCHANGED <<step, run, outbox, used>> /\ wk[w].todo # {}
      /\ job' = Published(j, TRUE) /\ wk' = [wk EXCEPT ![w] = row]
  <2>1. wk[w] \in WorkerRow /\ wk[w].pc = "recoverEnqueue" /\ RowSound(w, wk[w])
    BY Here DEF RecoverEnqueue, At
  <2> QED BY <2>1 DEF RowSound, RecoverEnqueue
<1>2. j \in Jobs /\ Known(j)
  BY <1>1, Here
<1>3. rest \in SUBSET Steps /\ TRUE \in BOOLEAN
  BY <1>1 DEF WorkerRow
<1> HIDE DEF j
<1>4. JobsKeep /\ RunKeeps /\ Steady
  BY <1>1, <1>2, <1>3, PublishedKeeps, RunStill
<1> HIDE DEF rest
<1>5. /\ row \in WorkerRow /\ row.pc \in {"recoverRead", "wave", "idle"}
      /\ row.pc = "recoverRead" => row.plan # {}
      /\ row.todo = {} /\ row.fresh = {}
      /\ Claimed(row) => Claimed(wk[w]) /\ row.job = wk[w].job
  BY <1>3, RecoveryGoesOn
<1> HIDE DEF row
<1>6. RowsMove /\ AllRows /\ wk'[w] = row /\ \A v \in Workers \ {w} : Kept(v)
  BY <1>1, <1>4, Frame
<1>7. WorkerSound(w)'
  BY <1>5, <1>6, Arrives DEF Free
<1> QED BY <1>4, <1>5, <1>6, <1>7 DEF Safe

LEMMA ReserveSafe ==
  ASSUME IInv, NEW w \in Workers, Reserve(w)
  PROVE  Safe(w)
<1>1. PICK j \in Jobs :
        /\ job[j].st = "ready"
        /\ job' = [job EXCEPT ![j] = [@ EXCEPT !.st = "leased", !.by = w]]
        /\ wk' = [wk EXCEPT ![w] = [IdleWorker EXCEPT !.pc = "inspect", !.job = j]]
  BY DEF Reserve
<1> DEFINE row == [IdleWorker EXCEPT !.pc = "inspect", !.job = j]
<1>2. UNCHANGED <<step, run, outbox, used>>
  BY DEF Reserve
<1>3. JobsKeep
  BY <1>1, <1>2, LeasedKeeps
<1>4. RunKeeps /\ Steady
  BY <1>2, RunStill
<1>5. /\ row \in WorkerRow /\ row.pc = "inspect" /\ row.job = j /\ row.todo = {}
      /\ row.fresh = {} /\ row.next = "idle"
  BY IdleIsRow DEF IdleWorker, WorkerRow, Places
<1> HIDE DEF row
<1>6. RowsMove /\ AllRows /\ wk'[w] = row /\ \A v \in Workers \ {w} : Kept(v)
  BY <1>1, <1>2, <1>4, Frame DEF row
<1>7. Known(j)'
  <2>1. Known(j)
    BY <1>1, Here DEF JobsSound
  <2> QED BY <1>6, <2>1, Here, KnownStays
<1>8. WorkerSound(w)'
  BY <1>5, <1>6, <1>7 DEF WorkerSound, RowSound, Claimed, Past
<1> QED BY <1>3, <1>4, <1>5, <1>6, <1>8 DEF Safe

LEMMA CrashSafe ==
  ASSUME IInv, NEW w \in Workers, Crash(w)
  PROVE  Safe(w)
<1>1. /\ wk' = [wk EXCEPT ![w] = IdleWorker] /\ UNCHANGED <<step, run, job, outbox>>
      /\ used' = [used EXCEPT !.crash = @ + 1]
  BY DEF Crash
<1>2. JobsKeep /\ RunKeeps /\ Steady /\ Shapes
  BY <1>1, JobsStill, RunStill, Here
<1>3. AllRows /\ wk'[w] = IdleWorker /\ \A v \in Workers \ {w} : Outdated(v, {})
  BY <1>1, <1>2, OneWorker
<1>4. \A s \in Steps : Same(s)
  BY <1>1 DEF Same, KeepsAttempts, KeepsFlag
<1>5. RowsMove
  <2>1. used' \in [crash : Nat, lapse : Nat, call : 0..MaxCalls] /\ used'.call >= used.call
    BY <1>1, <1>2, BoundAssumption DEF Shapes
  <2>2. step' \in [Steps -> StepRowType]
    BY <1>1, <1>2 DEF Shapes
  <2> QED BY <1>2, <1>4, <2>1, <2>2 DEF RowsMove
<1>6. \A v \in Workers \ {w} : Kept(v)
  <2>1. \A v \in Workers : wk[v] \in WorkerRow
    BY <1>2 DEF Shapes
  <2> QED BY <1>2, <1>3, <1>4, <2>1, KeptSame
<1>7. wk'[w] \in WorkerRow /\ WorkerSound(w)'
  BY <1>3, <1>5, IdleArrives
<1> QED BY <1>2, <1>3, <1>5, <1>6, <1>7 DEF Safe

-----------------------------------------------------------------------------
(* The control API, time, and the whole.                                   *)

\* A step no worker takes.
Aside ==
  /\ RowsMove /\ JobsKeep /\ RunKeeps /\ AllRows
  /\ \A v \in Workers : Kept(v)

LEMMA KeptOutside ==
  ASSUME NEW v \in Workers, wk[v] \in WorkerRow, NEW S \in SUBSET Steps, Outdated(v, S),
         \A s \in Steps \ S : step[s].st \in Waiting \union {"running"} => step'[s] = step[s] /\ Steady,
         \A s \in S : step'[s].st # step[s].st \/ step[s].st = "running" \/ run'.cancel,
         \A s \in Steps : step'[s].st = "running"
           => step[s].st = "running" /\ step'[s].lease = step[s].lease
  PROVE  Kept(v)
<1> DEFINE lost == wk[v].fresh \ wk'[v].fresh
<1>1. wk'[v].fresh = wk[v].fresh \ S /\ wk[v].fresh \subseteq Steps
  BY DEF Outdated, WorkerRow
<1>2. wk[v].fresh \ lost = wk'[v].fresh
  BY <1>1
<1> HIDE DEF lost
<1>3. Outdated(v, lost)
  BY <1>1, <1>2 DEF Outdated
<1>4. lost \subseteq S
  BY <1>1 DEF lost
<1> QED BY <1>1, <1>3, <1>4 DEF Kept, lost

LEMMA OutdateAll ==
  ASSUME Shapes, NEW S \in SUBSET Steps, NEW b \in BOOLEAN, wk' = Outdate(S, b)
  PROVE  AllRows /\ \A v \in Workers : Outdated(v, S) /\ wk'[v].runFresh = (wk[v].runFresh /\ ~b)
<1>1. AllRows
  BY DEF Outdate, AllRows
<1>2. \A v \in Workers : wk'[v] = Outdate(S, b)[v]
  OBVIOUS
<1> QED BY <1>1, <1>2, OutdateRows

LEMMA Quietly ==
  ASSUME IInv, wk' = wk, Steady, \A s \in Steps : Same(s)
  PROVE  AllRows /\ \A v \in Workers : Kept(v)
<1>1. Shapes /\ \A v \in Workers : wk[v] \in WorkerRow
  BY DEF IInv, Shapes
<1>2. AllRows
  BY <1>1 DEF Shapes, AllRows
<1>3. \A v \in Workers : Outdated(v, {})
  BY <1>1, SameRow
<1> QED BY <1>1, <1>2, <1>3, KeptSame

LEMMA CallCounts ==
  ASSUME Shapes, Call
  PROVE  /\ used' \in [crash : Nat, lapse : Nat, call : 0..MaxCalls]
         /\ used'.call = used.call + 1 /\ used.call < MaxCalls /\ used.call \in Nat
         /\ MaxCalls \in Nat
BY BoundAssumption DEF Shapes, Call

LEMMA ApiCancelAside ==
  ASSUME IInv, ApiCancel
  PROVE  Aside
<1> DEFINE open == {s \in Rows(step) : step[s].st \notin Terminal}
           a == IF Rows(step) = {} THEN "cancelled" ELSE Aggregate(step')
<1>1. /\ step' = [s \in Steps |-> IF s \in open THEN RequestCancellation(step[s]) ELSE step[s]]
      /\ run' = [status |-> a, cancel |-> TRUE] /\ wk' = Outdate(open, TRUE)
      /\ UNCHANGED <<job, outbox>> /\ Call
  BY DEF ApiCancel
<1>2. Shapes
  BY DEF IInv
<1>3. /\ open \subseteq Steps
      /\ \A s \in Steps : s \in open <=> step[s].st \in {"running", "awaiting_review"} \union Waiting
  <2>1. \A s \in Steps : step[s].st \in Statuses
    BY <1>2 DEF Shapes, StepRowType
  <2> QED BY <2>1 DEF Rows, Statuses, Terminal, Waiting
<1>4. JobsKeep
  BY <1>1, JobsStill
<1>5. RunKeeps /\ run'.cancel
  <2>1. a \in RunStatuses
    <3>1. Aggregate(step') \in RunStatuses
      BY AggregateIsStatus
    <3> QED BY <3>1 DEF RunStatuses, Statuses, Terminal
  <2> HIDE DEF a
  <2> QED BY <1>1, <2>1 DEF RunKeeps
<1> HIDE DEF open
<1>6. ASSUME NEW s \in Steps
      PROVE  /\ step'[s] \in StepRowType /\ KeepsAttempts(s)
             /\ step'[s].st = IF step[s].st \in {"queued", "retrying", "awaiting_review"}
                              THEN "cancelled" ELSE step[s].st
             /\ s \notin open => step'[s] = step[s]
             /\ step[s].st = "running" => step'[s].lease = step[s].lease
  <2>1. step[s] \in StepRowType
    BY <1>2 DEF Shapes
  <2>2. CASE s \in open
    <3>1. step'[s] = RequestCancellation(step[s])
      BY <1>1, <2>2
    <3>2. step[s].st = "running" => RequestCancellation(step[s]).lease = step[s].lease
      BY <2>1 DEF RequestCancellation, StepRowType
    <3> QED BY <1>3, <2>1, <2>2, <3>1, <3>2, RowWithdrawn DEF KeepsAttempts, Waiting
  <2>3. CASE s \notin open
    BY <1>1, <1>3, <2>1, <2>3 DEF KeepsAttempts, Waiting
  <2> QED BY <2>2, <2>3
<1>7. RowsMove
  <2>1. step' \in [Steps -> StepRowType]
    BY <1>1, <1>6
  <2>2. Stops
    BY <1>5, <1>6 DEF Stops
  <2>3. used' \in [crash : Nat, lapse : Nat, call : 0..MaxCalls] /\ used'.call >= used.call
    BY <1>1, <1>2, CallCounts
  <2> QED BY <2>1, <2>2, <2>3 DEF RowsMove
<1>8. TRUE \in BOOLEAN /\ AllRows /\ \A v \in Workers : Outdated(v, open)
  BY <1>1, <1>2, <1>3, OutdateAll
<1>9. ASSUME NEW v \in Workers PROVE Kept(v)
  <2>1. wk[v] \in WorkerRow
    BY <1>2 DEF Shapes
  <2>2. \A s \in Steps \ open : step[s].st \notin Waiting \union {"running"}
    BY <1>3
  <2>3. \A s \in Steps : step'[s].st = "running" => step[s].st = "running" /\ step'[s].lease = step[s].lease
    BY <1>6
  <2> QED BY <1>3, <1>5, <1>8, <2>1, <2>2, <2>3, KeptOutside
<1> QED BY <1>4, <1>5, <1>7, <1>8, <1>9 DEF Aside

LEMMA ApiRetryAside ==
  ASSUME IInv, NEW s \in Steps, ApiRetry(s)
  PROVE  Aside
<1> DEFINE revived == {t \in Downstream(s) : step[t].st = "cancelled"}
           again(r, status) == [r EXCEPT !.st = status, !.due = TRUE, !.flag = FALSE]
           k == <<s, step[s].att + 1>>
<1>1. /\ step[s].st = "failed" /\ ~run.cancel /\ Call
      /\ step' = [t \in Steps |->
           IF t = s THEN [again(step[s], "retrying") EXCEPT
                            !.max = IF @ > step[s].att THEN @ ELSE step[s].att + 1]
           ELSE IF t \in revived THEN again(step[t], "queued") ELSE step[t]]
      /\ run' = [run EXCEPT !.status = Aggregate(step')]
      /\ outbox' = outbox \union {k}
      /\ wk' = Outdate(revived \union {s}, TRUE)
      /\ UNCHANGED job
  BY DEF ApiRetry
<1>2. Shapes /\ AttemptsOf(s) /\ DepsSucceeded(s)
  BY <1>1 DEF IInv, Attempts, Started
<1>3. /\ used' \in [crash : Nat, lapse : Nat, call : 0..MaxCalls]
      /\ used'.call = used.call + 1 /\ used.call < MaxCalls /\ used.call \in Nat
      /\ MaxCalls \in Nat
  BY <1>1, <1>2, CallCounts
<1>4. RunKeeps /\ Steady
  <2>1. Aggregate(step') \in RunStatuses
    BY AggregateIsStatus
  <2>2. run \in [status : RunStatuses, cancel : BOOLEAN]
    BY <1>2 DEF Shapes
  <2> QED BY <1>1, <2>1, <2>2 DEF RunKeeps, Steady
<1>5. revived \subseteq Steps /\ s \notin revived /\ \A t \in Steps : t \in revived <=> t \in Downstream(s) /\ step[t].st = "cancelled"
  BY <1>1 DEF Downstream
<1>6. /\ step[s].att \in Nat /\ step[s].max \in Nat /\ MaxAttempts \in Nat /\ step[s] \in StepRowType
      /\ step[s].att <= step[s].max /\ step[s].max <= MaxAttempts + used.call
  BY <1>2, BoundAssumption DEF Shapes, StepRowType, AttemptsOf
<1>7. ASSUME NEW r \in StepRowType, NEW status \in Waiting
      PROVE  /\ again(r, status) \in StepRowType /\ again(r, status).st = status
             /\ again(r, status).att = r.att /\ again(r, status).max = r.max
             /\ ~again(r, status).flag
  BY <1>7 DEF StepRowType, Statuses
<1> HIDE DEF revived, again
<1>8. /\ step'[s] \in StepRowType /\ step'[s].st = "retrying" /\ ~step'[s].flag
      /\ step'[s].att = step[s].att /\ step'[s].att < step'[s].max
      /\ step'[s].max <= MaxAttempts + used.call + 1
  <2> DEFINE r == again(step[s], "retrying")
             m == IF r.max > step[s].att THEN r.max ELSE step[s].att + 1
  <2>1. /\ r \in StepRowType /\ r.st = "retrying" /\ r.att = step[s].att
        /\ r.max = step[s].max /\ ~r.flag
    BY <1>6, <1>7 DEF Waiting
  <2>2. step'[s] = [r EXCEPT !.max = m]
    BY <1>1
  <2> HIDE DEF r
  <2>3. m \in Nat /\ step[s].att < m /\ m <= MaxAttempts + used.call + 1
    BY <1>3, <1>6, <2>1
  <2> HIDE DEF m
  <2>4. /\ step'[s] \in StepRowType /\ step'[s].st = "retrying" /\ ~step'[s].flag
        /\ step'[s].att = step[s].att /\ step'[s].max = m
    BY <2>1, <2>2, <2>3 DEF StepRowType
  <2> QED BY <2>3, <2>4
<1>9. ASSUME NEW t \in Steps \ {s}
      PROVE  /\ t \in revived => /\ step'[t] \in StepRowType /\ step'[t].st = "queued"
                                 /\ ~step'[t].flag /\ KeepsAttempts(t)
             /\ t \notin revived => step'[t] = step[t]
  <2>1. step[t] \in StepRowType
    BY <1>2 DEF Shapes
  <2>2. t \in revived => step'[t] = again(step[t], "queued")
    BY <1>1
  <2>3. t \notin revived => step'[t] = step[t]
    BY <1>1
  <2> QED BY <1>7, <2>1, <2>2, <2>3 DEF KeepsAttempts, Waiting
<1>10. RowsMove
  <2>1. step' \in [Steps -> StepRowType]
    <3>1. \A t \in Steps : step'[t] \in StepRowType
      BY <1>2, <1>8, <1>9 DEF Shapes
    <3> QED BY <1>1, <3>1
  <2>2. Reopens(s)
    BY <1>1, <1>3, <1>4, <1>5, <1>8, <1>9 DEF Reopens
  <2> QED BY <1>3, <2>1, <2>2 DEF RowsMove
<1>11. JobsKeep
  <2>1. k \in Jobs
    <3>1. step[s].att + 1 \in 1..(MaxAttempts + MaxCalls)
      BY <1>3, <1>6
    <3> QED BY <3>1 DEF Jobs
  <2>2. PICK a \in Nat : a = step[s].att + 1
    BY <1>6
  <2>3. DepsSucceeded(s)'
    BY <1>2, <1>10, DepsStay DEF IInv
  <2>4. Known(<<s, a>>)'
    BY <1>8, <2>2, <2>3 DEF Known, Waiting
  <2>5. k = <<s, a>>
    BY <2>2
  <2> HIDE DEF k
  <2>6. \A j \in outbox' : j \in outbox \/ Known(j)'
    BY <1>1, <2>4, <2>5
  <2> QED BY <1>1, <1>2, <2>1, <2>6 DEF JobsKeep, Shapes
<1>12. /\ TRUE \in BOOLEAN /\ revived \union {s} \in SUBSET Steps
       /\ AllRows /\ \A v \in Workers : Outdated(v, revived \union {s})
  BY <1>1, <1>2, <1>5, OutdateAll
<1>13. ASSUME NEW v \in Workers PROVE Kept(v)
  <2>1. wk[v] \in WorkerRow
    BY <1>2 DEF Shapes
  <2>2. \A t \in Steps \ (revived \union {s}) : step'[t] = step[t] /\ Steady
    BY <1>4, <1>9
  <2>3. \A t \in revived \union {s} : step'[t].st # step[t].st /\ step'[t].st # "running"
    BY <1>1, <1>5, <1>8, <1>9
  <2> QED BY <1>12, <2>1, <2>2, <2>3, KeptOutside
<1> QED BY <1>4, <1>10, <1>11, <1>12, <1>13 DEF Aside

LEMMA ApiReviewAside ==
  ASSUME IInv, NEW s \in Steps, ApiReview(s)
  PROVE  Aside
<1>1. PICK new \in {FinishStep(step[s], "succeeded"), FailStep(step[s], TRUE), FailStep(step[s], FALSE)} :
        step' = [step EXCEPT ![s] = new]
  BY DEF ApiReview
<1>2. /\ step[s].st = "awaiting_review" /\ ~run.cancel /\ Call
      /\ run' = [run EXCEPT !.status = Aggregate(step')]
      /\ wk' = Outdate({s}, TRUE) /\ UNCHANGED <<job, outbox>>
  BY DEF ApiReview
<1>3. Shapes
  BY DEF IInv
<1>4. RunKeeps /\ Steady
  <2>1. Aggregate(step') \in RunStatuses
    BY AggregateIsStatus
  <2>2. run \in [status : RunStatuses, cancel : BOOLEAN]
    BY <1>3 DEF Shapes
  <2> QED BY <1>2, <2>1, <2>2 DEF RunKeeps, Steady
<1>5. \/ Becomes(new, step[s], "succeeded")
      \/ Becomes(new, step[s], "failed")
      \/ Becomes(new, step[s], "retrying") /\ step[s].att < step[s].max
  <2>1. step[s] \in StepRowType
    BY <1>3 DEF Shapes
  <2>2. CASE new = FinishStep(step[s], "succeeded")
    BY <2>1, <2>2, RowFinished DEF Statuses, Terminal
  <2>3. ASSUME NEW retry \in BOOLEAN, new = FailStep(step[s], retry)
        PROVE  \/ Becomes(new, step[s], "failed")
               \/ Becomes(new, step[s], "retrying") /\ step[s].att < step[s].max
    BY <2>1, <2>3, RowFailed
  <2> QED BY <1>1, <2>2, <2>3
<1>6. step'[s] = new /\ Only(s)
  BY <1>1, <1>3 DEF Shapes, Only
<1>7. RowsMove
  <2>1. step' \in [Steps -> StepRowType]
    BY <1>1, <1>3, <1>5 DEF Shapes, Becomes
  <2>2. OneMoves(s)
    BY <1>2, <1>4, <1>5, <1>6 DEF OneMoves, Delivers, Fails, Becomes, KeepsAttempts, KeepsFlag
  <2>3. used' \in [crash : Nat, lapse : Nat, call : 0..MaxCalls] /\ used'.call >= used.call
    BY <1>2, <1>3, CallCounts
  <2> QED BY <2>1, <2>2, <2>3 DEF RowsMove
<1>8. JobsKeep
  BY <1>2, JobsStill
<1>9. {s} \in SUBSET Steps /\ TRUE \in BOOLEAN /\ AllRows /\ \A v \in Workers : Outdated(v, {s})
  BY <1>2, <1>3, OutdateAll
<1>10. ASSUME NEW v \in Workers PROVE Kept(v)
  <2>1. wk[v] \in WorkerRow
    BY <1>3 DEF Shapes
  <2>2. step'[s].st # step[s].st /\ step'[s].st # "running"
    BY <1>2, <1>5, <1>6 DEF Becomes
  <2> QED BY <1>4, <1>6, <1>9, <2>1, <2>2, KeptOne
<1> QED BY <1>4, <1>7, <1>8, <1>9, <1>10 DEF Aside

LEMMA ApiPublishAside ==
  ASSUME IInv, ApiPublish
  PROVE  Aside
<1>1. PICK j \in outbox : outbox' = outbox \ {j} /\ job' \in {Published(j, FALSE), job}
  BY DEF ApiPublish
<1>2. UNCHANGED <<step, run, wk, used>>
  BY DEF ApiPublish
<1>3. Shapes /\ JobsSound
  BY DEF IInv
<1>4. j \in Jobs /\ Known(j)
  BY <1>3 DEF Shapes, JobsSound
<1>5. RunKeeps /\ Steady /\ RowsMove /\ \A s \in Steps : Same(s)
  BY <1>2, <1>3, RunStill, SameMoves DEF Same, KeepsAttempts, KeepsFlag
<1>6. AllRows /\ \A v \in Workers : Kept(v)
  BY <1>2, <1>5, Quietly
<1>7. JobsKeep
  <2>1. /\ job' \in [Jobs -> JobType]
        /\ \A i \in Jobs : /\ job'[i].st # "none" => job[i].st # "none" \/ Known(i)
                           /\ job'[i].st = "done" => job[i].st = "done"
    <3>1. CASE job' = job
      BY <1>3, <3>1 DEF Shapes
    <3>2. CASE job' = Published(j, FALSE)
      <4> DEFINE r == [st |-> "ready", by |-> NoWorker, late |-> FALSE]
      <4>1. r \in JobType /\ r.st = "ready"
        BY DEF JobType
      <4>2. job' = job \/ job' = [job EXCEPT ![j] = r]
        BY <3>2 DEF Published
      <4> HIDE DEF r
      <4> QED BY <1>3, <1>4, <4>1, <4>2 DEF Shapes
    <3> QED BY <1>1, <3>1, <3>2
  <2>2. outbox' \subseteq outbox /\ outbox \subseteq Jobs
    BY <1>1, <1>3 DEF Shapes
  <2> QED BY <2>1, <2>2 DEF JobsKeep
<1> QED BY <1>5, <1>6, <1>7 DEF Aside

LEMMA JobLeaseLapsesAside ==
  ASSUME IInv, NEW j \in Jobs, JobLeaseLapses(j)
  PROVE  Aside
<1>1. /\ UNCHANGED <<step, run, outbox, wk>> /\ job[j].st = "leased"
      /\ job' = [job EXCEPT ![j] = [@ EXCEPT !.st = "ready", !.by = NoWorker]]
  BY DEF JobLeaseLapses
<1>2. Shapes
  BY DEF IInv
<1>3. JobsKeep
  BY <1>1, LeasedKeeps
<1>4. RunKeeps /\ Steady /\ \A s \in Steps : Same(s)
  BY <1>1, RunStill DEF Same, KeepsAttempts, KeepsFlag
<1>5. AllRows /\ \A v \in Workers : Kept(v)
  BY <1>1, <1>4, Quietly
<1>6. RowsMove
  <2>1. used' \in [crash : Nat, lapse : Nat, call : 0..MaxCalls] /\ used'.call >= used.call
    BY <1>2, BoundAssumption DEF JobLeaseLapses, Lapse, Shapes
  <2>2. step' \in [Steps -> StepRowType]
    BY <1>1, <1>2 DEF Shapes
  <2> QED BY <1>4, <2>1, <2>2 DEF RowsMove
<1> QED BY <1>3, <1>4, <1>5, <1>6 DEF Aside

\* Time passes for one step.
LEMMA Ticks ==
  ASSUME IInv, NEW s \in Steps, StepLeaseLapses(s) \/ StepBecomesDue(s)
  PROVE  Aside
<1>1. Shapes /\ UNCHANGED <<run, job, outbox, wk>>
  BY DEF IInv, StepLeaseLapses, StepBecomesDue
<1>2. step[s] \in StepRowType
  BY <1>1 DEF Shapes
<1>3. PICK r \in StepRowType :
        /\ step' = [step EXCEPT ![s] = r] /\ r.st = step[s].st /\ r.lease = step[s].lease
        /\ r.att = step[s].att /\ r.max = step[s].max /\ r.flag = step[s].flag
  <2>1. CASE StepLeaseLapses(s)
    <3> DEFINE r == [step[s] EXCEPT !.exp = TRUE]
    <3>1. step' = [step EXCEPT ![s] = r]
      BY <2>1 DEF StepLeaseLapses
    <3>2. /\ r \in StepRowType /\ r.st = step[s].st /\ r.lease = step[s].lease
          /\ r.att = step[s].att /\ r.max = step[s].max /\ r.flag = step[s].flag
      BY <1>2 DEF StepRowType
    <3> HIDE DEF r
    <3> QED BY <3>1, <3>2
  <2>2. CASE StepBecomesDue(s)
    <3> DEFINE r == [step[s] EXCEPT !.due = TRUE]
    <3>1. step' = [step EXCEPT ![s] = r]
      BY <2>2 DEF StepBecomesDue
    <3>2. /\ r \in StepRowType /\ r.st = step[s].st /\ r.lease = step[s].lease
          /\ r.att = step[s].att /\ r.max = step[s].max /\ r.flag = step[s].flag
      BY <1>2 DEF StepRowType
    <3> HIDE DEF r
    <3> QED BY <3>1, <3>2
  <2> QED BY <2>1, <2>2
<1>4. step' \in [Steps -> StepRowType] /\ \A t \in Steps : Same(t)
  BY <1>1, <1>3 DEF Shapes, Same, KeepsAttempts, KeepsFlag
<1>5. JobsKeep /\ RunKeeps /\ Steady
  BY <1>1, JobsStill, RunStill
<1>6. AllRows /\ \A v \in Workers : Kept(v)
  BY <1>1, <1>4, <1>5, Quietly
<1>7. RowsMove
  <2>1. used' \in [crash : Nat, lapse : Nat, call : 0..MaxCalls] /\ used'.call >= used.call
    BY <1>1, BoundAssumption DEF StepLeaseLapses, StepBecomesDue, Lapse, Shapes
  <2> QED BY <1>4, <1>5, <2>1 DEF RowsMove
<1> QED BY <1>5, <1>6, <1>7 DEF Aside

LEMMA InitIInv ==
  Init => IInv
<1> SUFFICES ASSUME Init PROVE IInv
  OBVIOUS
<1>1. \A s \in Steps : /\ step[s] \in StepRowType /\ step[s].st \in {"queued", "absent"}
                       /\ step[s].att = 0 /\ step[s].max = MaxAttempts /\ ~step[s].flag
  BY BoundAssumption, WorkerAssumption DEF Init, StepRow, StepRowType, Statuses, Waiting
<1>2. \A w \in Workers : wk[w] = IdleWorker
  BY DEF Init
<1>3. \A j \in Jobs : job[j] \in JobType /\ job[j].st = "none"
  BY DEF Init, FreeJob, JobType
<1>4. Shapes
  <2>1. step \in [Steps -> StepRowType]
    BY <1>1 DEF Init
  <2>2. job \in [Jobs -> JobType]
    BY <1>3 DEF Init
  <2>3. wk \in [Workers -> WorkerRow]
    BY IdleIsRow DEF Init
  <2>4. run \in [status : RunStatuses, cancel : BOOLEAN] /\ outbox \subseteq Jobs
    BY DEF Init, RunStatuses, Statuses, Waiting
  <2>5. used \in [crash : Nat, lapse : Nat, call : 0..MaxCalls]
    BY BoundAssumption DEF Init
  <2> QED BY <2>1, <2>2, <2>3, <2>4, <2>5 DEF Shapes
<1>5. Attempts
  BY <1>1, BoundAssumption DEF Init, Attempts, AttemptsOf
<1>6. Flags /\ Started /\ JobsSound
  BY <1>1, <1>3 DEF Flags, Started, JobsSound, Init
<1>7. \A w \in Workers : WorkerSound(w)
  BY <1>2, IdleSound DEF WorkerSound
<1> QED BY <1>4, <1>5, <1>6, <1>7 DEF IInv

LEMMA EveryWorkerStep ==
  ASSUME IInv, NEW w \in Workers,
         WorkerStep(w) \/ Reserve(w) \/ Recover(w) \/ CreateRun(w) \/ Crash(w)
  PROVE  Safe(w)
BY AckSafe, ReleaseSafe, InspectSafe, CancelQueuedSafe, ClaimSafe, CheckpointSafe,
   StepRaisesSafe, HeartbeatReadSafe, HeartbeatSaveSafe, RecheckSafe, FinishSafe,
   FinishConflictSafe, CancelReadSafe, CancelSaveSafe, FailReadSafe, FailSaveSafe, WaveSafe,
   WaveSaveSafe, ReadyListSafe, PublishSafe, SyncReadSafe, SyncSaveSafe,
   RecoverAfterLossSafe, RecoverReadSafe, RecoverSaveSafe, RecoverEnqueueSafe,
   InsertStepSafe, ReserveSafe, RecoverSafe, CreateRunSafe, CrashSafe DEF WorkerStep

LEMMA EveryOtherStep ==
  ASSUME IInv,
         \/ \E s \in Steps : ApiRetry(s) \/ ApiReview(s) \/ StepLeaseLapses(s) \/ StepBecomesDue(s)
         \/ \E j \in Jobs : JobLeaseLapses(j)
         \/ ApiCancel
         \/ ApiPublish
  PROVE  Aside
BY ApiRetryAside, ApiReviewAside, Ticks, JobLeaseLapsesAside, ApiCancelAside, ApiPublishAside

\* The inductive step.
LEMMA IInvStep ==
  ASSUME IInv, [Next]_vars
  PROVE  IInv' /\ RowsMove
<1>1. CASE Aside
  BY <1>1, Preserved DEF Aside
<1>2. ASSUME NEW w \in Workers, Safe(w)
      PROVE  IInv' /\ RowsMove
  BY <1>2, Preserved DEF Safe
<1>3. CASE UNCHANGED vars
  <2>1. UNCHANGED <<step, run, job, outbox, wk, used>>
    BY <1>3 DEF vars
  <2>2. Shapes
    BY DEF IInv
  <2>3. JobsKeep /\ RunKeeps /\ Steady /\ RowsMove /\ \A s \in Steps : Same(s)
    BY <2>1, <2>2, JobsStill, RunStill, SameMoves DEF Same, KeepsAttempts, KeepsFlag
  <2>4. AllRows /\ \A v \in Workers : Kept(v)
    BY <2>1, <2>3, Quietly
  <2> QED BY <2>3, <2>4, Preserved
<1> QED BY <1>1, <1>2, <1>3, EveryWorkerStep, EveryOtherStep DEF Next

-----------------------------------------------------------------------------
(* The scheduler implements StepLifecycle.                                 *)

St == [s \in Steps |-> step[s].st]
Att == [s \in Steps |-> step[s].att]

LEMMA InitMaps ==
  Init => Lifecycle!Init
<1> SUFFICES ASSUME Init PROVE Lifecycle!Init
  OBVIOUS
<1>1. \A s \in Steps : step[s].st \in {"absent", "queued"} /\ step[s].att = 0
  BY DEF Init, StepRow
<1>2. run.cancel = FALSE
  BY DEF Init
<1> QED BY <1>1, <1>2 DEF Lifecycle!Init

\* One row that moves is one step of the lifecycle.
LEMMA OneMoveMaps ==
  ASSUME Shapes, Attempts, NEW s \in Steps, OneMoves(s)
  PROVE  Lifecycle!Start(s) \/ Lifecycle!Move(s)
<1>1. Only(s) /\ run'.cancel = run.cancel
  BY DEF OneMoves, Steady
<1>2. St' = [St EXCEPT ![s] = step'[s].st]
  BY <1>1 DEF Only, St
<1>3. CASE Starts(s)
  <2>1. Att' = [Att EXCEPT ![s] = @ + 1]
    BY <1>1, <1>3 DEF Only, Att, Starts
  <2>2. step[s].st \in {"queued", "retrying"} /\ ~run.cancel /\ step'[s].st = "running"
    BY <1>3 DEF Starts, Waiting
  <2>3. \A d \in Deps[s] : step[d].st = "succeeded" /\ d \in Steps
    BY <1>3, GraphAssumption DEF Starts, DepsSucceeded, Succeeded
  <2>4. Lifecycle!Start(s)
    BY <1>1, <1>2, <2>1, <2>2, <2>3 DEF Lifecycle!Start, St, Att
  <2> QED BY <2>4
<1>4. CASE ~Starts(s)
  <2>1. step'[s].att = step[s].att
    <3>1. Inserts(s) => step[s].att = 0 /\ step'[s].att = 0
      BY DEF Inserts, Attempts, AttemptsOf
    <3> QED BY <1>4, <3>1 DEF OneMoves, Withdraws, Delivers, Fails, Cancels, KeepsAttempts
  <2>2. Att' = Att
    BY <1>1, <2>1 DEF Only, Att
  <2>3. /\ step'[s].st \in Lifecycle!Allowed[step[s].st]
        /\ run.cancel => step'[s].st \notin {"succeeded", "awaiting_review"}
    BY <1>4 DEF OneMoves, Inserts, Withdraws, Delivers, Fails, Cancels, Waiting, Lifecycle!Allowed
  <2>4. Lifecycle!Move(s)
    <3>1. St[s] = step[s].st
      BY DEF St
    <3> QED BY <1>1, <1>2, <2>2, <2>3, <3>1 DEF Lifecycle!Move, St, Att
  <2> QED BY <2>4
<1> QED BY <1>3, <1>4

LEMMA StopsMaps ==
  ASSUME Stops
  PROVE  Lifecycle!Stop
BY DEF Stops, KeepsAttempts, Lifecycle!Stop

LEMMA ReopensMaps ==
  ASSUME NEW s \in Steps, Reopens(s)
  PROVE  Lifecycle!Reopen(s)
<1>1. Downstream(s) = Lifecycle!Behind(s)
  BY DEF Downstream, Lifecycle!Behind
<1> DEFINE behind == {t \in Downstream(s) : step[t].st = "cancelled"}
<1>2. Downstream(s) \subseteq Steps
  BY DEF Downstream
<1>3. behind \in SUBSET {t \in Lifecycle!Behind(s) : St[t] = "cancelled"}
  BY <1>1, <1>2 DEF St
<1>4. \A t \in Steps : /\ step'[t].st = IF t = s THEN "retrying"
                                       ELSE IF t \in behind THEN "queued" ELSE step[t].st
                      /\ step'[t].att = step[t].att
  BY DEF Reopens, KeepsAttempts
<1>5. step[s].st = "failed" /\ ~run.cancel /\ run'.cancel = run.cancel
  BY DEF Reopens, Steady
<1> HIDE DEF behind
<1>6. St' = [t \in Steps |-> IF t = s THEN "retrying" ELSE IF t \in behind THEN "queued" ELSE St[t]]
  BY <1>4 DEF St
<1>7. Att' = Att
  BY <1>4 DEF Att
<1> QED BY <1>3, <1>5, <1>6, <1>7 DEF Lifecycle!Reopen, St, Att

LEMMA StepMaps ==
  ASSUME IInv, RowsMove
  PROVE  [Lifecycle!Next]_(Lifecycle!vars)
<1>1. CASE Steady /\ \A s \in Steps : Same(s)
  BY <1>1 DEF Steady, Same, KeepsAttempts, Lifecycle!vars
<1>2. ASSUME NEW s \in Steps, OneMoves(s)
      PROVE  Lifecycle!Next
  BY <1>2, OneMoveMaps DEF IInv, Lifecycle!Next
<1>3. ASSUME NEW s \in Steps, Reopens(s)
      PROVE  Lifecycle!Next
  BY <1>3, ReopensMaps DEF Lifecycle!Next
<1>4. CASE Stops
  BY <1>4, StopsMaps DEF Lifecycle!Next
<1> QED BY <1>1, <1>2, <1>3, <1>4 DEF RowsMove

-----------------------------------------------------------------------------
(* Who commits a result, and who writes the row of the run.                *)

NoResult ==
  \A s \in Steps : step[s].st = "running" /\ step'[s].st \in {"succeeded", "awaiting_review"}
                   => step[s].st = step'[s].st

LEMMA SavedNoResult ==
  ASSUME Shapes, NEW w \in Workers, NEW s \in Steps, NEW new, NEW won, NEW lost,
         SaveStep(w, s, new, won, lost),
         s \in wk[w].fresh => new.st \notin {"succeeded", "awaiting_review"}
  PROVE  NoResult
BY DEF SaveStep, Shapes, NoResult

LEMMA StillNoResult ==
  ASSUME UNCHANGED step
  PROVE  NoResult
BY DEF NoResult

\* Everything a worker does apart from committing what it made.
LEMMA WorkerNoResult ==
  ASSUME IInv, NEW w \in Workers,
         WorkerStep(w) \/ Reserve(w) \/ Recover(w) \/ CreateRun(w) \/ Crash(w),
         ~Finish(w)
  PROVE  NoResult
<1> DEFINE s == Mine(w)
           t == Min(wk[w].plan)
<1>1. Shapes /\ wk[w] \in WorkerRow /\ wk[w].job \in Jobs /\ s \in Steps /\ step[s] \in StepRowType
  <2>1. Shapes /\ wk[w] \in WorkerRow /\ wk[w].job \in Jobs
    BY Here DEF WorkerRow
  <2>2. s \in Steps
    BY <2>1 DEF Mine, Jobs
  <2> QED BY <2>1, <2>2 DEF Shapes
<1>2. wk[w].pc \in {"waveSave", "recoverSave", "insert"} => t \in Steps /\ step[t] \in StepRowType
  <2>1. RowSound(w, wk[w]) /\ wk[w].plan \subseteq Steps
    BY <1>1, Here DEF WorkerRow
  <2>2. wk[w].pc \in {"waveSave", "recoverSave", "insert"} => wk[w].plan # {}
    BY <2>1 DEF RowSound
  <2>3. wk[w].pc \in {"waveSave", "recoverSave", "insert"} => t \in Steps
    BY <2>1, <2>2, MinIsMember
  <2> QED BY <1>1, <2>3 DEF Shapes
<1>3. CASE UNCHANGED step
  BY <1>3, StillNoResult
<1>4. CASE CancelQueued(w)
  <2>1. s \in wk[w].fresh => step[s].st \in Waiting
    BY <1>4, Here DEF CancelQueued, At, RowSound
  <2>2. s \in wk[w].fresh => RequestCancellation(step[s]).st = "cancelled"
    BY <1>1, <2>1, RowWithdrawn DEF Waiting
  <2> QED BY <1>1, <1>4, <2>2, SavedNoResult DEF CancelQueued
<1>5. CASE Claim(w)
  <2>1. StartStep(step[s], w).st = "running"
    BY <1>1, RowStarted
  <2>2. step' = step \/ SaveStep(w, s, StartStep(step[s], w),
                   [Goto(w, "sync") EXCEPT !.next = "execute", !.fresh = {}],
                   AckThen(w, "idle"))
    BY <1>5 DEF Claim
  <2> QED BY <1>1, <2>1, <2>2, SavedNoResult, StillNoResult
<1>6. CASE HeartbeatSave(w)
  <2> DEFINE new == [step[s] EXCEPT !.exp = FALSE]
  <2>1. s \in wk[w].fresh => step[s].st = "running"
    BY <1>6, Here DEF HeartbeatSave, At, RowSound
  <2>2. s \in wk[w].fresh => new.st = "running"
    BY <1>1, <2>1 DEF StepRowType
  <2>3. SaveStep(w, s, new, Goto(w, "recheck"), LeaseLost)
    BY <1>6 DEF HeartbeatSave
  <2> HIDE DEF new
  <2> QED BY <1>1, <2>2, <2>3, SavedNoResult
<1>7. CASE CancelSave(w)
  <2>1. CancelRunningStep(step[s]).st = "cancelled"
    BY <1>1, RowCancelled
  <2> QED BY <1>1, <1>7, <2>1, SavedNoResult DEF CancelSave
<1>8. CASE FailSave(w)
  <2>1. PICK retryable \in BOOLEAN :
          LET new == FailStep(step[s], retryable) IN
          SaveStep(w, s, new,
            IF new.st = "retrying"
            THEN [Goto(w, "release") EXCEPT !.fresh = {}, !.todo = {<<s, new.att + 1>>}]
            ELSE AckThen(w, "wave"),
            AckThen(w, "idle"))
    BY <1>8 DEF FailSave
  <2>2. FailStep(step[s], retryable).st \in {"failed", "retrying"}
    BY <1>1, RowFailed DEF Becomes
  <2> QED BY <1>1, <2>1, <2>2, SavedNoResult
<1>9. CASE WaveSave(w)
  <2>1. t \in wk[w].fresh => step[t].st \in Waiting
    BY <1>9, Here DEF WaveSave, At, RowSound
  <2>2. wk[w].pc = "waveSave" /\ \E won, lost : SaveStep(w, t, RequestCancellation(step[t]), won, lost)
    BY <1>9 DEF WaveSave, At
  <2>3. t \in wk[w].fresh => RequestCancellation(step[t]).st = "cancelled"
    BY <1>2, <2>1, <2>2, RowWithdrawn DEF Waiting
  <2> QED BY <1>1, <1>2, <2>2, <2>3, SavedNoResult
<1>10. CASE RecoverSave(w)
  <2>1. wk[w].pc = "recoverSave" /\ \E won, lost : SaveStep(w, t, FailStep(step[t], TRUE), won, lost)
    BY <1>10 DEF RecoverSave, At
  <2>2. FailStep(step[t], TRUE).st \in {"failed", "retrying"}
    BY <1>2, <2>1, RowFailed DEF Becomes
  <2> QED BY <1>1, <1>2, <2>1, <2>2, SavedNoResult
<1>11. CASE InsertStep(w)
  <2>1. wk[w].pc = "insert" /\ (step' = step \/ step' = [step EXCEPT ![t] = StepRow("queued")])
    BY <1>11 DEF InsertStep, At
  <2>2. StepRow("queued").st = "queued"
    BY RowCreated
  <2> QED BY <1>1, <1>2, <2>1, <2>2 DEF NoResult, Shapes
<1>12. CASE Ack(w) \/ Release(w) \/ Inspect(w) \/ Checkpoint(w) \/ StepRaises(w) \/ HeartbeatRead(w)
  BY <1>3, <1>12 DEF Ack, Release, Inspect, Checkpoint, StepRaises, HeartbeatRead, LocalStep
<1>13. CASE Recheck(w) \/ FinishConflict(w) \/ CancelRead(w) \/ FailRead(w) \/ Wave(w) \/ ReadyList(w)
  BY <1>3, <1>13 DEF Recheck, FinishConflict, CancelRead, FailRead, Wave, ReadyList, LocalStep
<1>14. CASE Publish(w) \/ SyncRead(w) \/ SyncSave(w) \/ RecoverAfterLoss(w) \/ RecoverRead(w)
  BY <1>3, <1>14 DEF Publish, SyncRead, SyncSave, RecoverAfterLoss, RecoverRead, LocalStep
<1>15. CASE RecoverEnqueue(w) \/ Reserve(w) \/ Recover(w) \/ CreateRun(w) \/ Crash(w)
  BY <1>3, <1>15 DEF RecoverEnqueue, Reserve, Recover, CreateRun, Crash, LocalStep
<1> QED BY <1>4, <1>5, <1>6, <1>7, <1>8, <1>9, <1>10, <1>11, <1>12, <1>13, <1>14, <1>15 DEF WorkerStep

LEMMA AsideNoResult ==
  ASSUME IInv,
         \/ \E s \in Steps : ApiRetry(s) \/ ApiReview(s) \/ StepLeaseLapses(s) \/ StepBecomesDue(s)
         \/ \E j \in Jobs : JobLeaseLapses(j)
         \/ ApiCancel
         \/ ApiPublish
  PROVE  NoResult
<1>1. Shapes
  BY DEF IInv
<1>2. CASE ApiPublish \/ \E j \in Jobs : JobLeaseLapses(j)
  BY <1>2, StillNoResult DEF ApiPublish, JobLeaseLapses
<1>3. ASSUME NEW s \in Steps, StepLeaseLapses(s) \/ StepBecomesDue(s)
      PROVE  NoResult
  <2>1. \A t \in Steps : step'[t].st = step[t].st
    BY <1>1, <1>3 DEF StepLeaseLapses, StepBecomesDue, Shapes, StepRowType
  <2> QED BY <2>1 DEF NoResult
<1>4. ASSUME NEW s \in Steps, ApiReview(s)
      PROVE  NoResult
  <2>1. step[s].st = "awaiting_review" /\ \E new : step' = [step EXCEPT ![s] = new]
    BY <1>4 DEF ApiReview
  <2> QED BY <1>1, <2>1 DEF NoResult, Shapes
<1>5. ASSUME NEW s \in Steps, ApiRetry(s)
      PROVE  NoResult
  <2>1. \A t \in Steps : step[t].st = "running" => step'[t] = step[t]
    BY <1>5 DEF ApiRetry
  <2> QED BY <2>1 DEF NoResult
<1>6. CASE ApiCancel
  <2>1. \A t \in Steps : step'[t] = step[t] \/ step'[t] = RequestCancellation(step[t])
    BY <1>6 DEF ApiCancel
  <2>2. \A t \in Steps : step[t].st = "running" => RequestCancellation(step[t]).st = "running"
    BY <1>1, RowWithdrawn DEF Shapes
  <2> QED BY <2>1, <2>2 DEF NoResult
<1> QED BY <1>2, <1>3, <1>4, <1>5, <1>6

LEMMA ResultStep ==
  ASSUME IInv, [Next]_vars, NEW s \in Steps,
         step[s].st = "running", step'[s].st \in {"succeeded", "awaiting_review"}
  PROVE  \E w \in Workers : At(w, "finish") /\ Mine(w) = s /\ step[s].lease = w
<1>1. ~NoResult
  BY DEF NoResult
<1>2. Next
  BY <1>1, StillNoResult DEF vars
<1>3. PICK w \in Workers : Finish(w)
  BY <1>1, <1>2, WorkerNoResult, AsideNoResult DEF Next
<1>4. Shapes /\ At(w, "finish") /\ RowSound(w, wk[w]) /\ wk[w].job \in Jobs
  BY <1>3, Here DEF Finish, WorkerRow
<1>5. Mine(w) \in Steps
  BY <1>4 DEF Mine, Jobs
<1>6. \E new, won, lost : SaveStep(w, Mine(w), new, won, lost)
  BY <1>3 DEF Finish
<1>7. Mine(w) = s /\ s \in wk[w].fresh
  BY <1>4, <1>5, <1>6 DEF SaveStep, Shapes
<1>8. step[s].lease = w
  BY <1>4, <1>7 DEF RowSound, At
<1> QED BY <1>4, <1>7, <1>8

-----------------------------------------------------------------------------
(* The row of a run that starts with all its rows.                         *)

Complete == \A s \in Steps : step[s].st # "absent"

LEMMA AggregateCases ==
  ASSUME NEW rows, \A s \in Steps : rows[s].st # "absent"
  PROVE  LET all == \A s \in Steps : rows[s].st = "succeeded"
             some == \E s \in Steps : rows[s].st = "failed"
             ended == \A s \in Steps : rows[s].st \in Terminal
             a == Aggregate(rows)
         IN
         /\ a = "succeeded" <=> all
         /\ a = "failed" <=> some
         /\ a = "cancelled" <=> ended /\ ~all /\ ~some
<1>1. Rows(rows) = Steps /\ 1 \in Steps
  BY GraphAssumption DEF Rows, Steps
<1>2. Rows(rows) # {}
  BY <1>1
<1> QED BY <1>1, <1>2 DEF Aggregate, AllIn, SomeIn, Terminal

\* A run that has ended stays as it ended unless a step is reopened.
LEMMA EndIsStable ==
  ASSUME Complete, RowsMove, \A s \in Steps : ~Reopens(s)
  PROVE  Complete' /\ (Aggregate(step) \in Terminal => Aggregate(step') = Aggregate(step))
<1>1. ASSUME NEW s \in Steps
      PROVE  /\ step'[s].st # "absent"
             /\ step[s].st \in Terminal => step'[s].st = step[s].st
  <2>1. CASE \A x \in Steps : Same(x)
    BY <2>1 DEF Same, Complete
  <2>2. ASSUME NEW x \in Steps, OneMoves(x)
        PROVE  /\ step'[s].st # "absent"
               /\ step[s].st \in Terminal => step'[s].st = step[s].st
    <3>1. s # x => step'[s] = step[s]
      BY <2>2 DEF OneMoves, Only
    <3>2. /\ step'[x].st # "absent"
          /\ step[x].st \notin Terminal
      BY <2>2 DEF OneMoves, Inserts, Starts, Withdraws, Delivers, Fails, Cancels, Waiting, Terminal
    <3> QED BY <3>1, <3>2 DEF Complete
  <2>3. CASE Stops
    BY <2>3 DEF Stops, Terminal, Complete
  <2> QED BY <2>1, <2>2, <2>3 DEF RowsMove
<1>2. Aggregate(step) \in Terminal => Aggregate(step') = Aggregate(step)
  <2>1. \A s \in Steps : step[s].st # "absent" /\ step'[s].st # "absent"
    BY <1>1 DEF Complete
  <2> QED BY <1>1, <2>1, AggregateCases DEF Terminal
<1> QED BY <1>1, <1>2 DEF Complete

\* Worker w is not about to store a status, and creates rows only if it did.
Plain(w, row) == row.pc # "syncSave" /\ row.mode \in {wk[w].mode, "job", "recover"}

LEMMA PlainRows ==
  ASSUME Shapes, NEW w \in Workers
  PROVE  /\ Plain(w, IdleWorker) /\ Plain(w, LeaseLost)
         /\ \A pc \in Places \ {"syncSave"} : Plain(w, Goto(w, pc))
         /\ \A next \in {"idle", "sync", "wave"} : Plain(w, AckThen(w, next))
         /\ Plain(w, Scheduled(w))
         /\ \A own \in BOOLEAN : Plain(w, ListRecoverable(w, own))
         /\ \A rest \in SUBSET Steps, touched \in BOOLEAN : Plain(w, NextRecovery(w, rest, touched))
<1>1. wk[w] \in WorkerRow
  BY DEF Shapes
<1>2. Plain(w, IdleWorker) /\ Plain(w, LeaseLost) /\ \A own \in BOOLEAN : Plain(w, ListRecoverable(w, own))
  BY IdleIsRow DEF Plain, LeaseLost, ListRecoverable, IdleWorker
<1>3. /\ \A pc \in Places \ {"syncSave"} : Plain(w, Goto(w, pc))
      /\ \A next \in {"idle", "sync", "wave"} : Plain(w, AckThen(w, next))
      /\ Plain(w, Scheduled(w))
  BY <1>1 DEF Plain, Goto, AckThen, Scheduled, WorkerRow
<1>4. \A rest \in SUBSET Steps, touched \in BOOLEAN : Plain(w, NextRecovery(w, rest, touched))
  BY <1>1, <1>2 DEF Plain, NextRecovery, Goto, WorkerRow
<1> QED BY <1>2, <1>3, <1>4

LEMMA PlainGoes ==
  ASSUME Shapes, NEW w \in Workers, NEW row, Plain(w, row),
         \/ LocalStep(w, row)
         \/ wk' = [wk EXCEPT ![w] = row]
         \/ \E S \in SUBSET Steps, b \in BOOLEAN : wk' = [Outdate(S, b) EXCEPT ![w] = row]
  PROVE  Plain(w, wk'[w])
<1>1. CASE LocalStep(w, row) \/ wk' = [wk EXCEPT ![w] = row]
  BY <1>1, OneWorker DEF LocalStep
<1>2. CASE \E S \in SUBSET Steps, b \in BOOLEAN : wk' = [Outdate(S, b) EXCEPT ![w] = row]
  <2>1. PICK S \in SUBSET Steps, b \in BOOLEAN : wk' = [Outdate(S, b) EXCEPT ![w] = row]
    BY <1>2
  <2>2. wk'[w] = row
    BY <2>1, OutdateOthers
  <2> QED BY <2>2
<1> QED BY <1>1, <1>2

LEMMA PlainSave ==
  ASSUME Shapes, NEW w \in Workers, NEW s \in Steps, NEW new, NEW won, NEW lost,
         SaveStep(w, s, new, won, lost), Plain(w, won), Plain(w, lost)
  PROVE  Plain(w, wk'[w])
BY Saved

\* From the delivery to the claim, and the four ways out of an execution.
LEMMA PlainDelivery ==
  ASSUME IInv, NEW w \in Workers,
         \/ Ack(w) \/ Release(w) \/ Inspect(w) \/ CancelQueued(w) \/ Claim(w)
         \/ Checkpoint(w) \/ StepRaises(w) \/ HeartbeatRead(w) \/ HeartbeatSave(w)
         \/ Recheck(w) \/ Finish(w) \/ FinishConflict(w)
         \/ CancelRead(w) \/ CancelSave(w) \/ FailRead(w) \/ FailSave(w)
  PROVE  Plain(w, wk'[w])
<1> DEFINE s == Mine(w)
           found(pc) == [Goto(w, pc) EXCEPT !.fresh = {s}]
<1>1. Shapes /\ wk[w] \in WorkerRow /\ s \in Steps
  BY Here DEF WorkerRow, Mine, Jobs
<1>2. /\ Plain(w, IdleWorker) /\ Plain(w, LeaseLost)
      /\ \A pc \in Places \ {"syncSave"} : Plain(w, Goto(w, pc))
      /\ \A next \in {"idle", "sync", "wave"} : Plain(w, AckThen(w, next))
  BY <1>1, PlainRows
<1>3. \A pc \in Places \ {"syncSave"} : Plain(w, found(pc))
  BY <1>1 DEF Plain, Goto, WorkerRow
<1> HIDE DEF s, found
<1>4. CASE Ack(w)
  <2> DEFINE row == IF wk[w].next = "idle" THEN IdleWorker
                    ELSE [Goto(w, wk[w].next) EXCEPT !.next = "idle"]
  <2>1. wk' = [wk EXCEPT ![w] = row]
    BY <1>4 DEF Ack
  <2>2. Plain(w, row)
    BY <1>1, <1>2 DEF Plain, Goto, WorkerRow
  <2> HIDE DEF row
  <2> QED BY <1>1, <2>1, <2>2, PlainGoes
<1>5. CASE Release(w)
  <2> DEFINE on == [Goto(w, "sync") EXCEPT !.todo = {}]
  <2>1. Plain(w, on)
    BY <1>1 DEF Plain, Goto, WorkerRow
  <2>2. PICK row \in {IdleWorker, on} : wk' = [wk EXCEPT ![w] = row]
    BY <1>5 DEF Release
  <2> HIDE DEF on
  <2> QED BY <1>1, <1>2, <2>1, <2>2, PlainGoes
<1>6. CASE Inspect(w)
  <2>1. PICK row \in {AckThen(w, "idle"), Early(w), found("cancelQueued"), found("claim")} : LocalStep(w, row)
    BY <1>6 DEF Inspect, found, s
  <2>2. Plain(w, Early(w))
    BY <1>2 DEF Early, Places
  <2> QED BY <1>1, <1>2, <1>3, <2>1, <2>2, PlainGoes DEF Places
<1>7. CASE CancelQueued(w) \/ CancelSave(w)
  <2>1. \E new : SaveStep(w, s, new, AckThen(w, "sync"), AckThen(w, "sync"))
    BY <1>7 DEF CancelQueued, CancelSave, s
  <2> QED BY <1>1, <1>2, <2>1, PlainSave
<1>8. CASE Claim(w)
  <2> DEFINE on == [Goto(w, "sync") EXCEPT !.next = "execute", !.fresh = {}]
  <2>1. Plain(w, on)
    BY <1>1 DEF Plain, Goto, WorkerRow
  <2>2. \/ wk' = [wk EXCEPT ![w] = IdleWorker]
        \/ \E new : SaveStep(w, s, new, on, AckThen(w, "idle"))
    BY <1>8 DEF Claim, s
  <2> HIDE DEF on
  <2> QED BY <1>1, <1>2, <2>1, <2>2, PlainGoes, PlainSave
<1>9. CASE Checkpoint(w) \/ StepRaises(w)
  <2>1. PICK pc \in {"cancelRead", "beat", "failRead"} : LocalStep(w, Goto(w, pc))
    BY <1>9 DEF Checkpoint, StepRaises
  <2> QED BY <1>1, <1>2, <2>1, PlainGoes DEF Places, Past
<1>10. CASE HeartbeatRead(w)
  <2>1. PICK row \in {found("beatSave"), LeaseLost} : LocalStep(w, row)
    BY <1>10 DEF HeartbeatRead, found, s
  <2> QED BY <1>1, <1>2, <1>3, <2>1, PlainGoes DEF Places, Past
<1>11. CASE HeartbeatSave(w)
  <2>1. \E new : SaveStep(w, s, new, Goto(w, "recheck"), LeaseLost)
    BY <1>11 DEF HeartbeatSave, s
  <2> QED BY <1>1, <1>2, <2>1, PlainSave DEF Places, Past
<1>12. CASE Recheck(w)
  <2>1. PICK row \in {Goto(w, "cancelRead"), Goto(w, "finish"), LeaseLost} : LocalStep(w, row)
    BY <1>12 DEF Recheck
  <2> QED BY <1>1, <1>2, <2>1, PlainGoes DEF Places, Past
<1>13. CASE Finish(w)
  <2>1. PICK next \in {"wave", "sync"} :
          \E new : SaveStep(w, s, new, AckThen(w, next), Goto(w, "conflict"))
    BY <1>13 DEF Finish, s
  <2> QED BY <1>1, <1>2, <2>1, PlainSave DEF Places, Past
<1>14. CASE FinishConflict(w)
  <2>1. PICK row \in {Goto(w, "cancelRead"), AckThen(w, "idle")} : LocalStep(w, row)
    BY <1>14 DEF FinishConflict
  <2> QED BY <1>1, <1>2, <2>1, PlainGoes DEF Places, Past
<1>15. CASE CancelRead(w)
  <2>1. PICK row \in {found("cancelSave"), AckThen(w, "sync")} : LocalStep(w, row)
    BY <1>15 DEF CancelRead, found, s
  <2> QED BY <1>1, <1>2, <1>3, <2>1, PlainGoes DEF Places, Past
<1>16. CASE FailRead(w)
  <2>1. PICK row \in {found("failSave"), AckThen(w, "idle")} : LocalStep(w, row)
    BY <1>16 DEF FailRead, found, s
  <2> QED BY <1>1, <1>2, <1>3, <2>1, PlainGoes DEF Places, Past
<1>17. CASE FailSave(w)
  <2>1. PICK retryable \in BOOLEAN :
          LET new == FailStep(step[s], retryable) IN
          SaveStep(w, s, new,
            IF new.st = "retrying"
            THEN [Goto(w, "release") EXCEPT !.fresh = {}, !.todo = {<<s, new.att + 1>>}]
            ELSE AckThen(w, "wave"),
            AckThen(w, "idle"))
    BY <1>17 DEF FailSave, s
  <2> DEFINE new == FailStep(step[s], retryable)
             again == [Goto(w, "release") EXCEPT !.fresh = {}, !.todo = {<<s, new.att + 1>>}]
             won == IF new.st = "retrying" THEN again ELSE AckThen(w, "wave")
  <2>2. Plain(w, again)
    BY <1>1 DEF Plain, Goto, WorkerRow
  <2>3. SaveStep(w, s, new, won, AckThen(w, "idle"))
    BY <2>1
  <2> HIDE DEF again
  <2>4. Plain(w, won)
    BY <1>2, <2>2
  <2> HIDE DEF won, new
  <2> QED BY <1>1, <1>2, <2>3, <2>4, PlainSave
<1> QED BY <1>4, <1>5, <1>6, <1>7, <1>8, <1>9, <1>10, <1>11, <1>12, <1>13, <1>14, <1>15, <1>16, <1>17

\* Scheduling, recovery and creation; reading the steps alone leads to a store.
LEMMA PlainService ==
  ASSUME IInv, Complete, NEW w \in Workers,
         \/ Wave(w) \/ WaveSave(w) \/ ReadyList(w) \/ Publish(w) \/ SyncSave(w)
         \/ RecoverAfterLoss(w) \/ RecoverRead(w) \/ RecoverSave(w) \/ RecoverEnqueue(w)
         \/ InsertStep(w) \/ Reserve(w) \/ Recover(w) \/ CreateRun(w) \/ Crash(w)
  PROVE  Plain(w, wk'[w])
<1> DEFINE s == Min(wk[w].plan)
           rest == wk[w].plan \ {s}
<1>1. Shapes /\ wk[w] \in WorkerRow /\ RowSound(w, wk[w]) /\ rest \in SUBSET Steps
  BY Here DEF WorkerRow
<1>2. wk[w].pc \in {"waveSave", "recoverRead", "recoverSave", "insert"} => s \in Steps
  <2>1. wk[w].pc \in {"waveSave", "recoverRead", "recoverSave", "insert"} => wk[w].plan # {}
    BY <1>1 DEF RowSound
  <2>2. wk[w].plan \subseteq Steps
    BY <1>1 DEF WorkerRow
  <2> QED BY <2>1, <2>2, MinIsMember
<1>3. /\ Plain(w, IdleWorker) /\ Plain(w, Scheduled(w))
      /\ \A pc \in Places \ {"syncSave"} : Plain(w, Goto(w, pc))
      /\ \A own \in BOOLEAN : Plain(w, ListRecoverable(w, own))
      /\ \A more \in SUBSET Steps, touched \in BOOLEAN : Plain(w, NextRecovery(w, more, touched))
  BY <1>1, PlainRows
<1>4. CASE Wave(w)
  <2> DEFINE blocked == {t \in Scope(w) : step[t].st \in Waiting /\ Blocked(t)}
             on == [Goto(w, "waveSave") EXCEPT !.plan = blocked, !.fresh = blocked, !.progress = FALSE]
  <2>1. Plain(w, on)
    BY <1>1 DEF Plain, Goto, WorkerRow
  <2>2. PICK row \in {Goto(w, "list"), on} : LocalStep(w, row)
    BY <1>4 DEF Wave
  <2> HIDE DEF on
  <2> QED BY <1>1, <1>3, <2>1, <2>2, PlainGoes DEF Places
<1>5. CASE WaveSave(w)
  <2> DEFINE saved == wk[w].progress \/ s \in wk[w].fresh
             pc == IF rest # {} THEN "waveSave" ELSE IF saved THEN "wave" ELSE "list"
             p == saved /\ rest # {}
             after == [Goto(w, pc) EXCEPT !.plan = rest, !.fresh = @ \ {s}, !.progress = p]
             won == [after EXCEPT !.changed = TRUE]
  <2>1. pc # "syncSave"
    OBVIOUS
  <2>2. \E new : SaveStep(w, s, new, won, after) /\ wk[w].pc = "waveSave"
    BY <1>5 DEF WaveSave, At
  <2> HIDE DEF pc, p, rest, s
  <2>3. Plain(w, after) /\ Plain(w, won)
    BY <1>1, <2>1 DEF Plain, Goto, WorkerRow
  <2> HIDE DEF after, won
  <2> QED BY <1>1, <1>2, <2>2, <2>3, PlainSave
<1>6. CASE ReadyList(w)
  <2> DEFINE ready == {t \in Scope(w) : step[t].st \in Waiting /\ step[t].due /\ DepsSucceeded(t)}
             on == [Goto(w, "publish") EXCEPT !.todo = {<<t, step[t].att + 1>> : t \in ready}]
  <2>1. Plain(w, on)
    BY <1>1 DEF Plain, Goto, WorkerRow
  <2>2. PICK row \in {Scheduled(w), on} : LocalStep(w, row)
    BY <1>6 DEF ReadyList
  <2> HIDE DEF on
  <2> QED BY <1>1, <1>3, <2>1, <2>2, PlainGoes
<1>7. CASE Publish(w)
  <2> DEFINE j == CHOOSE x \in wk[w].todo : \A y \in wk[w].todo : x[1] <= y[1]
             left == wk[w].todo \ {j}
             on == [wk[w] EXCEPT !.todo = left]
             back == [Goto(w, "sync") EXCEPT !.todo = {}, !.changed = FALSE]
             unborn == wk[w].mode = "create" /\ run.status = "queued"
  <2>1. wk[w].pc = "publish"
    BY <1>7 DEF Publish, At
  <2>2. Plain(w, on) /\ Plain(w, back)
    <3> HIDE DEF left
    <3> QED BY <1>1, <2>1 DEF Plain, Goto, WorkerRow
  <2>3. PICK row \in {Scheduled(w), on, back, IdleWorker} :
          \/ wk' = [wk EXCEPT ![w] = row]
          \/ wk' = [Outdate({}, unborn) EXCEPT ![w] = row]
    BY <1>7 DEF Publish
  <2>4. {} \in SUBSET Steps /\ unborn \in BOOLEAN
    OBVIOUS
  <2> HIDE DEF on, back, unborn
  <2> QED BY <1>1, <1>3, <2>2, <2>3, <2>4, PlainGoes
<1>8. CASE SyncSave(w)
  <2> DEFINE next == wk[w].next
             go == [Goto(w, next) EXCEPT !.next = "idle"]
             back == [Goto(w, "sync") EXCEPT !.next = "idle"]
             on == Settled(go)
             n == Goto(w, "sync").tries + 1
             again == [Goto(w, "sync") EXCEPT !.tries = n, !.agg = "queued"]
             acked == Settled(AckThen(w, "idle"))
             resync == Settled(back)
  <2>1. PICK row \in {IdleWorker, on, again, acked, resync} :
          \/ wk' = [wk EXCEPT ![w] = row]
          \/ wk' = [Outdate({}, TRUE) EXCEPT ![w] = row]
    BY <1>8 DEF SyncSave, Settled
  <2>2. next \in {"idle", "sync", "execute", "wave"}
    BY <1>1 DEF WorkerRow
  <2> HIDE DEF next, n
  <2>3. Plain(w, on) /\ Plain(w, again) /\ Plain(w, acked) /\ Plain(w, resync)
    BY <1>1, <2>2 DEF Plain, Goto, AckThen, Settled, WorkerRow
  <2> HIDE DEF on, again, acked, resync
  <2>4. {} \in SUBSET Steps /\ TRUE \in BOOLEAN
    OBVIOUS
  <2> QED BY <1>1, <1>3, <2>1, <2>3, <2>4, PlainGoes
<1>9. CASE RecoverAfterLoss(w) \/ Recover(w)
  <2>1. PICK own \in BOOLEAN : LocalStep(w, ListRecoverable(w, own))
    <3>1. (w \in CaptureWorkers) \in BOOLEAN /\ TRUE \in BOOLEAN
      OBVIOUS
    <3>2. \/ LocalStep(w, ListRecoverable(w, w \in CaptureWorkers))
          \/ LocalStep(w, ListRecoverable(w, TRUE))
      BY <1>9 DEF RecoverAfterLoss, Recover
    <3> QED BY <3>1, <3>2
  <2> QED BY <1>1, <1>3, <2>1, PlainGoes
<1>10. CASE RecoverRead(w)
  <2> DEFINE on == [Goto(w, "recoverSave") EXCEPT !.fresh = {s}]
             t == wk[w].progress \/ step[s].st # "running"
  <2>1. Plain(w, on)
    BY <1>1 DEF Plain, Goto, WorkerRow
  <2>2. PICK row \in {on, NextRecovery(w, rest, t)} : LocalStep(w, row)
    BY <1>10 DEF RecoverRead
  <2>3. t \in BOOLEAN
    OBVIOUS
  <2> HIDE DEF on, rest, t
  <2> QED BY <1>1, <1>3, <2>1, <2>2, <2>3, PlainGoes
<1>11. CASE RecoverSave(w)
  <2> DEFINE new == FailStep(step[s], TRUE)
             on == [Goto(w, "recoverEnqueue") EXCEPT !.fresh = {}, !.todo = {<<s, new.att + 1>>}]
             won == IF new.st = "retrying" THEN on ELSE NextRecovery(w, rest, TRUE)
             lost == NextRecovery(w, rest, wk[w].progress)
  <2>1. SaveStep(w, s, new, won, lost) /\ wk[w].pc = "recoverSave"
    BY <1>11 DEF RecoverSave, At
  <2>2. wk[w].progress \in BOOLEAN
    BY <1>1 DEF WorkerRow
  <2> HIDE DEF s, rest, new
  <2>3. Plain(w, on)
    BY <1>1 DEF Plain, Goto, WorkerRow
  <2> HIDE DEF on
  <2>4. Plain(w, won) /\ Plain(w, lost)
    BY <1>1, <1>3, <2>2, <2>3
  <2> HIDE DEF won, lost
  <2> QED BY <1>1, <1>2, <2>1, <2>4, PlainSave
<1>12. CASE RecoverEnqueue(w)
  <2>1. PICK more \in SUBSET Steps : wk' = [wk EXCEPT ![w] = NextRecovery(w, more, TRUE)]
    <3>1. wk[w].plan \subseteq Steps
      BY <1>1 DEF WorkerRow
    <3> QED BY <1>12, <3>1 DEF RecoverEnqueue
  <2> QED BY <1>1, <1>3, <2>1, PlainGoes
<1>13. CASE InsertStep(w)
  <2> DEFINE pc == IF rest = {} THEN "wave" ELSE "insert"
             on == [Goto(w, pc) EXCEPT !.plan = rest]
  <2>1. PICK row \in {IdleWorker, on} : wk' = [wk EXCEPT ![w] = row]
    BY <1>13 DEF InsertStep
  <2>2. pc # "syncSave"
    OBVIOUS
  <2> HIDE DEF pc, rest
  <2>3. Plain(w, on)
    BY <1>1, <2>2 DEF Plain, Goto, WorkerRow
  <2> HIDE DEF on
  <2> QED BY <1>1, <1>3, <2>1, <2>3, PlainGoes
<1>14. CASE Reserve(w)
  <2>1. PICK j \in Jobs : wk' = [wk EXCEPT ![w] = [IdleWorker EXCEPT !.pc = "inspect", !.job = j]]
    BY <1>14 DEF Reserve
  <2> DEFINE on == [IdleWorker EXCEPT !.pc = "inspect", !.job = j]
  <2>2. Plain(w, on)
    BY DEF Plain, IdleWorker
  <2>3. wk' = [wk EXCEPT ![w] = on]
    BY <2>1
  <2> HIDE DEF on
  <2> QED BY <1>1, <2>2, <2>3, PlainGoes
<1>15. CASE Crash(w)
  BY <1>1, <1>3, <1>15, PlainGoes DEF Crash
<1>16. ~CreateRun(w)
  BY DEF CreateRun, Complete, Rows
<1> QED BY <1>4, <1>5, <1>6, <1>7, <1>8, <1>9, <1>10, <1>11, <1>12, <1>13, <1>14, <1>15, <1>16

-----------------------------------------------------------------------------
(* A terminal status tells the truth.                                      *)

\* A worker that is about to store a terminal status has the right one.
Right(w) ==
  /\ wk[w].mode # "create"
  /\ wk[w].pc = "syncSave" /\ wk[w].runFresh /\ wk[w].agg \in Terminal
     => wk[w].agg = Aggregate(step)

LEMMA CallsStay ==
  ASSUME IInv, NEW w \in Workers,
         WorkerStep(w) \/ Reserve(w) \/ Recover(w) \/ CreateRun(w) \/ Crash(w)
  PROVE  used'.call = used.call
<1>1. CASE UNCHANGED used
  BY <1>1
<1>2. CASE Crash(w)
  BY <1>2 DEF Crash, IInv, Shapes
<1>3. CASE Ack(w) \/ Release(w) \/ Inspect(w) \/ CancelQueued(w) \/ Claim(w) \/ Checkpoint(w)
  BY <1>1, <1>3 DEF Ack, Release, Inspect, CancelQueued, Claim, Checkpoint, LocalStep
<1>4. CASE StepRaises(w) \/ HeartbeatRead(w) \/ HeartbeatSave(w) \/ Recheck(w) \/ Finish(w)
  BY <1>1, <1>4 DEF StepRaises, HeartbeatRead, HeartbeatSave, Recheck, Finish, LocalStep
<1>5. CASE FinishConflict(w) \/ CancelRead(w) \/ CancelSave(w) \/ FailRead(w) \/ FailSave(w)
  BY <1>1, <1>5 DEF FinishConflict, CancelRead, CancelSave, FailRead, FailSave, LocalStep
<1>6. CASE Wave(w) \/ WaveSave(w) \/ ReadyList(w) \/ Publish(w) \/ SyncRead(w) \/ SyncSave(w)
  BY <1>1, <1>6 DEF Wave, WaveSave, ReadyList, Publish, SyncRead, SyncSave, LocalStep
<1>7. CASE RecoverAfterLoss(w) \/ RecoverRead(w) \/ RecoverSave(w) \/ RecoverEnqueue(w)
  BY <1>1, <1>7 DEF RecoverAfterLoss, RecoverRead, RecoverSave, RecoverEnqueue, LocalStep
<1>8. CASE InsertStep(w) \/ Reserve(w) \/ Recover(w) \/ CreateRun(w)
  BY <1>1, <1>8 DEF InsertStep, Reserve, Recover, CreateRun, LocalStep
<1> QED BY <1>2, <1>3, <1>4, <1>5, <1>6, <1>7, <1>8 DEF WorkerStep

\* A worker writes the row of the run with what it has read, or not at all.
LEMMA RunWritten ==
  ASSUME IInv, NEW w \in Workers, Right(w),
         WorkerStep(w) \/ Reserve(w) \/ Recover(w) \/ CreateRun(w) \/ Crash(w)
  PROVE  \/ UNCHANGED run
         \/ /\ wk[w].pc = "syncSave" /\ wk[w].runFresh /\ UNCHANGED step
            /\ run'.status = wk[w].agg
<1>1. CASE SyncSave(w)
  BY <1>1 DEF SyncSave, At, IInv, Shapes
<1>2. CASE Publish(w)
  BY <1>2 DEF Publish, Right
<1>3. CASE Ack(w) \/ Release(w) \/ Inspect(w) \/ CancelQueued(w) \/ Claim(w) \/ Checkpoint(w)
  BY <1>3 DEF Ack, Release, Inspect, CancelQueued, Claim, Checkpoint, LocalStep
<1>4. CASE StepRaises(w) \/ HeartbeatRead(w) \/ HeartbeatSave(w) \/ Recheck(w) \/ Finish(w)
  BY <1>4 DEF StepRaises, HeartbeatRead, HeartbeatSave, Recheck, Finish, LocalStep
<1>5. CASE FinishConflict(w) \/ CancelRead(w) \/ CancelSave(w) \/ FailRead(w) \/ FailSave(w)
  BY <1>5 DEF FinishConflict, CancelRead, CancelSave, FailRead, FailSave, LocalStep
<1>6. CASE Wave(w) \/ WaveSave(w) \/ ReadyList(w) \/ SyncRead(w)
  BY <1>6 DEF Wave, WaveSave, ReadyList, SyncRead, LocalStep
<1>7. CASE RecoverAfterLoss(w) \/ RecoverRead(w) \/ RecoverSave(w) \/ RecoverEnqueue(w)
  BY <1>7 DEF RecoverAfterLoss, RecoverRead, RecoverSave, RecoverEnqueue, LocalStep
<1>8. CASE InsertStep(w) \/ Reserve(w) \/ Recover(w) \/ CreateRun(w) \/ Crash(w)
  BY <1>8 DEF InsertStep, Reserve, Recover, CreateRun, Crash, LocalStep
<1> QED BY <1>1, <1>2, <1>3, <1>4, <1>5, <1>6, <1>7, <1>8 DEF WorkerStep

\* What a worker that does not act has read stays right until a reopening,
\* which makes it stale.
LEMMA OthersRight ==
  ASSUME Complete, RowsMove, \A s \in Steps : ~Reopens(s),
         NEW v \in Workers, Kept(v), Right(v)
  PROVE  Right(v)'
<1>1. /\ wk'[v].mode = wk[v].mode /\ wk'[v].pc = wk[v].pc /\ wk'[v].agg = wk[v].agg
      /\ wk'[v].runFresh => wk[v].runFresh
  BY DEF Kept, Outdated
<1>2. Aggregate(step) \in Terminal => Aggregate(step') = Aggregate(step)
  BY EndIsStable
<1> QED BY <1>1, <1>2 DEF Right

LEMMA NoReopening ==
  ASSUME IInv, used'.call = used.call
  PROVE  \A s \in Steps : ~Reopens(s)
BY DEF Reopens, IInv, Shapes

LEMMA WorkerTrue ==
  ASSUME IInv, Truth, NEW w \in Workers,
         WorkerStep(w) \/ Reserve(w) \/ Recover(w) \/ CreateRun(w) \/ Crash(w)
  PROVE  Truth'
<1>1. Complete /\ TerminalRunIsTrue /\ \A v \in Workers : Right(v)
  BY DEF Truth, Complete, Right
<1>2. Safe(w)
  BY EveryWorkerStep
<1>3. \A s \in Steps : ~Reopens(s)
  BY CallsStay, NoReopening
<1>4. Complete' /\ (Aggregate(step) \in Terminal => Aggregate(step') = Aggregate(step))
  BY <1>1, <1>2, <1>3, EndIsStable DEF Safe
<1>5. \A v \in Workers \ {w} : Right(v)'
  BY <1>1, <1>2, <1>3, OthersRight DEF Safe
<1>6. Right(w)'
  <2>1. CASE SyncRead(w)
    <3> DEFINE a == Aggregate(step)
               row == [Goto(w, "syncSave") EXCEPT !.agg = a, !.runFresh = TRUE]
    <3>1. LocalStep(w, row) /\ wk[w] \in WorkerRow
      BY <2>1, Here DEF SyncRead
    <3> HIDE DEF a
    <3>2. row.mode = wk[w].mode /\ row.agg = a
      BY <3>1 DEF Goto, WorkerRow
    <3> HIDE DEF row
    <3>3. wk'[w] = row /\ step' = step
      BY <1>2, <3>1, Here DEF LocalStep, Shapes
    <3> QED BY <1>1, <3>2, <3>3 DEF Right, a
  <2>2. CASE ~SyncRead(w)
    <3>1. Plain(w, wk'[w])
      BY <1>1, <2>2, PlainDelivery, PlainService DEF WorkerStep
    <3> QED BY <1>1, <3>1 DEF Plain, Right
  <2> QED BY <2>1, <2>2
<1>7. TerminalRunIsTrue'
  <2>1. CASE UNCHANGED run
    BY <1>1, <1>4, <2>1 DEF TerminalRunIsTrue
  <2>2. CASE /\ wk[w].pc = "syncSave" /\ wk[w].runFresh /\ UNCHANGED step
             /\ run'.status = wk[w].agg
    BY <1>1, <2>2 DEF TerminalRunIsTrue, Right
  <2> QED BY <1>1, <2>1, <2>2, RunWritten
<1> QED BY <1>4, <1>5, <1>6, <1>7 DEF Truth, Complete, Right

LEMMA CompleteStays ==
  ASSUME Complete, RowsMove
  PROVE  Complete'
<1>1. ASSUME NEW s \in Steps PROVE step'[s].st # "absent"
  <2>1. CASE \E x \in Steps : Reopens(x)
    BY <2>1 DEF Reopens, Complete
  <2>2. CASE ~\E x \in Steps : Reopens(x)
    BY <2>2, EndIsStable DEF Complete
  <2> QED BY <2>1, <2>2
<1> QED BY <1>1 DEF Complete

\* The control API stores the aggregate of what it wrote, and makes stale what
\* the workers know of the run.
LEMMA CallStores ==
  ASSUME Shapes, Rows(step) # {}, ApiCancel \/ \E s \in Steps : ApiRetry(s) \/ ApiReview(s)
  PROVE  run'.status = Aggregate(step') /\ \E S \in SUBSET Steps : wk' = Outdate(S, TRUE)
<1>1. CASE ApiCancel
  <2> DEFINE open == {s \in Rows(step) : step[s].st \notin Terminal}
  <2>1. run'.status = Aggregate(step')
    BY <1>1 DEF ApiCancel
  <2>2. wk' = Outdate(open, TRUE)
    BY <1>1 DEF ApiCancel
  <2>3. open \in SUBSET Steps
    BY DEF Rows
  <2> QED BY <2>1, <2>2, <2>3
<1>2. ASSUME NEW s \in Steps, ApiRetry(s)
      PROVE  run'.status = Aggregate(step') /\ \E S \in SUBSET Steps : wk' = Outdate(S, TRUE)
  <2> DEFINE lost == {t \in Downstream(s) : step[t].st = "cancelled"} \union {s}
  <2>1. run' = [run EXCEPT !.status = Aggregate(step')] /\ wk' = Outdate(lost, TRUE)
    BY <1>2 DEF ApiRetry
  <2>2. lost \in SUBSET Steps
    BY DEF Downstream
  <2> HIDE DEF lost
  <2> QED BY <2>1, <2>2 DEF Shapes
<1>3. ASSUME NEW s \in Steps, ApiReview(s)
      PROVE  run'.status = Aggregate(step') /\ \E S \in SUBSET Steps : wk' = Outdate(S, TRUE)
  <2>1. run' = [run EXCEPT !.status = Aggregate(step')] /\ wk' = Outdate({s}, TRUE)
    BY <1>3 DEF ApiReview
  <2> QED BY <2>1 DEF Shapes
<1> QED BY <1>1, <1>2, <1>3

LEMMA CallTrue ==
  ASSUME IInv, Truth,
         ApiCancel \/ \E s \in Steps : ApiRetry(s) \/ ApiReview(s)
  PROVE  Truth'
<1>1. Complete /\ Shapes /\ \A v \in Workers : Right(v)
  BY DEF Truth, Complete, Right, IInv
<1>2. Aside
  BY EveryOtherStep
<1>3. Complete'
  BY <1>1, <1>2, CompleteStays DEF Aside
<1>4. run'.status = Aggregate(step') /\ \E S \in SUBSET Steps : wk' = Outdate(S, TRUE)
  <2>1. Rows(step) # {}
    BY <1>1, GraphAssumption DEF Complete, Rows, Steps
  <2> QED BY <1>1, <2>1, CallStores
<1>5. ASSUME NEW v \in Workers PROVE Right(v)'
  <2>1. PICK S \in SUBSET Steps : wk' = Outdate(S, TRUE)
    BY <1>4
  <2>2. wk'[v].mode = wk[v].mode /\ ~wk'[v].runFresh
    <3>1. TRUE \in BOOLEAN
      OBVIOUS
    <3> QED BY <1>1, <2>1, <3>1, OutdateAll DEF Outdated
  <2> QED BY <1>1, <2>2 DEF Right
<1> QED BY <1>3, <1>4, <1>5 DEF Truth, Complete, Right, TerminalRunIsTrue

\* Time and publications write neither the rows of the run nor those of workers.
LEMMA TimeTrue ==
  ASSUME IInv, Truth, RowsMove, UNCHANGED <<run, wk>>, used'.call = used.call
  PROVE  Truth'
<1>1. Complete /\ TerminalRunIsTrue /\ \A v \in Workers : Right(v)
  BY DEF Truth, Complete, Right
<1>2. Complete' /\ (Aggregate(step) \in Terminal => Aggregate(step') = Aggregate(step))
  BY <1>1, NoReopening, EndIsStable
<1>3. TerminalRunIsTrue'
  BY <1>1, <1>2 DEF TerminalRunIsTrue
<1>4. \A v \in Workers : Right(v)'
  BY <1>1, <1>2 DEF Right
<1> QED BY <1>2, <1>3, <1>4 DEF Truth, Complete, Right

LEMMA TruthStep ==
  ASSUME IInv, Truth, [Next]_vars
  PROVE  Truth'
<1>1. ASSUME NEW w \in Workers,
             WorkerStep(w) \/ Reserve(w) \/ Recover(w) \/ CreateRun(w) \/ Crash(w)
      PROVE  Truth'
  BY <1>1, WorkerTrue
<1>2. CASE ApiCancel \/ \E s \in Steps : ApiRetry(s) \/ ApiReview(s)
  BY <1>2, CallTrue
<1>3. CASE \/ UNCHANGED vars
           \/ ApiPublish
           \/ \E j \in Jobs : JobLeaseLapses(j)
           \/ \E s \in Steps : StepLeaseLapses(s) \/ StepBecomesDue(s)
  <2>1. UNCHANGED <<run, wk>>
    BY <1>3 DEF vars, ApiPublish, JobLeaseLapses, StepLeaseLapses, StepBecomesDue
  <2>2. used'.call = used.call
    BY <1>3 DEF vars, ApiPublish, JobLeaseLapses, StepLeaseLapses, StepBecomesDue, Lapse, IInv, Shapes
  <2> QED BY <2>1, <2>2, IInvStep, TimeTrue
<1> QED BY <1>1, <1>2, <1>3 DEF Next

LEMMA InitTruth ==
  ASSUME Materialized = Steps, Init
  PROVE  Truth
<1>1. \A s \in Steps : step[s].st = "queued"
  BY DEF Init, StepRow
<1>2. \A w \in Workers : wk[w].mode = "job" /\ wk[w].runFresh = FALSE
  BY IdleIsRow DEF Init
<1>3. run.status = "queued"
  BY DEF Init
<1> QED BY <1>1, <1>2, <1>3 DEF Truth, TerminalRunIsTrue, Terminal

-----------------------------------------------------------------------------
(* Once every step has ended, the outcome is stored or on its way.          *)

Ended == \A s \in Steps : step[s].st \in Terminal

\* Who stands like this will come to _sync_run with all its tries.
OnWay(row) ==
  /\ row.tries = 0
  /\ \/ row.pc = "ack" /\ row.next \in {"sync", "wave"}
     \/ row.pc \in {"wave", "waveSave", "list", "recoverEnqueue", "sync"}
     \/ row.pc \in {"recoverRead", "recoverSave"} /\ row.progress
Coming(w) == OnWay(wk[w])

\* It is about to store what the steps no longer say.
Stale(w) == wk[w].pc = "syncSave" /\ wk[w].runFresh /\ wk[w].agg # Aggregate(step)

\* How many writes of the run's row may still come before the right one: a stale
\* one, and create_run's failure of a run that shows as queued.
Rivals ==
  IF \E w \in Workers : Stale(w) THEN 2 ELSE IF run.status = "queued" THEN 1 ELSE 0

\* Worker w will store the outcome: it has a try left for every rival.
Carrier(w) ==
  \/ Coming(w)
  \/ wk[w].pc = "sync" /\ wk[w].tries + Rivals <= SyncRetries
  \/ /\ wk[w].pc = "syncSave" /\ wk[w].runFresh
     /\ wk[w].agg = Aggregate(step) /\ wk[w].tries + Rivals <= SyncRetries
  \/ /\ wk[w].pc = "syncSave" /\ ~wk[w].runFresh
     /\ wk[w].tries + Rivals < SyncRetries

\* The outcome is not stored, or may yet be overwritten.
Owed ==
  /\ used.crash = 0 /\ Ended
  /\ run.status # Aggregate(step) \/ \E w \in Workers : Stale(w)

\* Tries are counted inside _sync_run only.
Rested == \A w \in Workers : wk[w].pc \notin {"sync", "syncSave"} => wk[w].tries = 0
Carried == Owed => \E w \in Workers : Carrier(w)

LEMMA CarriedGives ==
  ASSUME Carried
  PROVE  OutcomeIsInHand
<1>1. \A w \in Workers : Carrier(w) => Syncs(w)
  BY DEF Carrier, Coming, OnWay, Syncs, At
<1> QED BY <1>1 DEF Carried, Owed, Ended, OutcomeIsInHand

LEMMA RivalsCount ==
  Rivals \in 0..2 /\ (Rivals = 2 <=> \E w \in Workers : Stale(w))
  /\ (Rivals = 0 => run.status # "queued")
BY DEF Rivals

-----------------------------------------------------------------------------
(* The other workers.                                                      *)

\* Worker v stands where it stood.
Stands(v) ==
  /\ wk'[v].pc = wk[v].pc /\ wk'[v].next = wk[v].next
  /\ wk'[v].progress = wk[v].progress /\ wk'[v].tries = wk[v].tries
  /\ wk'[v].agg = wk[v].agg

LEMMA RowStands ==
  ASSUME Shapes, NEW S, NEW b \in BOOLEAN, NEW v \in Workers,
         wk'[v] = Outdate(S, b)[v]
  PROVE  Stands(v) /\ wk'[v].runFresh = (wk[v].runFresh /\ ~b)
<1> DEFINE c == wk[v].runFresh /\ ~b
           f == wk[v].fresh \ S
<1>1. wk[v] \in WorkerRow
  BY DEF Shapes
<1>2. wk'[v] = [wk[v] EXCEPT !.fresh = f, !.runFresh = c]
  BY DEF Outdate
<1> HIDE DEF c, f
<1>3. Stands(v) /\ wk'[v].runFresh = c
  BY <1>1, <1>2 DEF WorkerRow, Stands
<1> QED BY <1>3 DEF c

\* A step of worker w that leaves the row of the run, and one that writes it.
Leaves(w) ==
  /\ UNCHANGED run
  /\ \/ \E row : wk' = [wk EXCEPT ![w] = row]
     \/ \E S, row : wk' = [Outdate(S, FALSE) EXCEPT ![w] = row]
Overwrites(w) == \E S, row : wk' = [Outdate(S, TRUE) EXCEPT ![w] = row]

LEMMA LeavesOthers ==
  ASSUME Shapes, NEW w \in Workers, Leaves(w), NEW v \in Workers \ {w}
  PROVE  Stands(v) /\ wk'[v].runFresh = wk[v].runFresh
<1>1. CASE \E row : wk' = [wk EXCEPT ![w] = row]
  <2>1. wk'[v] = wk[v]
    BY <1>1 DEF Shapes
  <2> QED BY <2>1 DEF Stands
<1>2. CASE \E S, row : wk' = [Outdate(S, FALSE) EXCEPT ![w] = row]
  <2>1. PICK S, row : wk' = [Outdate(S, FALSE) EXCEPT ![w] = row]
    BY <1>2
  <2>2. wk'[v] = Outdate(S, FALSE)[v] /\ FALSE \in BOOLEAN
    BY <2>1 DEF Outdate
  <2>3. wk[v].runFresh \in BOOLEAN
    BY DEF Shapes, WorkerRow
  <2> QED BY <2>2, <2>3, RowStands
<1> QED BY <1>1, <1>2 DEF Leaves

LEMMA OverwritesOthers ==
  ASSUME Shapes, NEW w \in Workers, Overwrites(w), NEW v \in Workers \ {w}
  PROVE  Stands(v) /\ ~wk'[v].runFresh
<1>1. PICK S, row : wk' = [Outdate(S, TRUE) EXCEPT ![w] = row]
  BY DEF Overwrites
<1>2. wk'[v] = Outdate(S, TRUE)[v] /\ TRUE \in BOOLEAN
  BY <1>1 DEF Outdate
<1> QED BY <1>2, RowStands

LEMMA SaveLeaves ==
  ASSUME NEW w \in Workers, NEW s, NEW new, NEW won, NEW lost,
         SaveStep(w, s, new, won, lost), UNCHANGED run
  PROVE  Leaves(w)
BY DEF SaveStep, Leaves

LEMMA LocalLeaves ==
  ASSUME NEW w \in Workers, NEW x, LocalStep(w, x)
  PROVE  Leaves(w)
BY DEF LocalStep, Leaves

\* Only _sync_run and a failed create_run write the row of the run.
LEMMA WhoWrites ==
  ASSUME IInv, NEW w \in Workers,
         WorkerStep(w) \/ Reserve(w) \/ Recover(w) \/ CreateRun(w) \/ Crash(w)
  PROVE  \/ Leaves(w)
         \/ /\ Overwrites(w) /\ SyncSave(w) /\ wk[w].runFresh
            /\ run'.status = wk[w].agg
         \/ /\ Overwrites(w) /\ wk[w].pc = "publish"
            /\ run.status = "queued" /\ run'.status = "failed"
<1>1. CASE SyncSave(w)
  <2>1. CASE wk[w].runFresh
    <3>1. Overwrites(w)
      BY <1>1, <2>1 DEF SyncSave, Overwrites
    <3>2. run'.status = wk[w].agg
      BY <1>1, <2>1 DEF SyncSave, IInv, Shapes
    <3> QED BY <1>1, <2>1, <3>1, <3>2
  <2>2. CASE ~wk[w].runFresh
    BY <1>1, <2>2 DEF SyncSave, Leaves
  <2> QED BY <2>1, <2>2
<1>2. CASE Publish(w)
  <2> DEFINE unborn == wk[w].mode = "create" /\ run.status = "queued"
  <2>1. CASE UNCHANGED run /\ \E row : wk' = [wk EXCEPT ![w] = row]
    BY <2>1 DEF Leaves
  <2>2. CASE unborn /\ \E row : wk' = [Outdate({}, unborn) EXCEPT ![w] = row]
             /\ run' = [run EXCEPT !.status = "failed"]
    <3>1. unborn = TRUE
      BY <2>2
    <3>2. Overwrites(w)
      BY <2>2, <3>1 DEF Overwrites
    <3>3. run'.status = "failed"
      BY <2>2 DEF IInv, Shapes
    <3> QED BY <1>2, <2>2, <3>2, <3>3 DEF Publish, At
  <2>3. CASE ~unborn /\ (\E row : wk' = [Outdate({}, unborn) EXCEPT ![w] = row])
             /\ UNCHANGED run
    <3>1. unborn = FALSE
      BY <2>3
    <3>2. Leaves(w)
      BY <2>3, <3>1 DEF Leaves
    <3> QED BY <3>2
  <2> QED BY <1>2, <2>1, <2>2, <2>3 DEF Publish
<1>3. CASE Inspect(w) \/ Checkpoint(w) \/ StepRaises(w) \/ HeartbeatRead(w)
  BY <1>3, LocalLeaves DEF Inspect, Checkpoint, StepRaises, HeartbeatRead
<1>4. CASE Recheck(w) \/ FinishConflict(w) \/ CancelRead(w) \/ FailRead(w)
  BY <1>4, LocalLeaves DEF Recheck, FinishConflict, CancelRead, FailRead
<1>5. CASE Wave(w) \/ ReadyList(w) \/ SyncRead(w) \/ RecoverAfterLoss(w)
  BY <1>5, LocalLeaves DEF Wave, ReadyList, SyncRead, RecoverAfterLoss
<1>6. CASE RecoverRead(w) \/ Recover(w) \/ CreateRun(w)
  BY <1>6, LocalLeaves DEF RecoverRead, Recover, CreateRun
<1>7. CASE CancelQueued(w) \/ HeartbeatSave(w) \/ Finish(w) \/ CancelSave(w)
  BY <1>7, SaveLeaves DEF CancelQueued, HeartbeatSave, Finish, CancelSave
<1>8. CASE FailSave(w) \/ WaveSave(w) \/ RecoverSave(w)
  BY <1>8, SaveLeaves DEF FailSave, WaveSave, RecoverSave
<1>9. CASE Claim(w)
  <2>1. UNCHANGED run
    BY <1>9 DEF Claim
  <2>2. CASE wk' = [wk EXCEPT ![w] = IdleWorker]
    BY <2>1, <2>2 DEF Leaves
  <2>3. CASE SaveStep(w, Mine(w), StartStep(step[Mine(w)], w),
                      [Goto(w, "sync") EXCEPT !.next = "execute", !.fresh = {}],
                      AckThen(w, "idle"))
    BY <2>1, <2>3, SaveLeaves
  <2> QED BY <1>9, <2>2, <2>3 DEF Claim
<1>10. CASE Ack(w) \/ Reserve(w) \/ RecoverEnqueue(w) \/ Crash(w)
  BY <1>10 DEF Ack, Reserve, RecoverEnqueue, Crash, Leaves
<1>11. CASE InsertStep(w) \/ Release(w)
  BY <1>11 DEF InsertStep, Release, Leaves
<1> QED BY <1>1, <1>2, <1>3, <1>4, <1>5, <1>6, <1>7, <1>8, <1>9, <1>10, <1>11 DEF WorkerStep

-----------------------------------------------------------------------------
(* The worker that acts, outside _sync_run.                                *)

LEMMA RestedRows ==
  ASSUME Shapes, NEW w \in Workers, wk[w].tries = 0
  PROVE  /\ IdleWorker.tries = 0 /\ LeaseLost.tries = 0
         /\ \A pc : Goto(w, pc).tries = 0 /\ Goto(w, pc).pc = pc
         /\ \A next : AckThen(w, next).tries = 0
         /\ \A own : ListRecoverable(w, own).tries = 0
         /\ \A rest, touched : NextRecovery(w, rest, touched).tries = 0
         /\ \A next \in {"sync", "wave"} : OnWay(AckThen(w, next))
         /\ \A pc \in {"wave", "waveSave", "list", "sync"} : OnWay(Goto(w, pc))
         /\ \A rest : OnWay(NextRecovery(w, rest, TRUE))
         /\ OnWay(Scheduled(w))
<1>1. wk[w] \in WorkerRow
  BY DEF Shapes
<1>2. IdleWorker.tries = 0 /\ LeaseLost.tries = 0 /\ \A own : ListRecoverable(w, own).tries = 0
  BY DEF IdleWorker, LeaseLost, ListRecoverable
<1>3. /\ \A pc : Goto(w, pc).tries = 0 /\ Goto(w, pc).pc = pc
      /\ \A next : AckThen(w, next).tries = 0
      /\ \A next \in {"sync", "wave"} : OnWay(AckThen(w, next))
  BY <1>1 DEF Goto, AckThen, WorkerRow, OnWay
<1>4. \A pc \in {"wave", "waveSave", "list", "sync"} : OnWay(Goto(w, pc))
  BY <1>3 DEF OnWay
<1>5. \A rest, touched : NextRecovery(w, rest, touched).tries = 0
  BY <1>1, <1>2 DEF NextRecovery, Goto, WorkerRow
<1>6. ASSUME NEW rest
      PROVE  OnWay(NextRecovery(w, rest, TRUE))
  <2> DEFINE on == [Goto(w, "recoverRead") EXCEPT !.plan = rest, !.progress = TRUE,
                                                  !.fresh = {}, !.todo = {}]
             over == [Goto(w, "wave") EXCEPT !.plan = {}, !.progress = FALSE,
                                             !.fresh = {}, !.todo = {}]
  <2>1. OnWay(on) /\ OnWay(over)
    BY <1>1 DEF Goto, WorkerRow, OnWay
  <2>2. NextRecovery(w, rest, TRUE) \in {on, over}
    BY DEF NextRecovery
  <2> HIDE DEF on, over
  <2> QED BY <2>1, <2>2
<1>7. OnWay(Scheduled(w))
  BY <1>1 DEF Goto, Scheduled, WorkerRow, OnWay
<1> QED BY <1>2, <1>3, <1>4, <1>5, <1>6, <1>7

LEMMA Stood ==
  ASSUME Shapes, NEW w \in Workers, NEW row,
         LocalStep(w, row) \/ wk' = [wk EXCEPT ![w] = row]
           \/ \E b \in BOOLEAN : wk' = [Outdate({}, b) EXCEPT ![w] = row]
  PROVE  wk'[w] = row
BY DEF LocalStep, Shapes, Outdate

\* The worker keeps its tries, whoever was coming still comes, and who ends the
\* last step comes.
Carries(w) ==
  /\ wk'[w].tries = 0
  /\ Ended /\ Coming(w) => Coming(w)'
  /\ Ended' => Ended \/ Coming(w)'

\* From the delivery to the claim, and the execution.
LEMMA DeliveryCarries ==
  ASSUME IInv, Rested, NEW w \in Workers,
         \/ Release(w) \/ Inspect(w) \/ Checkpoint(w) \/ StepRaises(w) \/ HeartbeatRead(w)
         \/ Recheck(w) \/ FinishConflict(w) \/ CancelRead(w) \/ FailRead(w)
  PROVE  Carries(w)
<1>1. UNCHANGED step
  BY DEF Release, Inspect, Checkpoint, StepRaises, HeartbeatRead, Recheck, FinishConflict,
         CancelRead, FailRead, LocalStep
<1>2. /\ Shapes /\ wk[w] \in WorkerRow /\ wk[w].tries = 0
      /\ wk[w].pc \in {"release", "inspect", "execute", "beat", "recheck", "conflict",
                       "cancelRead", "failRead"}
  BY Here DEF Rested, Release, Inspect, Checkpoint, StepRaises, HeartbeatRead, Recheck,
              FinishConflict, CancelRead, FailRead, At
<1>3. ~Coming(w)
  BY <1>2 DEF Coming, OnWay
<1>4. wk'[w].tries = 0
  <2>0. /\ IdleWorker.tries = 0 /\ LeaseLost.tries = 0
        /\ \A pc : Goto(w, pc).tries = 0
        /\ \A next : AckThen(w, next).tries = 0
    BY <1>2, RestedRows
  <2>1. \A pc, F : [Goto(w, pc) EXCEPT !.fresh = F].tries = 0
    BY <1>2 DEF Goto, WorkerRow
  <2>2. [Goto(w, "sync") EXCEPT !.todo = {}].tries = 0
    BY <1>2 DEF Goto, WorkerRow
  <2>3. ASSUME NEW row, row.tries = 0, LocalStep(w, row) \/ wk' = [wk EXCEPT ![w] = row]
        PROVE  wk'[w].tries = 0
    BY <1>2, <2>3, Stood
  <2>4. CASE Release(w)
    <3>1. PICK row \in {IdleWorker, [Goto(w, "sync") EXCEPT !.todo = {}]} :
            wk' = [wk EXCEPT ![w] = row]
      BY <2>4 DEF Release
    <3>2. row.tries = 0
      BY <2>0, <2>2, <3>1
    <3> QED BY <2>3, <3>1, <3>2
  <2>5. CASE Inspect(w)
    <3>1. PICK row \in {AckThen(w, "idle"), Goto(w, "release"),
                        [Goto(w, "cancelQueued") EXCEPT !.fresh = {Mine(w)}],
                        [Goto(w, "claim") EXCEPT !.fresh = {Mine(w)}]} : LocalStep(w, row)
      BY <2>5 DEF Inspect, Early
    <3>2. row.tries = 0
      BY <2>0, <2>1, <3>1
    <3> QED BY <2>3, <3>1, <3>2
  <2>6. CASE Checkpoint(w) \/ StepRaises(w)
    <3>1. PICK pc : LocalStep(w, Goto(w, pc))
      BY <2>6 DEF Checkpoint, StepRaises
    <3> QED BY <2>0, <2>3, <3>1
  <2>7. CASE HeartbeatRead(w) \/ CancelRead(w) \/ FailRead(w)
    <3> DEFINE found(pc) == [Goto(w, pc) EXCEPT !.fresh = {Mine(w)}]
    <3>1. PICK row \in {LeaseLost, AckThen(w, "sync"), AckThen(w, "idle"),
                        found("beatSave"), found("cancelSave"), found("failSave")} :
            LocalStep(w, row)
      BY <2>7 DEF HeartbeatRead, CancelRead, FailRead
    <3>2. \A pc : found(pc).tries = 0
      BY <2>1
    <3> HIDE DEF found
    <3> QED BY <2>0, <2>3, <3>1, <3>2
  <2>8. CASE Recheck(w) \/ FinishConflict(w)
    <3>1. PICK row \in {Goto(w, "cancelRead"), Goto(w, "finish"), LeaseLost, AckThen(w, "idle")} :
            LocalStep(w, row)
      BY <2>8 DEF Recheck, FinishConflict
    <3> QED BY <2>0, <2>3, <3>1
  <2> QED BY <2>4, <2>5, <2>6, <2>7, <2>8
<1>5. Ended' => Ended
  BY <1>1 DEF Ended
<1> QED BY <1>3, <1>4, <1>5 DEF Carries

LEMMA SaveCarries ==
  ASSUME IInv, NEW w \in Workers, NEW s \in Steps, NEW new, NEW won, NEW lost,
         SaveStep(w, s, new, won, lost), ~Coming(w), won.tries = 0, lost.tries = 0,
         s \in wk[w].fresh => step[s].st \in Terminal \/ new.st \notin Terminal \/ OnWay(won)
  PROVE  Carries(w)
<1>1. Shapes
  BY DEF IInv
<1>2. CASE /\ s \in wk[w].fresh /\ wk'[w] = won
           /\ step'[s] = new /\ \A t \in Steps \ {s} : step'[t] = step[t]
  <2>1. CASE OnWay(won)
    <3>1. OnWay(wk'[w])
      BY <1>2, <2>1
    <3> QED BY <1>2, <3>1 DEF Carries, Coming, OnWay
  <2>2. CASE step[s].st \in Terminal \/ new.st \notin Terminal
    <3>1. Ended' => Ended
      BY <1>2, <2>2 DEF Ended
    <3> QED BY <1>2, <3>1 DEF Carries
  <2> QED BY <1>2, <2>1, <2>2
<1>3. CASE wk'[w] = lost /\ step' = step
  BY <1>3 DEF Carries, Ended
<1>4. \/ /\ s \in wk[w].fresh /\ wk'[w] = won
         /\ step'[s] = new /\ \A t \in Steps \ {s} : step'[t] = step[t]
      \/ wk'[w] = lost /\ step' = step
  <2>1. \/ /\ s \in wk[w].fresh /\ wk'[w] = won
           /\ step'[s] = new /\ \A t \in Steps \ {s} : step'[t] = step[t]
           /\ \A v \in Workers \ {w} : Outdated(v, {s})
        \/ /\ s \notin wk[w].fresh /\ wk'[w] = lost
           /\ step' = step
           /\ \A v \in Workers \ {w} : Outdated(v, {})
    BY <1>1, Saved
  <2> QED BY <2>1
<1> QED BY <1>2, <1>3, <1>4

\* The writes of a claimed step.
LEMMA ClaimedCarries ==
  ASSUME IInv, Rested, NEW w \in Workers,
         \/ CancelQueued(w) \/ Claim(w) \/ HeartbeatSave(w) \/ Finish(w)
         \/ CancelSave(w) \/ FailSave(w)
  PROVE  Carries(w)
<1> DEFINE s == Mine(w)
<1>1. /\ Shapes /\ wk[w] \in WorkerRow /\ wk[w].tries = 0 /\ s \in Steps
      /\ wk[w].pc \in {"cancelQueued", "claim", "beatSave", "finish", "cancelSave", "failSave"}
  BY Here DEF Rested, CancelQueued, Claim, HeartbeatSave, Finish, CancelSave, FailSave, At
<1>2. ~Coming(w)
  BY <1>1 DEF Coming, OnWay
<1>3. /\ IdleWorker.tries = 0 /\ LeaseLost.tries = 0
      /\ \A pc : Goto(w, pc).tries = 0
      /\ \A next : AckThen(w, next).tries = 0
      /\ \A next \in {"sync", "wave"} : OnWay(AckThen(w, next))
  BY <1>1, RestedRows
<1> HIDE DEF s
<1>4. CASE CancelQueued(w) \/ CancelSave(w)
  <2>1. PICK new : SaveStep(w, s, new, AckThen(w, "sync"), AckThen(w, "sync"))
    BY <1>4 DEF CancelQueued, CancelSave, s
  <2> QED BY <1>1, <1>2, <1>3, <2>1, SaveCarries
<1>5. CASE Claim(w)
  <2> DEFINE on == [Goto(w, "sync") EXCEPT !.next = "execute", !.fresh = {}]
             new == StartStep(step[s], w)
  <2>1. on.tries = 0
    BY <1>1 DEF Goto, WorkerRow
  <2>2. new.st = "running"
    <3>1. step[s] \in StepRowType
      BY <1>1 DEF Shapes
    <3> QED BY <3>1 DEF StartStep, StepRowType
  <2>3. \/ wk' = [wk EXCEPT ![w] = IdleWorker] /\ UNCHANGED step
        \/ SaveStep(w, s, new, on, AckThen(w, "idle"))
    BY <1>5 DEF Claim, s
  <2> HIDE DEF on, new
  <2>4. CASE wk' = [wk EXCEPT ![w] = IdleWorker] /\ UNCHANGED step
    BY <1>1, <1>2, <1>3, <2>4, Stood DEF Carries, Ended
  <2>5. CASE SaveStep(w, s, new, on, AckThen(w, "idle"))
    BY <1>1, <1>2, <1>3, <2>1, <2>2, <2>5, SaveCarries DEF Terminal
  <2> QED BY <2>3, <2>4, <2>5
<1>6. CASE HeartbeatSave(w)
  <2> DEFINE new == [step[s] EXCEPT !.exp = FALSE]
  <2>1. SaveStep(w, s, new, Goto(w, "recheck"), LeaseLost)
    BY <1>6 DEF HeartbeatSave, s
  <2>2. new.st = step[s].st
    BY <1>1 DEF Shapes, StepRowType
  <2> HIDE DEF new
  <2> QED BY <1>1, <1>2, <1>3, <2>1, <2>2, SaveCarries
<1>7. CASE Finish(w)
  <2> DEFINE status == IF s \in ReviewSteps THEN "awaiting_review" ELSE "succeeded"
             next == IF status = "succeeded" THEN "wave" ELSE "sync"
  <2>1. PICK new : SaveStep(w, s, new, AckThen(w, next), Goto(w, "conflict"))
    BY <1>7 DEF Finish, s
  <2>2. next \in {"sync", "wave"}
    OBVIOUS
  <2> HIDE DEF next
  <2> QED BY <1>1, <1>2, <1>3, <2>1, <2>2, SaveCarries
<1>8. CASE FailSave(w)
  <2>1. PICK retryable \in BOOLEAN :
          LET new == FailStep(step[s], retryable) IN
          SaveStep(w, s, new,
            IF new.st = "retrying"
            THEN [Goto(w, "release") EXCEPT !.fresh = {}, !.todo = {<<s, new.att + 1>>}]
            ELSE AckThen(w, "wave"),
            AckThen(w, "idle"))
    BY <1>8 DEF FailSave, s
  <2> DEFINE new == FailStep(step[s], retryable)
             again == [Goto(w, "release") EXCEPT !.fresh = {}, !.todo = {<<s, new.att + 1>>}]
             won == IF new.st = "retrying" THEN again ELSE AckThen(w, "wave")
  <2>2. again.tries = 0
    BY <1>1 DEF Goto, WorkerRow
  <2>3. SaveStep(w, s, new, won, AckThen(w, "idle"))
    BY <2>1
  <2> HIDE DEF again
  <2>4. won.tries = 0 /\ (new.st \notin Terminal \/ OnWay(won))
    BY <1>3, <2>2 DEF Terminal
  <2> HIDE DEF won, new
  <2> QED BY <1>1, <1>2, <1>3, <2>3, <2>4, SaveCarries
<1> QED BY <1>4, <1>5, <1>6, <1>7, <1>8

\* The service's loop: a delivery, a pass, a crash, a graph, a publication.
LEMMA ServiceCarries ==
  ASSUME IInv, Rested, NEW w \in Workers,
         \/ Reserve(w) \/ Recover(w) \/ CreateRun(w) \/ Crash(w)
         \/ RecoverAfterLoss(w) \/ Publish(w) \/ InsertStep(w)
  PROVE  wk'[w].tries = 0 /\ (Ended' => Ended) /\ (Coming(w) => Crash(w))
<1>1. Shapes /\ wk[w] \in WorkerRow
  BY Here
<1>2. ~Crash(w) => wk[w].tries = 0 /\ wk[w].pc \in {"idle", "recover", "publish", "insert"}
  BY DEF Rested, Reserve, Recover, CreateRun, RecoverAfterLoss, Publish, InsertStep, At
<1>3. Coming(w) => Crash(w)
  BY <1>2 DEF Coming, OnWay
<1>4. IdleWorker.tries = 0 /\ \A own : ListRecoverable(w, own).tries = 0
  BY DEF IdleWorker, ListRecoverable
<1>5. CASE Crash(w)
  <2>1. UNCHANGED step /\ wk'[w] = IdleWorker
    BY <1>1, <1>5, Stood DEF Crash
  <2> QED BY <1>3, <1>4, <2>1 DEF Ended
<1>6. CASE Recover(w) \/ RecoverAfterLoss(w)
  <2>1. PICK own : LocalStep(w, ListRecoverable(w, own))
    BY <1>6 DEF Recover, RecoverAfterLoss
  <2>2. UNCHANGED step /\ wk'[w] = ListRecoverable(w, own)
    BY <1>1, <2>1, Stood DEF LocalStep
  <2> QED BY <1>3, <1>4, <2>2 DEF Ended
<1>7. CASE Reserve(w)
  <2>1. PICK j \in Jobs : wk' = [wk EXCEPT ![w] = [IdleWorker EXCEPT !.pc = "inspect", !.job = j]]
    BY <1>7 DEF Reserve
  <2>2. wk'[w].tries = 0
    BY <1>1, <2>1 DEF Shapes, IdleWorker
  <2> QED BY <1>3, <1>7, <2>2 DEF Ended, Reserve
<1>8. CASE CreateRun(w)
  <2>1. PICK P : LocalStep(w, [IdleWorker EXCEPT !.pc = "insert", !.mode = "create",
                                                 !.own = FALSE, !.plan = P])
    BY <1>8 DEF CreateRun
  <2>2. wk'[w].tries = 0 /\ UNCHANGED step
    BY <1>1, <2>1 DEF LocalStep, Shapes, IdleWorker
  <2> QED BY <1>3, <2>2 DEF Ended
<1>9. CASE Publish(w)
  <2> DEFINE rest == wk[w].todo \ {CHOOSE x \in wk[w].todo : \A y \in wk[w].todo : x[1] <= y[1]}
             unborn == wk[w].mode = "create" /\ run.status = "queued"
             on == [wk[w] EXCEPT !.todo = rest]
             back == [Goto(w, "sync") EXCEPT !.todo = {}, !.changed = FALSE]
  <2>1. ~Crash(w) => on.tries = 0 /\ back.tries = 0 /\ Scheduled(w).tries = 0
    BY <1>1, <1>2 DEF Goto, WorkerRow, Scheduled
  <2>2. PICK row \in {Scheduled(w), on, back, IdleWorker} :
          wk' = [wk EXCEPT ![w] = row] \/ wk' = [Outdate({}, unborn) EXCEPT ![w] = row]
    BY <1>9 DEF Publish
  <2>3. unborn \in BOOLEAN
    OBVIOUS
  <2> HIDE DEF on, back, unborn
  <2>4. wk'[w] = row
    BY <1>1, <2>2, <2>3, Stood
  <2>5. ~Crash(w) \/ Crash(w)
    OBVIOUS
  <2>6. UNCHANGED step
    BY <1>9 DEF Publish
  <2> QED BY <1>3, <1>4, <1>5, <2>1, <2>2, <2>4, <2>6 DEF Ended
<1>10. CASE InsertStep(w)
  <2> DEFINE s == Min(wk[w].plan)
             rest == wk[w].plan \ {s}
             pc == IF rest = {} THEN "wave" ELSE "insert"
             on == [Goto(w, pc) EXCEPT !.plan = rest]
  <2>1. ~Crash(w) => on.tries = 0
    BY <1>1, <1>2 DEF Goto, WorkerRow
  <2>2. PICK row \in {IdleWorker, on} : wk' = [wk EXCEPT ![w] = row]
    BY <1>10 DEF InsertStep
  <2> HIDE DEF on
  <2>3. wk'[w] = row
    BY <1>1, <2>2, Stood
  <2>4. Ended' => Ended
    <3>1. CASE UNCHANGED step
      BY <3>1 DEF Ended
    <3>2. CASE step' = [step EXCEPT ![s] = StepRow("queued")]
      <4>1. StepRow("queued").st \notin Terminal
        BY DEF StepRow, Terminal
      <4>2. \A t \in Steps : step'[t] = step[t] \/ step'[t] = StepRow("queued")
        BY <3>2 DEF Shapes
      <4> QED BY <4>1, <4>2 DEF Ended
    <3> QED BY <1>10, <3>1, <3>2 DEF InsertStep
  <2> QED BY <1>3, <1>4, <1>5, <2>1, <2>2, <2>3, <2>4
<1> QED BY <1>5, <1>6, <1>7, <1>8, <1>9, <1>10

\* Who is on the way to _sync_run gets there.
LEMMA WayCarries ==
  ASSUME IInv, Rested, NEW w \in Workers,
         \/ Ack(w) \/ Wave(w) \/ WaveSave(w) \/ ReadyList(w)
         \/ RecoverRead(w) \/ RecoverSave(w) \/ RecoverEnqueue(w)
  PROVE  Carries(w)
<1> DEFINE s == Min(wk[w].plan)
           rest == wk[w].plan \ {s}
<1>1. Shapes /\ wk[w] \in WorkerRow /\ RowSound(w, wk[w])
  BY Here
<1>2. /\ wk[w].tries = 0
      /\ wk[w].pc \in {"ack", "wave", "waveSave", "list", "recoverRead", "recoverSave", "recoverEnqueue"}
  BY DEF Rested, Ack, Wave, WaveSave, ReadyList, RecoverRead, RecoverSave, RecoverEnqueue, At
<1>3. wk[w].pc \in {"waveSave", "recoverRead", "recoverSave"} => s \in Steps
  <2>1. wk[w].pc \in {"waveSave", "recoverRead", "recoverSave"} => wk[w].plan # {}
    BY <1>1 DEF RowSound
  <2>2. wk[w].plan \subseteq Steps
    BY <1>1 DEF WorkerRow
  <2> QED BY <2>1, <2>2, MinIsMember
<1>4. /\ IdleWorker.tries = 0
      /\ \A pc : Goto(w, pc).tries = 0
      /\ \A more, touched : NextRecovery(w, more, touched).tries = 0
      /\ \A pc \in {"wave", "waveSave", "list", "sync"} : OnWay(Goto(w, pc))
      /\ \A more : OnWay(NextRecovery(w, more, TRUE))
      /\ OnWay(Scheduled(w))
  BY <1>1, <1>2, RestedRows
\* A step that writes no row and keeps who comes coming.
<1>5. ASSUME NEW row, row.tries = 0, UNCHANGED step, wk' = [wk EXCEPT ![w] = row],
             Ended /\ Coming(w) => OnWay(row)
      PROVE  Carries(w)
  <2>1. wk'[w] = row
    BY <1>1, <1>5, Stood
  <2>2. OnWay(row) => Coming(w)'
    BY <2>1 DEF Coming, OnWay
  <2> QED BY <1>5, <2>1, <2>2 DEF Carries, Ended
<1>6. CASE Ack(w)
  <2> DEFINE on == [Goto(w, wk[w].next) EXCEPT !.next = "idle"]
             row == IF wk[w].next = "idle" THEN IdleWorker ELSE on
  <2>1. wk' = [wk EXCEPT ![w] = row] /\ UNCHANGED step /\ wk[w].pc = "ack"
    BY <1>6 DEF Ack, At
  <2>2. on.tries = 0 /\ on.pc = wk[w].next
    BY <1>1, <1>2 DEF Goto, WorkerRow
  <2>3. wk[w].next \in {"sync", "wave"} => OnWay(on)
    BY <2>2 DEF OnWay
  <2> HIDE DEF on
  <2>4. Coming(w) => OnWay(row)
    BY <2>1, <2>3 DEF Coming, OnWay
  <2>5. row.tries = 0
    BY <1>4, <2>2
  <2> HIDE DEF row
  <2> QED BY <1>5, <2>1, <2>4, <2>5
<1>7. CASE Wave(w)
  <2> DEFINE blocked == {t \in Scope(w) : step[t].st \in Waiting /\ Blocked(t)}
             on == [Goto(w, "waveSave") EXCEPT !.plan = blocked, !.fresh = blocked, !.progress = FALSE]
  <2>1. on.tries = 0 /\ on.pc = "waveSave"
    BY <1>1, <1>2 DEF Goto, WorkerRow
  <2>2. PICK row \in {Goto(w, "list"), on} : LocalStep(w, row)
    BY <1>7 DEF Wave
  <2> HIDE DEF on
  <2>3. OnWay(row) /\ row.tries = 0
    BY <1>4, <2>1, <2>2 DEF OnWay
  <2> QED BY <1>5, <2>2, <2>3 DEF LocalStep
<1>8. CASE ReadyList(w)
  <2> DEFINE ready == {t \in Scope(w) : step[t].st \in Waiting /\ step[t].due /\ DepsSucceeded(t)}
             on == [Goto(w, "publish") EXCEPT !.todo = {<<t, step[t].att + 1>> : t \in ready}]
             row == IF ready = {} THEN Scheduled(w) ELSE on
  <2>1. on.tries = 0
    BY <1>1, <1>2 DEF Goto, WorkerRow
  <2>2. LocalStep(w, row)
    BY <1>8 DEF ReadyList
  <2>3. Ended => ready = {}
    BY DEF Ended, Scope, Waiting, Terminal
  <2> HIDE DEF on, ready
  <2>4. (Ended => OnWay(row)) /\ row.tries = 0
    BY <1>4, <2>1, <2>3 DEF OnWay
  <2> HIDE DEF row
  <2> QED BY <1>5, <2>2, <2>4 DEF LocalStep
<1>9. CASE RecoverEnqueue(w)
  <2>1. PICK more : wk' = [wk EXCEPT ![w] = NextRecovery(w, more, TRUE)]
    BY <1>9 DEF RecoverEnqueue
  <2> DEFINE row == NextRecovery(w, more, TRUE)
  <2>2. OnWay(row) /\ row.tries = 0 /\ wk' = [wk EXCEPT ![w] = row]
    BY <1>4, <2>1
  <2> HIDE DEF row
  <2> QED BY <1>5, <1>9, <2>2 DEF RecoverEnqueue
<1>10. CASE RecoverRead(w)
  <2> DEFINE on == [Goto(w, "recoverSave") EXCEPT !.fresh = {s}]
             touched == wk[w].progress \/ step[s].st # "running"
             row == IF step[s].st = "running" /\ step[s].exp THEN on ELSE NextRecovery(w, rest, touched)
  <2>1. LocalStep(w, row) /\ wk[w].pc = "recoverRead"
    BY <1>10 DEF RecoverRead, At
  <2>2. Ended => step[s].st # "running"
    BY <1>3, <2>1 DEF Ended, Terminal
  <2>3. touched \in BOOLEAN /\ (Ended => touched = TRUE)
    BY <2>2
  <2>4. on.tries = 0
    BY <1>1, <1>2 DEF Goto, WorkerRow
  <2> HIDE DEF on, touched, rest
  <2>5. Ended => row = NextRecovery(w, rest, TRUE)
    BY <2>2, <2>3
  <2>6. row.tries = 0
    BY <1>4, <2>4
  <2> HIDE DEF row, s
  <2>7. Ended => OnWay(row)
    BY <1>4, <2>5
  <2> QED BY <1>5, <2>1, <2>6, <2>7 DEF LocalStep
<1>11. CASE WaveSave(w)
  <2> DEFINE saved == wk[w].progress \/ s \in wk[w].fresh
             pc == IF rest # {} THEN "waveSave" ELSE IF saved THEN "wave" ELSE "list"
             p == saved /\ rest # {}
             after == [Goto(w, pc) EXCEPT !.plan = rest, !.fresh = @ \ {s}, !.progress = p]
             won == [after EXCEPT !.changed = TRUE]
  <2>1. PICK new : SaveStep(w, s, new, won, after)
    BY <1>11 DEF WaveSave
  <2>2. pc \in {"wave", "waveSave", "list"} /\ s \in Steps
    BY <1>3, <1>11 DEF WaveSave, At
  <2> HIDE DEF pc, p, rest
  <2>3. after.pc = pc /\ after.tries = 0 /\ won.pc = pc /\ won.tries = 0
    BY <1>1, <1>2 DEF Goto, WorkerRow
  <2> HIDE DEF after, won
  <2>4. OnWay(after) /\ OnWay(won)
    BY <2>2, <2>3 DEF OnWay
  <2>5. wk'[w] \in {after, won}
    BY <1>1, <2>1, <2>2, Saved
  <2>6. Coming(w)' /\ wk'[w].tries = 0
    BY <2>3, <2>4, <2>5 DEF Coming, OnWay
  <2> QED BY <2>6 DEF Carries
<1>12. CASE RecoverSave(w)
  <2> DEFINE new == FailStep(step[s], TRUE)
             on == [Goto(w, "recoverEnqueue") EXCEPT !.fresh = {}, !.todo = {<<s, new.att + 1>>}]
             won == IF new.st = "retrying" THEN on ELSE NextRecovery(w, rest, TRUE)
             lost == NextRecovery(w, rest, wk[w].progress)
  <2>1. SaveStep(w, s, new, won, lost) /\ wk[w].pc = "recoverSave"
    BY <1>12 DEF RecoverSave, At
  <2> HIDE DEF new, rest
  <2>2. on.tries = 0 /\ on.pc = "recoverEnqueue"
    BY <1>1, <1>2 DEF Goto, WorkerRow
  <2>3. OnWay(on)
    BY <2>2 DEF OnWay
  <2> HIDE DEF on
  <2>4. OnWay(won) /\ won.tries = 0 /\ lost.tries = 0
    BY <1>4, <2>2, <2>3
  <2>5. Coming(w) => lost = NextRecovery(w, rest, TRUE)
    <3>1. wk[w].progress \in BOOLEAN
      BY <1>1 DEF WorkerRow
    <3>2. Coming(w) => wk[w].progress = TRUE
      BY <2>1, <3>1 DEF Coming, OnWay
    <3> QED BY <3>2
  <2> HIDE DEF lost
  <2>6. Coming(w) => OnWay(lost)
    BY <1>4, <2>5
  <2> HIDE DEF won
  <2>7. \/ wk'[w] = won
        \/ wk'[w] = lost /\ step' = step
    <3>1. s \in Steps
      BY <1>3, <2>1
    <3> HIDE DEF s
    <3>2. \/ /\ s \in wk[w].fresh /\ wk'[w] = won
             /\ step'[s] = new /\ \A t \in Steps \ {s} : step'[t] = step[t]
             /\ \A v \in Workers \ {w} : Outdated(v, {s})
          \/ /\ s \notin wk[w].fresh /\ wk'[w] = lost
             /\ step' = step
             /\ \A v \in Workers \ {w} : Outdated(v, {})
      BY <1>1, <2>1, <3>1, Saved
    <3> QED BY <3>2
  <2>8. CASE wk'[w] = won
    <3>1. OnWay(wk'[w])
      BY <2>4, <2>8
    <3> QED BY <2>4, <2>8, <3>1 DEF Carries, Coming, OnWay
  <2>9. CASE wk'[w] = lost /\ step' = step
    <3>1. Coming(w) => OnWay(wk'[w])
      BY <2>6, <2>9
    <3>2. Coming(w) => Coming(w)'
      BY <3>1 DEF Coming, OnWay
    <3> QED BY <2>4, <2>9, <3>2 DEF Carries, Ended
  <2> QED BY <2>7, <2>8, <2>9
<1> QED BY <1>6, <1>7, <1>8, <1>9, <1>10, <1>11, <1>12

-----------------------------------------------------------------------------
(* _sync_run, and the step of any worker.                                  *)

LEMMA ReadCarries ==
  ASSUME IInv, NEW w \in Workers, SyncRead(w)
  PROVE  /\ wk[w].pc = "sync" /\ wk'[w].pc = "syncSave" /\ wk'[w].runFresh
         /\ wk'[w].agg = Aggregate(step) /\ wk'[w].tries = wk[w].tries
         /\ UNCHANGED <<step, run>>
<1> DEFINE a == Aggregate(step)
           row == [Goto(w, "syncSave") EXCEPT !.agg = a, !.runFresh = TRUE]
<1>1. Shapes /\ wk[w] \in WorkerRow
  BY Here
<1>2. LocalStep(w, row) /\ wk[w].pc = "sync"
  BY DEF SyncRead, At
<1> HIDE DEF a
<1>3. /\ row.pc = "syncSave" /\ row.runFresh /\ row.agg = a
      /\ row.tries = wk[w].tries
  BY <1>1 DEF Goto, WorkerRow
<1> HIDE DEF row
<1>4. wk'[w] = row /\ UNCHANGED <<step, run>>
  BY <1>1, <1>2, Stood DEF LocalStep
<1> QED BY <1>2, <1>3, <1>4 DEF a

LEMMA StoreRests ==
  ASSUME IInv, NEW w \in Workers, SyncSave(w)
  PROVE  /\ UNCHANGED step /\ wk[w].pc = "syncSave" /\ wk'[w].pc # "syncSave"
         /\ wk'[w].pc # "sync" => wk'[w].tries = 0
         /\ ~wk[w].runFresh /\ wk[w].tries < SyncRetries
            => wk'[w].pc = "sync" /\ wk'[w].tries = wk[w].tries + 1
<1> DEFINE done == Settled([Goto(w, wk[w].next) EXCEPT !.next = "idle"])
           again == [Goto(w, "sync") EXCEPT !.tries = @ + 1, !.agg = "queued"]
           acked == Settled(AckThen(w, "idle"))
           back == Settled([Goto(w, "sync") EXCEPT !.next = "idle"])
<1>1. Shapes /\ wk[w] \in WorkerRow
  BY Here
<1>2. UNCHANGED step /\ wk[w].pc = "syncSave"
  BY DEF SyncSave, At
<1>3. /\ ~wk[w].runFresh /\ wk[w].tries < SyncRetries => wk' = [wk EXCEPT ![w] = again]
      /\ ~(~wk[w].runFresh /\ wk[w].tries < SyncRetries)
         => \E row \in {IdleWorker, done, acked, back} :
              \/ wk' = [wk EXCEPT ![w] = row]
              \/ wk' = [Outdate({}, TRUE) EXCEPT ![w] = row]
  <2>1. CASE wk[w].runFresh
    <3>1. PICK row \in {IdleWorker, done} : wk' = [Outdate({}, TRUE) EXCEPT ![w] = row]
      BY <2>1 DEF SyncSave, Settled
    <3> QED BY <2>1, <3>1
  <2>2. CASE ~wk[w].runFresh /\ wk[w].tries < SyncRetries
    BY <2>2 DEF SyncSave
  <2>3. CASE ~wk[w].runFresh /\ ~(wk[w].tries < SyncRetries)
    <3>1. PICK row \in {IdleWorker, acked, back} : wk' = [wk EXCEPT ![w] = row]
      BY <2>3 DEF SyncSave, Settled
    <3> QED BY <2>3, <3>1
  <2> QED BY <2>1, <2>2, <2>3
<1>4. /\ done.tries = 0 /\ done.pc = wk[w].next
      /\ acked.tries = 0 /\ acked.pc = "ack"
      /\ back.tries = 0 /\ back.pc = "sync"
      /\ again.pc = "sync" /\ again.tries = wk[w].tries + 1
  BY <1>1 DEF Settled, Goto, AckThen, WorkerRow
<1>5. wk[w].next # "syncSave"
  BY <1>1 DEF WorkerRow
<1>6. IdleWorker.tries = 0 /\ IdleWorker.pc = "idle"
  BY DEF IdleWorker
<1> HIDE DEF done, again, acked, back
<1>7. CASE ~wk[w].runFresh /\ wk[w].tries < SyncRetries
  <2>1. wk'[w] = again
    BY <1>1, <1>3, <1>7, Stood
  <2> QED BY <1>2, <1>4, <1>7, <2>1
<1>8. CASE ~(~wk[w].runFresh /\ wk[w].tries < SyncRetries)
  <2>1. PICK row \in {IdleWorker, done, acked, back} :
          \/ wk' = [wk EXCEPT ![w] = row]
          \/ wk' = [Outdate({}, TRUE) EXCEPT ![w] = row]
    BY <1>3, <1>8
  <2>2. TRUE \in BOOLEAN
    OBVIOUS
  <2>3. wk'[w] = row
    BY <1>1, <2>1, <2>2, Stood
  <2> QED BY <1>2, <1>4, <1>5, <1>6, <1>8, <2>1, <2>3
<1> QED BY <1>7, <1>8

\* Outside _sync_run no worker comes to store a status.
LEMMA OthersNotStale ==
  ASSUME IInv, Ended, NEW w \in Workers,
         WorkerStep(w) \/ Reserve(w) \/ Recover(w) \/ CreateRun(w) \/ Crash(w),
         ~SyncRead(w)
  PROVE  wk'[w].pc # "syncSave"
<1>1. Complete
  BY DEF Ended, Complete, Terminal
<1> QED BY <1>1, PlainDelivery, PlainService DEF Plain, WorkerStep

LEMMA EndedStays ==
  ASSUME Ended, RowsMove, \A s \in Steps : ~Reopens(s)
  PROVE  Aggregate(step') = Aggregate(step) /\ Aggregate(step) \in Terminal
<1>1. Complete
  BY DEF Ended, Complete, Terminal
<1>2. Aggregate(step) \in Terminal
  BY <1>1, AggregateCases DEF Ended, Complete, Terminal
<1> QED BY <1>1, <1>2, EndIsStable

\* A worker ends the last step, or the rest of the work goes on.
LEMMA ActorCarries ==
  ASSUME IInv, Rested, NEW w \in Workers,
         WorkerStep(w) \/ Reserve(w) \/ Recover(w) \/ CreateRun(w) \/ Crash(w)
  PROVE  /\ wk'[w].pc \notin {"sync", "syncSave"} => wk'[w].tries = 0
         /\ Ended' => Ended \/ Coming(w)'
         /\ Ended /\ Coming(w) => Coming(w)' \/ Crash(w) \/ SyncRead(w)
<1>1. CASE Carries(w)
  BY <1>1 DEF Carries
<1>2. CASE SyncRead(w)
  BY <1>2, ReadCarries DEF Ended
<1>3. CASE SyncSave(w)
  <2>1. ~Coming(w)
    BY <1>3, StoreRests DEF Coming, OnWay
  <2> QED BY <1>3, <2>1, StoreRests DEF Ended
<1>4. CASE \/ Reserve(w) \/ Recover(w) \/ CreateRun(w) \/ Crash(w)
           \/ RecoverAfterLoss(w) \/ Publish(w) \/ InsertStep(w)
  BY <1>4, ServiceCarries
<1> QED BY <1>1, <1>2, <1>3, <1>4, DeliveryCarries, ClaimedCarries, WayCarries DEF WorkerStep

LEMMA CrashesCount ==
  ASSUME IInv, NEW w \in Workers, used'.crash = 0,
         WorkerStep(w) \/ Reserve(w) \/ Recover(w) \/ CreateRun(w) \/ Crash(w)
  PROVE  ~Crash(w) /\ used.crash = 0
<1>1. used \in [crash : Nat, lapse : Nat, call : 0..MaxCalls]
  BY DEF IInv, Shapes
<1>2. ~Crash(w)
  BY <1>1 DEF Crash
<1>3. UNCHANGED used
  BY <1>2 DEF WorkerStep, Ack, Release, Inspect, CancelQueued, Claim, Checkpoint, StepRaises,
     HeartbeatRead, HeartbeatSave, Recheck, Finish, FinishConflict, CancelRead, CancelSave,
     FailRead, FailSave, Wave, WaveSave, ReadyList, Publish, SyncRead, SyncSave,
     RecoverAfterLoss, RecoverRead, RecoverSave, RecoverEnqueue, InsertStep, Reserve,
     Recover, CreateRun, LocalStep
<1> QED BY <1>2, <1>3

\* A worker at _sync_run does nothing else.
LEMMA PlaceSays ==
  ASSUME NEW w \in Workers, wk[w].pc \in {"sync", "syncSave"},
         WorkerStep(w) \/ Reserve(w) \/ Recover(w) \/ CreateRun(w) \/ Crash(w)
  PROVE  SyncRead(w) \/ SyncSave(w) \/ Crash(w)
BY DEF WorkerStep, Ack, Release, Inspect, CancelQueued, Claim, Checkpoint, StepRaises,
   HeartbeatRead, HeartbeatSave, Recheck, Finish, FinishConflict, CancelRead, CancelSave,
   FailRead, FailSave, Wave, WaveSave, ReadyList, Publish, RecoverAfterLoss, RecoverRead,
   RecoverSave, RecoverEnqueue, InsertStep, Reserve, Recover, CreateRun, At

\* Who stands keeps a try for every rival, though a rival that writes costs one.
LEMMA CarrierStays ==
  ASSUME IInv, NEW u \in Workers, Carrier(u), Stands(u),
         Aggregate(step') = Aggregate(step), Rivals' \in 0..2,
         \/ wk'[u].runFresh = wk[u].runFresh /\ Rivals' <= Rivals
         \/ ~wk'[u].runFresh /\ Rivals' < Rivals
  PROVE  Carrier(u)'
<1>1. wk[u].tries \in 0..2 /\ wk[u].runFresh \in BOOLEAN /\ Rivals \in 0..2
  BY Here, RivalsCount DEF WorkerRow, SyncRetries
<1>2. CASE Coming(u)
  <2>1. Coming(u)'
    BY <1>2 DEF Coming, OnWay, Stands
  <2> QED BY <2>1 DEF Carrier
<1>3. CASE wk[u].pc = "sync" /\ wk[u].tries + Rivals <= SyncRetries
  <2>1. wk'[u].pc = "sync" /\ wk'[u].tries + Rivals' <= SyncRetries
    BY <1>1, <1>3 DEF Stands, SyncRetries
  <2> QED BY <2>1 DEF Carrier
<1>4. CASE /\ wk[u].pc = "syncSave" /\ wk[u].runFresh
           /\ wk[u].agg = Aggregate(step) /\ wk[u].tries + Rivals <= SyncRetries
  <2>1. /\ wk'[u].pc = "syncSave" /\ wk'[u].agg = Aggregate(step')
        /\ wk'[u].tries = wk[u].tries
    BY <1>4 DEF Stands
  <2>2. CASE wk'[u].runFresh
    <3>1. wk[u].tries + Rivals' <= SyncRetries
      BY <1>1, <1>4, <2>2 DEF SyncRetries
    <3> QED BY <2>1, <2>2, <3>1 DEF Carrier
  <2>3. CASE ~wk'[u].runFresh
    <3>1. Rivals' < Rivals
      BY <1>4, <2>3
    <3>2. wk[u].tries + Rivals' < SyncRetries
      BY <1>1, <1>4, <3>1 DEF SyncRetries
    <3> QED BY <2>1, <2>3, <3>2 DEF Carrier
  <2> QED BY <2>2, <2>3
<1>5. CASE /\ wk[u].pc = "syncSave" /\ ~wk[u].runFresh
           /\ wk[u].tries + Rivals < SyncRetries
  <2>1. /\ wk'[u].pc = "syncSave" /\ ~wk'[u].runFresh
        /\ wk'[u].tries + Rivals' < SyncRetries
    BY <1>1, <1>5 DEF Stands, SyncRetries
  <2> QED BY <2>1 DEF Carrier
<1> QED BY <1>2, <1>3, <1>4, <1>5 DEF Carrier

LEMMA RestedStays ==
  ASSUME IInv, Rested, NEW w \in Workers,
         WorkerStep(w) \/ Reserve(w) \/ Recover(w) \/ CreateRun(w) \/ Crash(w)
  PROVE  Rested' /\ \A v \in Workers \ {w} : Stands(v)
<1>1. Shapes
  BY DEF IInv
<1>2. \A v \in Workers \ {w} : Stands(v)
  BY <1>1, WhoWrites, LeavesOthers, OverwritesOthers
<1>3. wk'[w].pc \notin {"sync", "syncSave"} => wk'[w].tries = 0
  BY ActorCarries
<1> QED BY <1>2, <1>3 DEF Rested, Stands

\* Nobody reads anything but the outcome once it is there.
LEMMA StaleStays ==
  ASSUME IInv, Ended, NEW w \in Workers, Aggregate(step') = Aggregate(step),
         WorkerStep(w) \/ Reserve(w) \/ Recover(w) \/ CreateRun(w) \/ Crash(w)
  PROVE  ~Stale(w)'
<1>1. CASE SyncRead(w)
  BY <1>1, ReadCarries DEF Stale
<1>2. CASE ~SyncRead(w)
  BY <1>2, OthersNotStale DEF Stale
<1> QED BY <1>1, <1>2

LEMMA LeavesCarried ==
  ASSUME IInv, Rested, Carried, Ended, Owed', NEW w \in Workers, Leaves(w),
         WorkerStep(w) \/ Reserve(w) \/ Recover(w) \/ CreateRun(w),
         ~(SyncSave(w) /\ wk[w].runFresh), used.crash = 0,
         Aggregate(step') = Aggregate(step), ~Crash(w)
  PROVE  \E u \in Workers : Carrier(u)'
<1>1. Shapes /\ run' = run /\ ~Stale(w)'
  BY StaleStays DEF IInv, Leaves
<1>2. \A v \in Workers \ {w} : Stands(v) /\ wk'[v].runFresh = wk[v].runFresh
  BY <1>1, LeavesOthers
<1>3. \A v \in Workers : Stale(v)' => Stale(v)
  BY <1>1, <1>2 DEF Stale, Stands
<1>4. Rivals' <= Rivals /\ Rivals \in 0..2 /\ Rivals' \in 0..2
  BY <1>1, <1>3 DEF Rivals
<1>5. Owed
  BY <1>1, <1>3 DEF Owed
<1>6. PICK u \in Workers : Carrier(u)
  BY <1>5 DEF Carried
<1>7. CASE u # w
  <2>1. Carrier(u)'
    BY <1>2, <1>4, <1>6, <1>7, CarrierStays
  <2> QED BY <2>1
<1>8. CASE u = w
  <2>1. wk[w].tries \in 0..2
    BY Here DEF WorkerRow, SyncRetries
  <2>2. CASE SyncRead(w)
    <3>1. wk[w].pc = "sync"
      BY <2>2, ReadCarries
    <3>2. wk[w].tries + Rivals <= 2
      BY <1>4, <1>6, <1>8, <2>1, <3>1 DEF Carrier, Coming, OnWay, SyncRetries
    <3>3. /\ wk'[w].pc = "syncSave" /\ wk'[w].runFresh /\ wk'[w].agg = Aggregate(step')
          /\ wk'[w].tries + Rivals' <= SyncRetries
      BY <1>4, <2>1, <2>2, <3>2, ReadCarries DEF SyncRetries
    <3>4. Carrier(w)'
      BY <3>3 DEF Carrier
    <3> QED BY <3>4
  <2>3. CASE SyncSave(w)
    <3>1. wk[w].pc = "syncSave" /\ ~wk[w].runFresh
      BY <2>3, StoreRests
    <3>2. wk[w].tries + Rivals < 2
      BY <1>6, <1>8, <3>1 DEF Carrier, Coming, OnWay, SyncRetries
    <3>3. wk[w].tries < SyncRetries
      BY <1>4, <2>1, <3>2 DEF SyncRetries
    <3>4. wk'[w].pc = "sync" /\ wk'[w].tries + Rivals' <= SyncRetries
      BY <1>4, <2>1, <2>3, <3>1, <3>2, <3>3, StoreRests DEF SyncRetries
    <3>5. Carrier(w)'
      BY <3>4 DEF Carrier
    <3> QED BY <3>5
  <2>4. CASE ~SyncRead(w) /\ ~SyncSave(w)
    <3>1. wk[w].pc \notin {"sync", "syncSave"}
      BY <2>4, PlaceSays
    <3>2. Coming(w)
      BY <1>6, <1>8, <3>1 DEF Carrier
    <3>3. Coming(w)'
      BY <2>4, <3>2, ActorCarries
    <3>4. Carrier(w)'
      BY <3>3 DEF Carrier
    <3> QED BY <3>4
  <2> QED BY <2>2, <2>3, <2>4
<1> QED BY <1>7, <1>8

\* A rival that writes is the last, or leaves one less.
LEMMA OverwritesCarried ==
  ASSUME IInv, Carried, Ended, Owed', NEW w \in Workers, Overwrites(w), ~Stale(w)',
         used.crash = 0, Aggregate(step') = Aggregate(step), Aggregate(step) \in Terminal,
         \/ wk[w].pc = "syncSave" /\ wk[w].runFresh /\ run'.status = wk[w].agg
         \/ wk[w].pc = "publish" /\ run.status = "queued" /\ run'.status = "failed"
  PROVE  \E u \in Workers : Carrier(u)'
<1>1. Shapes
  BY DEF IInv
<1>2. \A v \in Workers \ {w} : Stands(v) /\ ~wk'[v].runFresh
  BY <1>1, OverwritesOthers
<1>3. \A v \in Workers : ~Stale(v)'
  BY <1>2 DEF Stale
<1>4. Rivals' = IF run'.status = "queued" THEN 1 ELSE 0
  BY <1>3 DEF Rivals
<1>5. run'.status # Aggregate(step)
  BY <1>3 DEF Owed
<1>6. Owed /\ Rivals' < Rivals /\ ~Carrier(w)
  <2>1. CASE wk[w].pc = "syncSave" /\ wk[w].runFresh /\ run'.status = wk[w].agg
    <3>1. Stale(w)
      BY <1>5, <2>1 DEF Stale
    <3>2. Owed /\ Rivals = 2
      BY <3>1 DEF Owed, Rivals
    <3>3. ~Carrier(w)
      BY <1>5, <2>1 DEF Carrier, Coming, OnWay
    <3> QED BY <1>4, <3>2, <3>3
  <2>2. CASE wk[w].pc = "publish" /\ run.status = "queued" /\ run'.status = "failed"
    <3>1. Owed /\ Rivals \in {1, 2}
      BY <2>2 DEF Owed, Rivals, Terminal
    <3>2. ~Carrier(w)
      BY <2>2 DEF Carrier, Coming, OnWay
    <3>3. Rivals' = 0
      BY <1>4, <2>2
    <3> QED BY <3>1, <3>2, <3>3
  <2> QED BY <2>1, <2>2
<1>7. PICK u \in Workers : Carrier(u)
  BY <1>6 DEF Carried
<1>8. u # w /\ Rivals' \in 0..2
  BY <1>4, <1>6, <1>7
<1>9. Carrier(u)'
  BY <1>2, <1>6, <1>7, <1>8, CarrierStays
<1> QED BY <1>9

LEMMA StoresSay ==
  ASSUME IInv, NEW w \in Workers, SyncSave(w), wk[w].runFresh
  PROVE  Overwrites(w) /\ wk[w].pc = "syncSave" /\ run'.status = wk[w].agg
<1>1. Overwrites(w)
  BY DEF SyncSave, Overwrites
<1>2. wk[w].pc = "syncSave" /\ run'.status = wk[w].agg
  BY DEF SyncSave, At, IInv, Shapes
<1> QED BY <1>1, <1>2

LEMMA WorkerCarried ==
  ASSUME IInv, Rested, Carried, NEW w \in Workers,
         WorkerStep(w) \/ Reserve(w) \/ Recover(w) \/ CreateRun(w) \/ Crash(w)
  PROVE  Carried'
<1> SUFFICES ASSUME Owed' PROVE \E u \in Workers : Carrier(u)'
  BY DEF Carried
<1>1. ~Crash(w) /\ used.crash = 0 /\ Ended'
  BY CrashesCount DEF Owed
<1>2. RowsMove /\ \A s \in Steps : ~Reopens(s)
  BY EveryWorkerStep, CallsStay, NoReopening DEF Safe
<1>3. CASE ~Ended
  <2>1. Coming(w)'
    BY <1>1, <1>3, ActorCarries
  <2>2. Carrier(w)'
    BY <2>1 DEF Carrier
  <2> QED BY <2>2
<1>4. CASE Ended
  <2>1. Aggregate(step') = Aggregate(step) /\ Aggregate(step) \in Terminal
    BY <1>2, <1>4, EndedStays
  <2>2. ~Stale(w)'
    BY <1>4, <2>1, StaleStays
  <2>3. \/ Leaves(w) /\ ~(SyncSave(w) /\ wk[w].runFresh)
        \/ /\ Overwrites(w)
           /\ \/ wk[w].pc = "syncSave" /\ wk[w].runFresh /\ run'.status = wk[w].agg
              \/ wk[w].pc = "publish" /\ run.status = "queued" /\ run'.status = "failed"
    BY WhoWrites, StoresSay
  <2>4. CASE Leaves(w) /\ ~(SyncSave(w) /\ wk[w].runFresh)
    BY <1>1, <1>4, <2>1, <2>4, LeavesCarried
  <2>5. CASE /\ Overwrites(w)
             /\ \/ wk[w].pc = "syncSave" /\ wk[w].runFresh /\ run'.status = wk[w].agg
                \/ wk[w].pc = "publish" /\ run.status = "queued" /\ run'.status = "failed"
    BY <1>1, <1>4, <2>1, <2>2, <2>5, OverwritesCarried
  <2> QED BY <2>3, <2>4, <2>5
<1> QED BY <1>3, <1>4

-----------------------------------------------------------------------------
(* The control API and time.                                               *)

LEMMA CallCarried ==
  ASSUME IInv, Rested, ApiCancel \/ \E s \in Steps : ApiRetry(s) \/ ApiReview(s)
  PROVE  Rested' /\ Carried'
<1>1. Shapes
  BY DEF IInv
<1>2. CASE Rows(step) # {}
  <2>1. run'.status = Aggregate(step')
    BY <1>1, <1>2, CallStores
  <2>2. PICK S \in SUBSET Steps : wk' = Outdate(S, TRUE)
    BY <1>1, <1>2, CallStores
  <2>3. \A v \in Workers : Stands(v) /\ ~wk'[v].runFresh
    <3>1. TRUE \in BOOLEAN /\ \A v \in Workers : wk'[v] = Outdate(S, TRUE)[v]
      BY <2>2
    <3> QED BY <1>1, <3>1, RowStands
  <2>4. ~Owed'
    BY <2>1, <2>3 DEF Owed, Stale
  <2> QED BY <2>3, <2>4 DEF Rested, Carried, Stands
<1>3. CASE Rows(step) = {}
  <2>1. \A s \in Steps : step[s].st = "absent"
    BY <1>3 DEF Rows
  <2>2. ApiCancel
    BY <2>1 DEF ApiRetry, ApiReview
  <2>3. step'[1] = step[1] /\ 1 \in Steps
    BY <1>3, <2>2, GraphAssumption DEF ApiCancel, Steps
  <2>4. ~Owed'
    BY <2>1, <2>3 DEF Owed, Ended, Terminal
  <2> DEFINE open == {s \in Rows(step) : step[s].st \notin Terminal}
  <2>5. wk' = Outdate(open, TRUE) /\ TRUE \in BOOLEAN
    BY <2>2 DEF ApiCancel
  <2> HIDE DEF open
  <2>6. \A v \in Workers : wk'[v] = Outdate(open, TRUE)[v]
    BY <2>5
  <2>7. \A v \in Workers : Stands(v)
    BY <1>1, <2>5, <2>6, RowStands
  <2> QED BY <2>4, <2>7 DEF Rested, Carried, Stands
<1> QED BY <1>2, <1>3

LEMMA SameAggregate ==
  ASSUME \A s \in Steps : step'[s].st = step[s].st
  PROVE  Aggregate(step') = Aggregate(step)
<1>1. Rows(step') = Rows(step)
  BY DEF Rows
<1>2. \A states : AllIn(step', states) <=> AllIn(step, states)
  BY <1>1 DEF AllIn, Rows
<1>3. \A states : SomeIn(step', states) <=> SomeIn(step, states)
  BY <1>1 DEF SomeIn, Rows
<1> QED BY <1>1, <1>2, <1>3 DEF Aggregate

LEMMA TimeCarried ==
  ASSUME IInv, Rested, Carried,
         \/ UNCHANGED vars
         \/ ApiPublish
         \/ \E j \in Jobs : JobLeaseLapses(j)
         \/ \E s \in Steps : StepLeaseLapses(s) \/ StepBecomesDue(s)
  PROVE  Rested' /\ Carried'
<1>1. UNCHANGED <<run, wk>> /\ used'.crash = used.crash
  BY DEF vars, ApiPublish, JobLeaseLapses, StepLeaseLapses, StepBecomesDue, Lapse, IInv, Shapes
<1>2. \A s \in Steps : step'[s].st = step[s].st
  <2>1. Shapes /\ \A s \in Steps : step[s] \in StepRowType
    BY DEF IInv, Shapes
  <2>2. CASE UNCHANGED step
    BY <2>2
  <2>3. ASSUME NEW t \in Steps, StepLeaseLapses(t)
        PROVE  \A s \in Steps : step'[s].st = step[s].st
    BY <2>1, <2>3 DEF StepLeaseLapses, Shapes, StepRowType
  <2>4. ASSUME NEW t \in Steps, StepBecomesDue(t)
        PROVE  \A s \in Steps : step'[s].st = step[s].st
    BY <2>1, <2>4 DEF StepBecomesDue, Shapes, StepRowType
  <2> QED BY <2>2, <2>3, <2>4 DEF vars, ApiPublish, JobLeaseLapses
<1>3. Aggregate(step') = Aggregate(step)
  BY <1>2, SameAggregate
<1>4. \A v \in Workers : Stale(v)' <=> Stale(v)
  BY <1>1, <1>3 DEF Stale
<1>5. Rivals' = Rivals /\ (Owed' => Owed)
  BY <1>1, <1>2, <1>3, <1>4 DEF Rivals, Owed, Ended
<1>6. \A v \in Workers : Coming(v) => Coming(v)'
  BY <1>1 DEF Coming, OnWay
<1>7. \A v \in Workers : Carrier(v) => Carrier(v)'
  BY <1>1, <1>3, <1>5, <1>6 DEF Carrier
<1> QED BY <1>1, <1>5, <1>7 DEF Rested, Carried

LEMMA CarriedStep ==
  ASSUME IInv, Rested, Carried, [Next]_vars
  PROVE  Rested' /\ Carried'
<1>1. ASSUME NEW w \in Workers,
             WorkerStep(w) \/ Reserve(w) \/ Recover(w) \/ CreateRun(w) \/ Crash(w)
      PROVE  Rested' /\ Carried'
  BY <1>1, RestedStays, WorkerCarried
<1> QED BY <1>1, CallCarried, TimeCarried DEF Next

LEMMA InitCarried ==
  ASSUME Init
  PROVE  Rested /\ Carried
<1>1. \A w \in Workers : wk[w].tries = 0
  BY DEF Init, IdleWorker
<1>2. step[1].st \in {"queued", "absent"} /\ 1 \in Steps
  BY GraphAssumption DEF Init, StepRow, Steps
<1>3. ~Ended
  BY <1>2 DEF Ended, Terminal
<1> QED BY <1>1, <1>3 DEF Rested, Carried, Owed

-----------------------------------------------------------------------------
(* The theorems.                                                           *)

LEMMA WaitingStarts ==
  ASSUME IInv
  PROVE  WaitingCanStart
<1> SUFFICES ASSUME NEW s \in Steps, step[s].st \in Waiting
             PROVE  /\ step[s].att < step[s].max
                    /\ ~run.cancel => job[<<s, step[s].att + 1>>].st # "done"
  BY DEF WaitingCanStart
<1>1. Shapes /\ JobsSound /\ AttemptsOf(s)
  BY DEF IInv, Attempts
<1>2. PICK k \in Nat : k = step[s].att + 1
  BY <1>1 DEF Shapes, StepRowType
<1>3. step[s].att \in Nat /\ step[s].att < step[s].max
  BY <1>1 DEF AttemptsOf, Shapes, StepRowType
<1>4. <<s, k>> \in Jobs
  <2>1. /\ step[s].max <= MaxAttempts + used.call /\ used.call \in 0..MaxCalls
        /\ step[s].max \in Nat /\ MaxAttempts \in Nat /\ MaxCalls \in Nat
    BY <1>1, BoundAssumption DEF AttemptsOf, Shapes, StepRowType
  <2>2. k \in 1..(MaxAttempts + MaxCalls)
    BY <1>2, <1>3, <2>1
  <2> QED BY <2>2 DEF Jobs
<1>5. ~run.cancel => ~Spent(<<s, k>>)
  BY <1>2, <1>3 DEF Spent, Waiting
<1> QED BY <1>1, <1>2, <1>3, <1>4, <1>5 DEF JobsSound

\* Whatever the graph, the workers, the crashes, lapses and calls: what a worker
\* or a job says of the steps is true, and the rows are sound (scheduler.py,
\* adapters/postgres.py).
THEOREM Invariance ==
  Spec => []IInv
BY InitIInv, IInvStep, PTL DEF Spec

\* Every row, job and worker keeps its shape.
THEOREM TypeCorrect ==
  Spec => []TypeOK
<1>1. IInv => TypeOK
  BY DEF IInv, Shapes, WorkerRow, TypeOK
<1> QED BY <1>1, Invariance, PTL

\* A step that waits can still start: start_step finds an attempt left, and the
\* idempotency key that must wake it has not been acknowledged.
THEOREM WaitingCanAlwaysStart ==
  Spec => []WaitingCanStart
BY WaitingStarts, Invariance, PTL

\* A step runs, awaits review or has ended by itself only once all it depends on
\* has succeeded, and that is never taken back
\* (schedule_ready, _process_delivery).
THEOREM DependenciesComeFirst ==
  Spec => []Started
<1>1. IInv => Started
  BY DEF IInv
<1> QED BY <1>1, Invariance, PTL

\* Only the holder of the lease commits a result, however late it comes.
THEOREM ResultsFromLeaseHolder ==
  Spec => ResultFromLeaseHolder
<1>1. IInv /\ [Next]_vars =>
        [\A s \in Steps :
           step[s].st = "running" /\ step'[s].st \in {"succeeded", "awaiting_review"}
           => \E w \in Workers : At(w, "finish") /\ Mine(w) = s /\ step[s].lease = w]_vars
  BY ResultStep
<1> QED BY <1>1, Invariance, PTL DEF Spec, ResultFromLeaseHolder

\* The scheduler, the queue and the API together implement StepLifecycle: every
\* write of a row is a step of it, every other action stutters.
THEOREM SchedulerImplementsLifecycle ==
  Spec => ImplementsLifecycle
<1>1. IInv /\ [Next]_vars => [Lifecycle!Next]_(Lifecycle!vars)
  BY IInvStep, StepMaps
<1> QED BY <1>1, InitMaps, Invariance, PTL DEF Spec, ImplementsLifecycle, Lifecycle!Spec

\* Of a run whose graph is complete the row tells the truth once it is terminal:
\* no older aggregate overwrites a newer one (_sync_run against the API).  While
\* create_run still inserts rows the aggregate of the first ones can be terminal.
THEOREM TerminalRunsAreTrue ==
  ASSUME Materialized = Steps
  PROVE  Spec => []TerminalRunIsTrue
<1>1. Init => Truth
  BY InitTruth
<1>2. IInv /\ Truth /\ [Next]_vars => Truth'
  BY TruthStep
<1>3. Truth => TerminalRunIsTrue
  BY DEF Truth
<1> QED BY <1>1, <1>2, <1>3, Invariance, PTL DEF Spec

\* Unless a worker crashes, a run whose steps have ended shows their outcome or a
\* worker is on its way to store it: of those that conflict in _sync_run, with
\* each other or with create_run, one has a try left (scheduler.py:307, 712).
THEOREM OutcomeStaysInHand ==
  Spec => []OutcomeIsInHand
<1> DEFINE Inv == IInv /\ Rested /\ Carried
<1>1. Init => Inv
  BY InitIInv, InitCarried
<1>2. Inv /\ [Next]_vars => Inv'
  BY IInvStep, CarriedStep
<1>3. Inv => OutcomeIsInHand
  BY CarriedGives
<1> HIDE DEF Inv
<1> QED BY <1>1, <1>2, <1>3, PTL DEF Spec

=============================================================================
