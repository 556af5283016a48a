---------------------------- MODULE RunAdmission ----------------------------
(***************************************************************************)
(* How a run enters the system.  A client asks the API for a run, a batch  *)
(* of runs, the retry of a batch's failed runs, a webpage video or a full  *)
(* AI video, under an Idempotency-Key.  One transaction records the key    *)
(* and inserts the runs; afterwards each run is published to the intake    *)
(* queue.  A worker that receives the job, or finds the run in its         *)
(* periodic sweep, stores the run's step rows one transaction at a time.   *)
(* What happens then is the business of RunScheduler and is only hinted at *)
(* here.                                                                   *)
(*                                                                         *)
(* A run is a number, in the order of creation.  A request body is known   *)
(* by its fingerprint; the body of a retry is made by the server from the  *)
(* runs that have failed.  Every graph has two step rows.                  *)
(***************************************************************************)
EXTENDS Naturals, FiniteSets

CONSTANTS
    Clients,
    Keys,        \* Idempotency-Keys, each used for one kind of request
    Kinds,       \* the uses of the keys to consider: functions on Keys
    Bodies,      \* fingerprints of the bodies clients send
    Source,      \* the batch that a key retries, named by the batch's own key
    Workers,
    MaxRuns,     \* bound on the runs ever created
    BatchSize,   \* items of a batch
    Limit,       \* MAX_ACTIVE_RUNS_PER_WORKSPACE of webpage videos, 4
    SweepLimit,  \* load_pending_graphs(limit=100)
    Deliveries,  \* max_attempts of an intake job, 5; of a full AI run 1
    MaxFaults,   \* bound on crashes, lost requests, lapses, bad graphs, ...
    None

Kind == {"run", "batch", "retry", "webpage", "full_ai"}

ASSUME AdmissionAssumption ==
    /\ Kinds \subseteq [Keys -> Kind]
    /\ Source \in [Keys -> Keys]
    /\ MaxRuns \in Nat
    /\ BatchSize \in Nat \ {0}
    /\ Limit \in Nat
    /\ SweepLimit \in Nat \ {0}
    /\ Deliveries \in Nat \ {0}
    /\ MaxFaults \in Nat
    /\ None \notin Keys

VARIABLES
    kind,   \* what each key is used for; never changes
    record, \* idempotency_keys: the fingerprint and the runs of the answer
    born,   \* how many runs have been created
    run,    \* rows of `runs`, with the step rows each has
    msg,    \* the intake job of each run
    req,    \* where each client's request stands
    told,   \* history: the successful answers given
    wk,     \* where each worker stands
    faults

vars == <<kind, record, born, run, msg, req, told, wk, faults>>
api == <<kind, record, born, req, told>>

Runs == 1 .. MaxRuns
Prints == Bodies \cup SUBSET Runs

Active == {"queued", "running"}

\* A run that has succeeded or was cancelled is "over".
NoRun == [status |-> "none", key |-> None, graph |-> "none", bad |-> FALSE, reopened |-> FALSE]
NoRecord == [print |-> None, runs |-> {}]
NoMsg == [state |-> "none", by |-> None, n |-> 0]
Idle == [pc |-> "idle", key |-> None, print |-> None, left |-> {}]
Free == [pc |-> "idle", run |-> 0, todo |-> {}, at |-> 0, seen |-> "none"]

Fault == faults < MaxFaults /\ faults' = faults + 1

-----------------------------------------------------------------------------
(* The API.                                                                *)

Is(c, k) == kind[req[c].key] = k

Recorded(k) == record[k].runs # {}

\* Transactions under way with this key: the unique index makes any other
\* insertion of the key wait for their end.
Holders(k) == {c \in Clients : req[c].pc \in {"locked", "counted"} /\ req[c].key = k}

OfKey(k) == {r \in Runs : run[r].key = k}
WebpageRuns == {r \in Runs : run[r].key # None /\ kind[run[r].key] = "webpage"}
ActiveWebpages == {r \in WebpageRuns : run[r].status \in Active}

\* The failed items of the batch to retry.
Failed(k) == {r \in OfKey(Source[k]) : run[r].status = "failed"}

\* The request is over, or goes on with the publication of these runs.
Publishing(k, left) == IF left = {} THEN Idle ELSE [pc |-> "publish", key |-> k, print |-> None, left |-> left]

Answer(k, print, runs) == told' = told \cup {[key |-> k, print |-> print, runs |-> runs]}

\* The key has a record: the runs to publish again are answered to the same
\* request, any other is refused.
Replay(c, k, print, left) ==
    /\ Recorded(k)
    /\ \/ /\ record[k].print = print
          /\ req' = [req EXCEPT ![c] = Publishing(k, left)]
          /\ Answer(k, print, record[k].runs)
       \/ /\ record[k].print # print
          /\ req' = [req EXCEPT ![c] = Idle]
          /\ UNCHANGED told

Goes(c, pc, k, print) == req' = [req EXCEPT ![c] = [pc |-> pc, key |-> k, print |-> print, left |-> {}]]

\* Faulty: does not wait for another insertion of the key.
InsertionUnlocked(c, k, print) ==
    /\ \/ ~Recorded(k) /\ Goes(c, "locked", k, print) /\ UNCHANGED told
       \/ Replay(c, k, print, record[k].runs)
    /\ UNCHANGED <<kind, record, born, run, msg, wk, faults>>

\* _idempotent: insert the key, or wait for whoever is inserting it and answer
\* from its record.
Insertion(c, k, print) ==
    /\ Holders(k) = {}
    /\ \/ ~Recorded(k) /\ Goes(c, "locked", k, print) /\ UNCHANGED told
       \/ Replay(c, k, print, record[k].runs)
    /\ UNCHANGED <<kind, record, born, run, msg, wk, faults>>

\* A run, a batch or a webpage video.  A request that the catalogue, the
\* libraries or the providers do not allow ends before this, without effect.
Request(c, k, body) ==
    /\ req[c].pc = "idle" /\ kind[k] \in {"run", "batch", "webpage"}
    /\ Insertion(c, k, body)

\* FullAiControlService.create_run looks for an earlier run of this key before it
\* checks anything else, and publishes it again only while it is queued.
Find(c, k, body) ==
    /\ req[c].pc = "idle" /\ kind[k] = "full_ai"
    /\ \/ ~Recorded(k) /\ Goes(c, "checked", k, body) /\ UNCHANGED told
       \/ Replay(c, k, body, {r \in record[k].runs : run[r].status = "queued"})
    /\ UNCHANGED <<kind, record, born, run, msg, wk, faults>>

\* retry_failed_generation_batch: the request becomes the creation of a batch
\* with the items that have failed by now, if there are any.
ReadFailed(c, k) ==
    /\ req[c].pc = "idle" /\ kind[k] = "retry"
    /\ Failed(k) # {}
    /\ Goes(c, "checked", k, Failed(k))
    /\ UNCHANGED <<kind, record, born, run, msg, told, wk, faults>>

\* What was read is checked: the estimate, the catalogue, the providers.
Refuse(c) ==
    /\ req[c].pc = "checked"
    /\ req' = [req EXCEPT ![c] = Idle]
    /\ UNCHANGED <<kind, record, born, run, msg, told, wk, faults>>

Insert(c) ==
    /\ req[c].pc = "checked"
    /\ Insertion(c, req[c].key, req[c].print)

\* Faulty: counts without the advisory lock.
CountUnlocked(c) ==
    /\ req[c].pc = "locked" /\ Is(c, "webpage")
    /\ req' = [req EXCEPT ![c] = IF Cardinality(ActiveWebpages) < Limit
                                 THEN [@ EXCEPT !.pc = "counted"] ELSE Idle]
    /\ UNCHANGED <<kind, record, born, run, msg, told, wk, faults>>

\* create_webpage_video_run_idempotently counts the active runs of the
\* workspace under an advisory lock it keeps until the transaction ends.
Count(c) ==
    /\ req[c].pc = "locked" /\ Is(c, "webpage")
    /\ \A d \in Clients : req[d].pc # "counted"
    /\ req' = [req EXCEPT ![c] = IF Cardinality(ActiveWebpages) < Limit
                                 THEN [@ EXCEPT !.pc = "counted"] ELSE Idle]
    /\ UNCHANGED <<kind, record, born, run, msg, told, wk, faults>>

Items(c) == CASE Is(c, "batch") -> BatchSize
              [] Is(c, "retry") -> Cardinality(req[c].print)
              [] OTHER -> 1

\* The runs, their batch or video row and the completed key: one commit.
Create(c) ==
    /\ \/ req[c].pc = "counted"
       \/ req[c].pc = "locked" /\ ~Is(c, "webpage")
    /\ born + Items(c) <= MaxRuns
    /\ \E bad \in BOOLEAN :
         LET new == born + 1 .. born + Items(c) IN
         /\ bad => Fault
         /\ ~bad => UNCHANGED faults
         /\ run' = [r \in Runs |-> IF r \in new
                     THEN [NoRun EXCEPT !.status = "queued", !.key = req[c].key, !.bad = bad]
                     ELSE run[r]]
         /\ record' = [record EXCEPT ![req[c].key] = [print |-> req[c].print, runs |-> new]]
         /\ req' = [req EXCEPT ![c] = Publishing(req[c].key, new)]
         /\ Answer(req[c].key, req[c].print, new)
    /\ born' = born + Items(c)
    /\ UNCHANGED <<kind, msg, wk>>

\* The intake job of one run; its key lets it in once while the queue remembers
\* it.  A batch publishes its runs side by side, and a failure does not stop the
\* others.
Publish(c) ==
    /\ req[c].pc = "publish"
    /\ \E r \in req[c].left :
         /\ msg' = [msg EXCEPT ![r] = IF @ = NoMsg THEN [@ EXCEPT !.state = "ready"] ELSE @]
         /\ req' = [req EXCEPT ![c] = Publishing(@.key, @.left \ {r})]
    /\ UNCHANGED <<kind, record, born, run, told, wk, faults>>

PublishFails(c) ==
    /\ req[c].pc = "publish"
    /\ \E r \in req[c].left : req' = [req EXCEPT ![c] = Publishing(@.key, @.left \ {r})]
    /\ Fault
    /\ UNCHANGED <<kind, record, born, run, msg, told, wk>>

\* The API process or the connection is gone; an open transaction rolls back.
Lost(c) ==
    /\ req[c].pc # "idle"
    /\ req' = [req EXCEPT ![c] = Idle]
    /\ Fault
    /\ UNCHANGED <<kind, record, born, run, msg, told, wk>>

-----------------------------------------------------------------------------
(* The worker.                                                             *)

Queued == {r \in Runs : run[r].status = "queued"}

Rows(r) == CASE run[r].graph = "none" -> 0 [] run[r].graph = "part" -> 1 [] OTHER -> 2

\* load_pending_graphs: the first queued runs, those with the fewest step
\* rows and the oldest first, without those that have all their rows.
Before(r, s) == Rows(r) < Rows(s) \/ (Rows(r) = Rows(s) /\ r < s)
Window == {r \in Queued : Cardinality({s \in Queued : Before(s, r)}) < SweepLimit}

\* Faulty: a run that has some of its rows is taken for initialized.
PendingUntouched == {r \in Window : run[r].graph = "none"}

Pending == {r \in Window : run[r].graph # "whole"}

\* Faulty: forgets that the run may have ended meanwhile.
FailAny(R) == [r \in Runs |-> IF r \in R THEN [run[r] EXCEPT !.status = "failed"] ELSE run[r]]

\* record_initialization_error, which touches queued runs only.
FailQueued(R) == [r \in Runs |-> IF r \in R /\ run[r].status = "queued"
                                 THEN [run[r] EXCEPT !.status = "failed"] ELSE run[r]]

MaxDeliveries(r) == IF kind[run[r].key] = "full_ai" THEN 1 ELSE Deliveries

\* A worker takes an intake job and looks for its run among the pending ones.
\* Loading them fails those whose graph cannot be read.
Reserve(w) ==
    /\ wk[w].pc = "idle"
    /\ \E r \in Runs, unread \in SUBSET {s \in Window : run[s].bad} :
         /\ msg[r].state = "ready" /\ msg[r].n < MaxDeliveries(r)
         /\ msg' = [msg EXCEPT ![r] = [state |-> "leased", by |-> w, n |-> @.n + 1]]
         /\ run' = FailQueued(unread)
         /\ wk' = [wk EXCEPT ![w].pc = "build", ![w].run = r, ![w].todo = (Pending \ unread) \cap {r}]
    /\ UNCHANGED <<api, faults>>

\* _recover_and_initialize, at the start of a worker and then periodically.
Sweep(w) ==
    /\ wk[w].pc = "idle"
    /\ \E unread \in SUBSET {r \in Window : run[r].bad} :
         /\ run' = FailQueued(unread)
         /\ wk' = [wk EXCEPT ![w].pc = "build", ![w].todo = Pending \ unread]
    /\ UNCHANGED <<api, msg, faults>>

\* The worker is through with this run and goes on to the next.
Built(w, r) == [wk EXCEPT ![w].todo = @ \ {r}, ![w].at = 0, ![w].seen = "none"]

\* Scheduler.create_run rejects the graph, or reads which step rows there are
Begin(w) ==
    /\ wk[w].pc = "build" /\ wk[w].at = 0
    /\ \E r \in wk[w].todo :
         \/ /\ run[r].bad
            /\ run' = FailQueued({r})
            /\ wk' = Built(w, r)
         \/ /\ ~run[r].bad
            /\ wk' = IF run[r].graph = "whole" THEN Built(w, r)
                     ELSE [wk EXCEPT ![w].at = r, ![w].seen = run[r].graph]
            /\ UNCHANGED run
    /\ UNCHANGED <<api, msg, faults>>

\* and inserts those it has not seen, one transaction each.
InsertRow(w) ==
    /\ wk[w].at # 0 /\ wk[w].seen = run[wk[w].at].graph
    /\ \/ /\ wk[w].seen = "none"
          /\ run' = [run EXCEPT ![wk[w].at].graph = "part"]
          /\ wk' = [wk EXCEPT ![w].seen = "part"]
       \/ /\ wk[w].seen = "part"
          /\ run' = [run EXCEPT ![wk[w].at].graph = "whole"]
          /\ wk' = Built(w, wk[w].at)
    /\ UNCHANGED <<api, msg, faults>>

Leased(w) == wk[w].run # 0 /\ msg[wk[w].run].state = "leased" /\ msg[wk[w].run].by = w

Settle(w, state) ==
    /\ wk' = [wk EXCEPT ![w] = Free]
    /\ msg' = IF Leased(w) THEN [msg EXCEPT ![wk[w].run].state = state, ![wk[w].run].by = None] ELSE msg

\* Another worker has inserted the row: the job is released, a sweep given up.
RowConflict(w) ==
    /\ wk[w].at # 0 /\ wk[w].seen # run[wk[w].at].graph
    /\ Settle(w, "ready")
    /\ UNCHANGED <<api, run, faults>>

\* Whatever happened to the run, its job is acknowledged.
Done(w) ==
    /\ wk[w].pc = "build" /\ wk[w].todo = {}
    /\ Settle(w, "done")
    /\ UNCHANGED <<api, run, faults>>

\* The lease of a job runs out; after the last delivery the job is dead.
Lapse(r) ==
    /\ msg[r].state = "leased"
    /\ msg' = [msg EXCEPT ![r].state = IF msg[r].n < MaxDeliveries(r) THEN "ready" ELSE "dead",
                          ![r].by = None]
    /\ Fault
    /\ UNCHANGED <<api, run, wk>>

\* The queue forgets the key of a job that is over, seven days after it was
\* enqueued: a repeated request publishes the run again.  (A second copy of a job
\* that has waited this long would offer the run once more, as a sweep does.)
KeyExpires(r) ==
    /\ msg[r].state \in {"done", "dead"}
    /\ msg' = [msg EXCEPT ![r] = NoMsg]
    /\ Fault
    /\ UNCHANGED <<api, run, wk>>

Crash(w) ==
    /\ wk[w] # Free
    /\ wk' = [wk EXCEPT ![w] = Free]
    /\ Fault
    /\ UNCHANGED <<api, run, msg>>

-----------------------------------------------------------------------------
(* The rest of the life of a run, modelled in RunScheduler.                *)

Moves(r, from, to) ==
    /\ run[r].status \in from
    /\ run' = [run EXCEPT ![r].status = to]
    /\ UNCHANGED <<api, msg, wk, faults>>

Start(r) == run[r].graph # "none" /\ Moves(r, {"queued"}, "running")

End(r) == \E to \in {"over", "failed"} : Moves(r, {"running"}, to)

Cancel(r) == Moves(r, Active, "over")

\* The manual retry of a step reopens a run that has failed.
ManualRetry(r) ==
    /\ run[r].status = "failed" /\ run[r].graph # "none" /\ ~run[r].reopened
    /\ run' = [run EXCEPT ![r].status = "running", ![r].reopened = TRUE]
    /\ Fault
    /\ UNCHANGED <<api, msg, wk>>

-----------------------------------------------------------------------------
Init ==
    /\ kind \in Kinds
    /\ record = [k \in Keys |-> NoRecord]
    /\ born = 0
    /\ run = [r \in Runs |-> NoRun]
    /\ msg = [r \in Runs |-> NoMsg]
    /\ req = [c \in Clients |-> Idle]
    /\ told = {}
    /\ wk = [w \in Workers |-> Free]
    /\ faults = 0

ClientStep(c) ==
    \/ \E k \in Keys : ReadFailed(c, k) \/ \E b \in Bodies : Request(c, k, b) \/ Find(c, k, b)
    \/ Refuse(c) \/ Insert(c) \/ Count(c) \/ Create(c)
    \/ Publish(c) \/ PublishFails(c) \/ Lost(c)

WorkerStep(w) ==
    Sweep(w) \/ Reserve(w) \/ Begin(w) \/ InsertRow(w) \/ RowConflict(w) \/ Done(w)

Next ==
    \/ \E c \in Clients : ClientStep(c)
    \/ \E w \in Workers : WorkerStep(w) \/ Crash(w)
    \/ \E r \in Runs : Lapse(r) \/ KeyExpires(r) \/ Start(r) \/ End(r) \/ Cancel(r) \/ ManualRetry(r)

Spec == Init /\ [][Next]_vars

\* Some worker goes on working, while others may hang; the runtime starts a run
\* whose graph is complete.
FairSpec ==
    /\ Spec
    /\ WF_vars(\E w \in Workers : WorkerStep(w))
    /\ \A r \in Runs : WF_vars(run[r].graph = "whole" /\ Start(r))

-----------------------------------------------------------------------------
(* Properties.                                                             *)

RecordRow == [print : Prints \cup {None}, runs : SUBSET Runs]
RunRow == [status : {"none", "queued", "running", "failed", "over"}, key : Keys \cup {None},
           graph : {"none", "part", "whole"}, bad : BOOLEAN, reopened : BOOLEAN]
MsgRow == [state : {"none", "ready", "leased", "done", "dead"}, by : Workers \cup {None},
           n : 0 .. Deliveries]
ReqRow == [pc : {"idle", "checked", "locked", "counted", "publish"}, key : Keys \cup {None},
           print : Prints \cup {None}, left : SUBSET Runs]
WkRow == [pc : {"idle", "build"}, run : 0 .. MaxRuns, todo : SUBSET Runs,
          at : 0 .. MaxRuns, seen : {"none", "part"}]

\* Every variable holds a value of its type; no job is delivered too often.
TypeOK ==
    /\ kind \in [Keys -> Kind]
    /\ record \in [Keys -> RecordRow]
    /\ born \in 0 .. MaxRuns
    /\ run \in [Runs -> RunRow]
    /\ msg \in [Runs -> MsgRow]
    /\ req \in [Clients -> ReqRow]
    /\ told \subseteq [key : Keys, print : Prints \cup {None}, runs : SUBSET Runs]
    /\ wk \in [Workers -> WkRow]
    /\ faults \in 0 .. MaxFaults

\* However often and by however many clients a key is used, the runs that
\* carry it are those of one request, and whoever got an answer asked for just
\* that request and was given just those runs: replays, races, refusals and
\* rolled back transactions create nothing twice and leave nothing behind.
OneEffectPerKey ==
    /\ \A k \in Keys : OfKey(k) = record[k].runs
    /\ \A a \in told : record[a.key] = [print |-> a.print, runs |-> a.runs]

\* The workspace never has more active webpage videos than its limit, however
\* many requests are between counting and committing; only the manual retry of
\* a failed video, which does not count, can go beyond it.
Admitted == {r \in ActiveWebpages : ~run[r].reopened}
LimitKept == Cardinality(Admitted) <= Limit

\* A run that the API has accepted does not stay queued for ever, even if it
\* was never published, its deliveries are used up, its job was acknowledged
\* while it was outside the window, or a worker died between two of its rows.
AcceptedStarts == \A r \in Runs : run[r].status = "queued" ~> run[r].status # "queued"

\* Whatever clients, transactions and crashes do to each other, the commands
\* have the effects and the answers that they have in the in-memory repository,
\* where each of them is a single step under a lock.
ContractRows == [r \in Runs |-> [status |-> run[r].status, key |-> run[r].key, reopened |-> run[r].reopened]]
Contract == INSTANCE AdmissionContract WITH row <- ContractRows, answers <- told
ImplementsContract == Contract!CSpec
=============================================================================
