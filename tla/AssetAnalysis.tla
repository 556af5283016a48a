--------------------------- MODULE AssetAnalysis ---------------------------
(***************************************************************************)
(* Analysis of media assets: the pipeline workers of asset_service.py and  *)
(* asset_pipeline.py over the rows of postgres_asset_jobs.py, next to the  *)
(* control API's asset commands, the operator's tool (tools/asset_jobs.py) *)
(* and the media step that waits for the assets it asked for.              *)
(*                                                                         *)
(* Every transaction and every deciding read is an action.  A job of the   *)
(* API owns one batch of one item and one queue delivery, all named after  *)
(* it.  An item's revision is represented by who still holds it: `fresh'   *)
(* of a worker says that nobody wrote the item since that worker did.  The *)
(* thirteen stages are two: inspection (up to the keyframes, what          *)
(* request_changes retains) and understanding (the rest).                  *)
(***************************************************************************)
EXTENDS Naturals, FiniteSetsExt

CONSTANTS Workers, NoWorker,
          Assets,
          Jobs,          \* analysis jobs the API may record
          AssetOf,       \* the asset of each job
          Parked,        \* the jobs the media step waits for
          MaxAttempts,   \* max_attempts of an item
          Deliveries,    \* max_attempts of a queue job
          AutoReady,     \* FRAMEFACTORY_ASSET_ANALYSIS_AUTO_READY
          Limit,         \* bounds: crashes, leases lapsing under a live worker,
                         \* calls of API clients, commands of the operator's tool
          MaxEvents      \* bound: all of these together

Events == {"crash", "lapse", "call", "hand"}

ASSUME JobAssumption ==
  /\ Jobs # {} /\ AssetOf \in [Jobs -> Assets]
  /\ Parked \subseteq Jobs /\ IsFiniteSet(Parked)
  /\ NoWorker \notin Workers /\ AutoReady \in BOOLEAN
ASSUME LimitAssumption ==
  /\ {MaxAttempts, Deliveries} \subseteq Nat \ {0}
  /\ Limit \in [Events -> Nat] /\ MaxEvents \in Nat

VARIABLES asset,   \* assets rows with their file's scan status
          job,     \* asset_analysis_jobs.status
          batch,   \* asset_analysis_batches rows
          item,    \* asset_analysis_items rows
          msg,     \* the delivery of each job in the asset-analysis queue
          outbox,  \* recorded jobs the API has still to enqueue
          patch,   \* a metadata update between its read and its write
          step,    \* the media step that asked for the Parked jobs
          wk,      \* where each worker is
          hand,    \* jobs a client or an operator interfered with
          used     \* how much of each bound is spent

vars == <<asset, job, batch, item, msg, outbox, patch, step, wk, hand, used>>

Inspect == 1     \* the stages request_changes retains
Stages == 2

Active    == {"pending", "running", "retry_wait"}
Analysable == {"processing", "quarantined", "awaiting_review"}
ItemStates == Active \union {"none", "awaiting_review", "ready", "failed", "cancelled"}
Stopped == {"cancellation_requested", "cancelled"}
Settled == {"completed", "completed_with_errors"}
BatchStates == {"none", "pending", "running"} \union Stopped \union Settled

NewAsset == [st |-> "processing", an |-> "pending", rights |-> TRUE,
             scan |-> "pending", prev |-> "disabled", preview |-> FALSE]
NoItem == [st |-> "none", att |-> 0, done |-> 0, owner |-> NoWorker,
           exp |-> FALSE, due |-> TRUE]
NoPatch == [open |-> FALSE, of |-> CHOOSE a \in Assets : TRUE,
            rights |-> TRUE, preview |-> FALSE, fresh |-> FALSE]
IdleWorker == [pc |-> "idle", job |-> CHOOSE j \in Jobs : TRUE, tool |-> FALSE,
               fresh |-> FALSE, att |-> 0, done |-> 0, rights |-> FALSE,
               retry |-> FALSE, act |-> "ack", group |-> {}]

Init ==
  /\ asset = [a \in Assets |-> NewAsset]
  /\ job = [j \in Jobs |-> "none"]
  /\ batch = [j \in Jobs |-> [st |-> "none", sent |-> FALSE]]
  /\ item = [j \in Jobs |-> NoItem]
  /\ msg = [j \in Jobs |-> [st |-> "none", by |-> NoWorker, n |-> 0]]
  /\ outbox = {} /\ patch = NoPatch /\ hand = {}
  /\ step = [st |-> "running", saw |-> {}]
  /\ wk = [w \in Workers |-> IdleWorker]
  /\ used = [e \in Events |-> 0]

-----------------------------------------------------------------------------
(* Rows.                                                                   *)

At(w, pc) == wk[w].pc = pc
Goto(w, pc) == [wk[w] EXCEPT !.pc = pc]
Mine(w) == wk[w].job
Asset(w) == asset[AssetOf[Mine(w)]]
LocalStep(w, x) ==
  wk' = [wk EXCEPT ![w] = x]
  /\ UNCHANGED <<asset, job, batch, item, msg, outbox, patch, step, hand, used>>

\* Whoever read these items before can no longer write them.
Outdated(S) == [v \in Workers |-> [wk[v] EXCEPT !.fresh = @ /\ wk[v].job \notin S]]

\* One of the bounded events.
Spend(e) ==
  /\ used[e] < Limit[e] /\ MapThenSumSet(LAMBDA x : used[x], Events) < MaxEvents
  /\ used' = [used EXCEPT ![e] = @ + 1]
Call == Spend("call")

\* Items of one asset the partial unique index holds apart.
Others(j) == {k \in Jobs \ {j} : AssetOf[k] = AssetOf[j]}
Clash(j) == \E k \in Others(j) : item[k].st \in Active \union {"awaiting_review"}

\* The asset writes that leave its revision alone do not outdate a patch.
Unpatched(a) == [patch EXCEPT !.fresh = @ /\ patch.of # a]

-----------------------------------------------------------------------------
(* The queue, as the asset service uses it.                                *)

HoldsMsg(w) == msg[Mine(w)].st = "leased" /\ msg[Mine(w)].by = w

Reserve(w) ==
  /\ At(w, "idle")
  /\ \E j \in Jobs :
       /\ msg[j].st = "ready"
       /\ IF msg[j].n < Deliveries
          THEN /\ msg' = [msg EXCEPT ![j] = [st |-> "leased", by |-> w, n |-> @.n + 1]]
               /\ wk' = [wk EXCEPT ![w] = [IdleWorker EXCEPT !.pc = "serve", !.job = j]]
          ELSE msg' = [msg EXCEPT ![j].st = "failed"] /\ UNCHANGED wk
  /\ UNCHANGED <<asset, job, batch, item, outbox, patch, step, hand, used>>

\* ack_payload or release_payload; a lost lease is only logged.
Settle(w) ==
  LET st == IF wk[w].act = "ack" THEN "done" ELSE "ready" IN
  /\ At(w, "settle")
  /\ msg' = IF HoldsMsg(w) THEN [msg EXCEPT ![Mine(w)] = [@ EXCEPT !.st = st, !.by = NoWorker]]
            ELSE msg
  /\ wk' = [wk EXCEPT ![w] = Goto(w, "resume")]
  /\ UNCHANGED <<asset, job, batch, item, outbox, patch, step, hand, used>>

-----------------------------------------------------------------------------
(* create_batch_for_asset and run_batch.                                   *)

Superseded(j) == {k \in Others(j) : item[k].st = "awaiting_review"}

\* A batch that exists has the configuration of this delivery: a job has one
\* payload, and auto_ready is the constant AutoReady (no worker is restarted
\* with another setting while a job is under way).
Serve(w) ==
  LET j == Mine(w)
      a == AssetOf[j]
      settle(act) == [Goto(w, "settle") EXCEPT !.act = act]
  IN
  /\ At(w, "serve")
  /\ \/ /\ batch[j].st # "none" /\ LocalStep(w, Goto(w, "claim"))
     \/ /\ batch[j].st = "none" /\ asset[a].st \notin Analysable
        /\ LocalStep(w, settle("ack"))
     \/ /\ batch[j].st = "none" /\ asset[a].st \in Analysable
        /\ \E k \in Others(j) : k \notin Superseded(j)
                 /\ item[k].st \in Active \union {"awaiting_review"}
        /\ LocalStep(w, settle("release"))
     \/ /\ batch[j].st = "none" /\ asset[a].st \in Analysable
        /\ \A k \in Others(j) : k \in Superseded(j)
                 \/ item[k].st \notin Active \union {"awaiting_review"}
        /\ item' = [k \in Jobs |->
                      IF k = j THEN [NoItem EXCEPT !.st = "pending"]
                      ELSE IF k \in Superseded(j) THEN [item[k] EXCEPT !.st = "cancelled"]
                      ELSE item[k]]
        /\ batch' = [batch EXCEPT ![j].st = "pending"]
        /\ asset' = [asset EXCEPT ![a].st = "processing", ![a].an = "running"]
        /\ job' = [job EXCEPT ![j] = "running"]
        /\ patch' = Unpatched(a)
        /\ wk' = [Outdated(Superseded(j)) EXCEPT ![w] = Goto(w, "claim")]
        /\ UNCHANGED <<msg, outbox, step, hand, used>>

Claimable(j) ==
  /\ batch[j].st \notin Stopped
  /\ \/ item[j].st \in {"pending", "retry_wait"} /\ item[j].due
     \/ item[j].st = "running" /\ item[j].exp

\* Faulty: a lapsed item is taken over with the revision it had.
TakenOverSilently(w) == [v \in Workers |-> wk[v]]
TakenOver(w) == Outdated({Mine(w)})

\* cancel_requested and claim; the claim looks at the cancellation again.
Claim(w) ==
  LET j == Mine(w) IN
  /\ At(w, "claim")
  /\ \/ ~Claimable(j) /\ LocalStep(w, Goto(w, "refresh"))
     \/ /\ Claimable(j)
        /\ item' = [item EXCEPT ![j] = [@ EXCEPT !.st = "running", !.att = item[j].att + 1,
                                          !.owner = w, !.exp = FALSE]]
        /\ batch' = [batch EXCEPT ![j].st = IF @ = "pending" THEN "running" ELSE @]
        /\ wk' = [TakenOver(w) EXCEPT ![w] =
                    [Goto(w, IF item[j].done = Stages THEN "publish" ELSE "stage") EXCEPT
                       !.fresh = TRUE, !.att = item[j].att + 1,
                       !.done = item[j].done, !.rights = Asset(w).rights]]
        /\ UNCHANGED <<asset, job, msg, outbox, patch, step, hand, used>>

-----------------------------------------------------------------------------
(* AssetAnalysisRunner._run_item.                                          *)

CancelSeen(w) == batch[Mine(w)].st \in Stopped

\* After the item: the service looks at the batch, the tool at the next item.
NextItem(w) == Goto(w, IF wk[w].tool THEN "claim" ELSE "refresh")
\* An exception leaves run_batch.
Raised(w) == IF wk[w].tool THEN IdleWorker
             ELSE [Goto(w, "settle") EXCEPT !.act = "release"]
Failing(w, retry) == [Goto(w, "fail") EXCEPT !.retry = retry]

StageStarts(w) ==
  /\ At(w, "stage")
  /\ LocalStep(w, Goto(w, IF CancelSeen(w) THEN "cancel" ELSE "work"))

\* A stage, or what follows the last one up to the publication's commit
\* (normalized_analysis refuses a result, the database an answer).
StageFails(w) ==
  /\ At(w, "work") \/ At(w, "publish")
  /\ \E retry \in BOOLEAN : LocalStep(w, Failing(w, retry))

\* The processor polls the cancellation while it works.
StageAborts(w) == At(w, "work") /\ CancelSeen(w) /\ LocalStep(w, Goto(w, "abort"))

Checkpoint(w) ==
  LET j == Mine(w)
      done == wk[w].done + 1
  IN
  /\ At(w, "work")
  /\ \/ ~wk[w].fresh /\ LocalStep(w, Failing(w, TRUE))
     \/ /\ wk[w].fresh
        /\ item' = [item EXCEPT ![j].done = done, ![j].exp = FALSE]
        /\ wk' = [wk EXCEPT ![w] = [Goto(w, IF done = Stages THEN "publish" ELSE "stage")
                                      EXCEPT !.done = done]]
        /\ UNCHANGED <<asset, job, batch, msg, outbox, patch, step, hand, used>>

Ended(st) == [item EXCEPT ![st[1]] = [@ EXCEPT !.st = st[2], !.owner = NoWorker, !.exp = FALSE]]

\* mark_cancelled; a conflict inside the try becomes a failure of the stage,
\* one inside the handler leaves the runner.
MarkCancelled(w) ==
  /\ At(w, "cancel") \/ At(w, "abort")
  /\ \/ /\ wk[w].fresh
        /\ item' = Ended(<<Mine(w), "cancelled">>)
        /\ wk' = [wk EXCEPT ![w] = NextItem(w)]
        /\ UNCHANGED <<asset, job, batch, msg, outbox, patch, step, hand, used>>
     \/ ~wk[w].fresh
        /\ LocalStep(w, IF At(w, "cancel") THEN Failing(w, TRUE) ELSE Raised(w))

\* Faulty: the asset is published although it was withdrawn meanwhile.
MayPublishAny(w) == wk[w].fresh
MayPublish(w) == wk[w].fresh /\ Asset(w).st \in Analysable

\* publish_analysis; the review gate judges the rights read at the claim, and
\* the asset's revision stays as it was.
Publish(w) ==
  LET j == Mine(w)
      a == AssetOf[j]
  IN
  /\ At(w, "publish")
  /\ \/ ~MayPublish(w) /\ LocalStep(w, Failing(w, TRUE))
     \/ /\ MayPublish(w)
        /\ \E eligible \in (IF wk[w].rights THEN BOOLEAN ELSE {FALSE}) :
             LET target == IF AutoReady /\ eligible THEN "ready" ELSE "awaiting_review" IN
             /\ asset' = [asset EXCEPT ![a] = [@ EXCEPT !.st = target, !.an = "completed",
                                                 !.scan = "clean", !.preview = TRUE]]
             /\ item' = Ended(<<j, target>>)
        /\ job' = [job EXCEPT ![j] = "succeeded"]
        /\ wk' = [wk EXCEPT ![w] = NextItem(w)]
        /\ UNCHANGED <<batch, msg, outbox, patch, step, hand, used>>

Retries(w) == wk[w].retry /\ wk[w].att < MaxAttempts

\* Faulty: only an error that cannot be retried is shown.
GivesUpAtOnce(w) == ~wk[w].retry
GivesUp(w) == ~Retries(w)

\* mark_failure: the conflict is raised after the transaction, so that the
\* asset and the job learn of a failure even when the item is not ours.
MarkFailure(w) ==
  LET j == Mine(w)
      a == AssetOf[j]
  IN
  /\ At(w, "fail")
  /\ item' = IF ~wk[w].fresh THEN item
             ELSE IF ~Retries(w) THEN Ended(<<j, "failed">>)
             ELSE [Ended(<<j, "retry_wait">>) EXCEPT ![j].due = FALSE]
  /\ IF GivesUp(w)
     THEN /\ \E scan \in (IF wk[w].done < Inspect
                          THEN {asset[a].scan, "rejected", "failed"} ELSE {asset[a].scan}) :
               asset' = [asset EXCEPT ![a] = [@ EXCEPT !.st = "quarantined",
                                                !.an = "failed", !.scan = scan]]
          /\ job' = [job EXCEPT ![j] = "failed"]
          /\ patch' = Unpatched(a)
     ELSE UNCHANGED <<asset, job, patch>>
  /\ wk' = [wk EXCEPT ![w] = IF wk[w].fresh THEN NextItem(w) ELSE Raised(w)]
  /\ UNCHANGED <<batch, msg, outbox, step, hand, used>>

BatchStatus(st) ==
  CASE st \in Active      -> "running"
    [] st = "cancelled"   -> "cancelled"
    [] st = "failed"      -> "completed_with_errors"
    [] OTHER              -> "completed"

\* Faulty: an item that has to wait is taken for settled.
PendingNever(j) == FALSE
Pending(j) == item[j].st \in {"pending", "retry_wait"}

\* refresh_batch, whatever the batch's status was.
Refresh(w) ==
  LET j == Mine(w) IN
  /\ At(w, "refresh")
  /\ batch' = [batch EXCEPT ![j].st = BatchStatus(item[j].st)]
  /\ wk' = [wk EXCEPT ![w] = IF wk[w].tool THEN IdleWorker
              ELSE [Goto(w, "settle") EXCEPT
                      !.act = IF Pending(j) THEN "release" ELSE "ack"]]
  /\ UNCHANGED <<asset, job, item, msg, outbox, patch, step, hand, used>>

-----------------------------------------------------------------------------
(* resume_settled_runs.                                                    *)

\* pending_resume_targets: the parked step's batches, once all of them settled.
Targets ==
  LET group == {j \in Parked : batch[j].st # "none" /\ ~batch[j].sent} IN
  IF group # {} /\ Cardinality(group) >= Cardinality(Parked)
     /\ \A j \in group : batch[j].st \in Settled
  THEN group ELSE {}

\* Faulty: a running step is taken for one that needs nothing any more.
StepUnmovedWaiting(st) == FALSE
StepUnmoved(st) == st = "running"

\* After a delivery, and in the periodic pass of an idle worker.
ResumeRead(w) ==
  /\ At(w, "resume") \/ (At(w, "idle") /\ Targets # {} /\ ~StepUnmoved(step.st))
  /\ LocalStep(w, IF Targets = {} \/ StepUnmoved(step.st) THEN IdleWorker
                  ELSE [IdleWorker EXCEPT !.group = Targets,
                          !.pc = IF step.st = "awaiting_review" THEN "review" ELSE "mark"])

\* Scheduler.review(request_changes): one compare-and-swap of the step.
ResumeReview(w) ==
  /\ At(w, "review")
  /\ IF step.st = "awaiting_review"
     THEN /\ step' = [step EXCEPT !.st = "retrying"]
          /\ wk' = [wk EXCEPT ![w].pc = "mark"]
     ELSE wk' = [wk EXCEPT ![w] = IdleWorker] /\ UNCHANGED step
  /\ UNCHANGED <<asset, job, batch, item, msg, outbox, patch, hand, used>>

ResumeMark(w) ==
  /\ At(w, "mark")
  /\ batch' = [j \in Jobs |-> IF j \in wk[w].group THEN [batch[j] EXCEPT !.sent = TRUE]
                              ELSE batch[j]]
  /\ wk' = [wk EXCEPT ![w] = IdleWorker]
  /\ UNCHANGED <<asset, job, item, msg, outbox, patch, step, hand, used>>

\* The media step: it starts again, parks behind what it asked for, or ends.
StepStarts ==
  /\ step.st = "retrying"
  /\ step' = [st |-> "running", saw |-> {j \in Parked : job[j] \in {"succeeded", "failed"}}]
  /\ UNCHANGED <<asset, job, batch, item, msg, outbox, patch, wk, hand, used>>

StepEnds ==
  /\ step.st = "running" /\ Parked \subseteq {j \in Jobs : job[j] # "none"}
  /\ step' \in {[step EXCEPT !.st = "awaiting_review"], [step EXCEPT !.st = "succeeded"]}
  /\ UNCHANGED <<asset, job, batch, item, msg, outbox, patch, wk, hand, used>>

-----------------------------------------------------------------------------
(* Clients of the control API.                                             *)

Touched(a) == hand \union {j \in Jobs : AssetOf[j] = a}

\* create_asset_analysis_job; the first job of an asset follows its upload.
RequestAnalysis(j) ==
  LET a == AssetOf[j]
      first == \A k \in Jobs : AssetOf[k] = a => job[k] = "none"
  IN
  /\ job[j] = "none" /\ asset[a].st # "deleted"
  /\ IF first THEN UNCHANGED used ELSE Call
  /\ job' = [job EXCEPT ![j] = "queued"]
  /\ asset' = [asset EXCEPT ![a].st = "processing", ![a].an = "pending"]
  /\ outbox' = outbox \union {j}
  /\ patch' = Unpatched(a)
  /\ UNCHANGED <<batch, item, msg, step, wk, hand>>

\* The publication after the commit, or its loss (a 503, a crash).
EnqueueAnalysis ==
  /\ \E j \in outbox :
       /\ outbox' = outbox \ {j}
       /\ \/ msg' = [msg EXCEPT ![j].st = "ready"] /\ UNCHANGED hand
                /\ UNCHANGED used
          \/ Spend("crash") /\ hand' = hand \union {j} /\ UNCHANGED msg
  /\ UNCHANGED <<asset, job, batch, item, patch, step, wk>>

\* ready_blockers
\* Faulty: the rights are enough.
ReadyAllowedByRights(a) == asset[a].rights
ReadyAllowed(a) ==
  asset[a].rights /\ asset[a].scan = "clean" /\ asset[a].an = "completed"

AllowedTransitions ==
  [processing |-> {"quarantined", "ready", "disabled", "deleted"},
   quarantined |-> {"processing", "ready", "disabled", "deleted"},
   awaiting_review |-> {"processing", "quarantined", "ready", "disabled", "deleted"},
   ready |-> {"processing", "quarantined", "disabled", "deleted"},
   disabled |-> {"processing", "quarantined", "ready", "deleted"},
   deleted |-> {"processing", "quarantined", "ready", "disabled"}]

\* transition_asset_status, delete_asset; also restore_asset, whose target is
\* the status kept at the deletion.
TransitionAsset(a) ==
  /\ Call
  /\ \E target \in AllowedTransitions[asset[a].st] :
       /\ target = "ready" => ReadyAllowed(a)
       /\ asset' = [asset EXCEPT ![a] = [@ EXCEPT !.st = target,
                      !.prev = IF target = "deleted" THEN asset[a].st ELSE asset[a].prev]]
  /\ patch' = Unpatched(a) /\ hand' = Touched(a)
  /\ UNCHANGED <<job, batch, item, msg, outbox, step, wk>>

\* update_asset_metadata: the service merges into what it read, the
\* repository writes the whole metadata if the revision is the same.
ReadMetadata(a) ==
  /\ ~patch.open /\ Call
  /\ \E rights \in BOOLEAN :
       patch' = [open |-> TRUE, of |-> a, rights |-> rights,
                 preview |-> asset[a].preview, fresh |-> TRUE]
  /\ UNCHANGED <<asset, job, batch, item, msg, outbox, step, wk, hand>>

WriteMetadata ==
  /\ patch.open
  /\ asset' = IF patch.fresh
              THEN [asset EXCEPT ![patch.of].rights = patch.rights,
                                 ![patch.of].preview = patch.preview]
              ELSE asset
  /\ patch' = NoPatch
  /\ UNCHANGED <<job, batch, item, msg, outbox, step, wk, hand, used>>

-----------------------------------------------------------------------------
(* The operator's tool.                                                    *)

ByHand(j) == Spend("hand") /\ hand' = hand \union {j}

RequestCancel(j) ==
  LET dropped == IF item[j].st \in {"pending", "retry_wait"} THEN {j} ELSE {} IN
  /\ batch[j].st # "none" /\ ByHand(j)
  /\ batch' = [batch EXCEPT ![j].st =
                 IF @ \in {"pending", "running"} THEN "cancellation_requested" ELSE @]
  /\ item' = [k \in Jobs |-> IF k \in dropped THEN [item[k] EXCEPT !.st = "cancelled"] ELSE item[k]]
  /\ wk' = Outdated(dropped)
  /\ UNCHANGED <<asset, job, msg, outbox, patch, step>>

\* retry_failed: the batch runs again, even one that was cancelled.
RetryFailed(j) ==
  LET again == item[j].st = "failed" /\ item[j].att < MaxAttempts IN
  /\ batch[j].st # "none" /\ (again => ~Clash(j)) /\ ByHand(j)
  /\ item' = IF again THEN [item EXCEPT ![j].st = "retry_wait", ![j].due = TRUE] ELSE item
  /\ batch' = [batch EXCEPT ![j].st = "running"]
  /\ wk' = Outdated(IF again THEN {j} ELSE {})
  /\ UNCHANGED <<asset, job, msg, outbox, patch, step>>

Approvable(a) == asset[a].rights /\ asset[a].scan = "clean"

\* review: neither the batch nor the asset's revision is written.
ReviewItem(j) ==
  LET a == AssetOf[j]
      decide(st, done, shown) ==
        /\ item' = [item EXCEPT ![j] = [@ EXCEPT !.st = st, !.done = done, !.due = TRUE]]
        /\ asset' = [asset EXCEPT ![a].st = shown]
  IN
  /\ item[j].st = "awaiting_review" /\ ByHand(j)
  /\ \/ Approvable(a) /\ decide("ready", item[j].done, "ready")
     \/ decide("retry_wait", Inspect, "quarantined")
     \/ decide("cancelled", item[j].done, "quarantined")
  /\ UNCHANGED <<job, batch, msg, outbox, patch, step, wk>>

\* run: run_batch in a process of its own, until nothing can be claimed.
RunTool(w, j) ==
  /\ At(w, "idle") /\ batch[j].st # "none" /\ ByHand(j)
  /\ wk' = [wk EXCEPT ![w] = [IdleWorker EXCEPT !.pc = "claim", !.job = j, !.tool = TRUE]]
  /\ UNCHANGED <<asset, job, batch, item, msg, outbox, patch, step>>

-----------------------------------------------------------------------------
(* Time and crashes.                                                       *)

Works(w, j) == wk[w].job = j /\ wk[w].pc \in {"stage", "work", "cancel", "abort", "publish", "fail"}
Handles(w, j) == wk[w].job = j /\ ~wk[w].tool /\ wk[w].pc \notin {"idle", "resume", "review", "mark"}

\* A lease lapses once its holder is gone; under a live holder it is bounded.
Lapse(live) == IF live THEN Spend("lapse") ELSE UNCHANGED used

ItemLeaseLapses(j) ==
  /\ item[j].st = "running" /\ ~item[j].exp
  /\ Lapse(item[j].owner \in Workers /\ Works(item[j].owner, j))
  /\ item' = [item EXCEPT ![j].exp = TRUE]
  /\ UNCHANGED <<asset, job, batch, msg, outbox, patch, step, wk, hand>>

\* Faulty: a queue lease as short as the item's.
EndsAnyTime(j) == TRUE
\* The queue lease (600 s, renewed every 30 s) outlasts the item lease its
\* holder leaves behind (300 s).
EndsAfterItem(j) ==
  item[j].st = "running" /\ item[j].owner = msg[j].by => item[j].exp

MsgLeaseLapses(j) ==
  LET live == msg[j].by \in Workers /\ Handles(msg[j].by, j) IN
  /\ msg[j].st = "leased" /\ (live \/ EndsAfterItem(j))
  /\ Lapse(live)
  /\ msg' = [msg EXCEPT ![j] = [@ EXCEPT !.st = "ready", !.by = NoWorker]]
  /\ UNCHANGED <<asset, job, batch, item, outbox, patch, step, wk, hand>>

\* _ItemLeaseHeartbeat: renewing looks at the owner, not at the clock.
RenewItem(w) ==
  LET j == Mine(w) IN
  /\ Works(w, j) /\ item[j].st = "running" /\ item[j].owner = w /\ item[j].exp
  /\ item' = [item EXCEPT ![j].exp = FALSE]
  /\ UNCHANGED <<asset, job, batch, msg, outbox, patch, step, wk, hand, used>>

ItemBecomesDue(j) ==
  /\ item[j].st = "retry_wait" /\ ~item[j].due
  /\ item' = [item EXCEPT ![j].due = TRUE]
  /\ UNCHANGED <<asset, job, batch, msg, outbox, patch, step, wk, hand, used>>

Crash(w) ==
  /\ ~At(w, "idle") /\ Spend("crash")
  /\ wk' = [wk EXCEPT ![w] = IdleWorker]
  /\ UNCHANGED <<asset, job, batch, item, msg, outbox, patch, step, hand>>

-----------------------------------------------------------------------------
WorkerStep(w) ==
  \/ Serve(w) \/ Claim(w) \/ StageStarts(w) \/ StageFails(w) \/ StageAborts(w)
  \/ Checkpoint(w) \/ MarkCancelled(w) \/ Publish(w) \/ MarkFailure(w)
  \/ Refresh(w) \/ Settle(w) \/ ResumeReview(w) \/ ResumeMark(w)

Next ==
  \/ \E w \in Workers : \/ WorkerStep(w) \/ Reserve(w) \/ ResumeRead(w)
                        \/ RenewItem(w) \/ Crash(w)
                        \/ \E j \in Jobs : RunTool(w, j)
  \/ \E j \in Jobs : \/ RequestAnalysis(j) \/ RequestCancel(j) \/ RetryFailed(j)
                     \/ ReviewItem(j) \/ ItemLeaseLapses(j) \/ MsgLeaseLapses(j)
                     \/ ItemBecomesDue(j)
  \/ \E a \in Assets : TransitionAsset(a) \/ ReadMetadata(a)
  \/ EnqueueAnalysis \/ WriteMetadata \/ StepStarts \/ StepEnds

Spec == Init /\ [][Next]_vars

\* Workers keep polling and PostgreSQL and Redis answer; a lease nobody renews
\* ends.  Nothing obliges a client, the operator or a crash.
Orphaned(j) ==
  \/ ItemLeaseLapses(j) /\ used' = used
  \/ MsgLeaseLapses(j) /\ used' = used
Fairness ==
  /\ \A w \in Workers : WF_vars(WorkerStep(w)) /\ WF_vars(Reserve(w))
                        /\ WF_vars(ResumeRead(w))
  /\ \A j \in Jobs : WF_vars(Orphaned(j)) /\ WF_vars(ItemBecomesDue(j))
  /\ WF_vars(EnqueueAnalysis) /\ WF_vars(StepStarts) /\ WF_vars(StepEnds)
FairSpec == Spec /\ Fairness

-----------------------------------------------------------------------------
(* Properties.                                                             *)

\* Rows, deliveries and workers keep their shape; an item has an owner while
\* it runs, a delivery a holder while it is leased.
TypeOK ==
  /\ asset \in [Assets -> [st : DOMAIN AllowedTransitions,
                 an : {"pending", "running", "completed", "failed"}, rights : BOOLEAN,
                 scan : {"pending", "clean", "rejected", "failed"},
                 prev : DOMAIN AllowedTransitions, preview : BOOLEAN]]
  /\ job \in [Jobs -> {"none", "queued", "running", "succeeded", "failed"}]
  /\ batch \in [Jobs -> [st : BatchStates, sent : BOOLEAN]]
  /\ item \in [Jobs -> [st : ItemStates, att : Nat, done : 0..Stages,
                        owner : Workers \union {NoWorker}, exp : BOOLEAN, due : BOOLEAN]]
  /\ msg \in [Jobs -> [st : {"none", "ready", "leased", "done", "failed"},
                       by : Workers \union {NoWorker}, n : 0..Deliveries]]
  /\ outbox \subseteq Jobs /\ hand \subseteq Jobs
  /\ patch \in [open : BOOLEAN, of : Assets, rights : BOOLEAN, preview : BOOLEAN, fresh : BOOLEAN]
  /\ step \in [st : {"running", "awaiting_review", "retrying", "succeeded"}, saw : SUBSET Parked]
  /\ \A j \in Jobs : /\ item[j].st = "running" <=> item[j].owner # NoWorker
                     /\ msg[j].st = "leased" <=> msg[j].by # NoWorker
  /\ \A w \in Workers : wk[w].job \in Jobs /\ wk[w].done \in 0..Stages /\ wk[w].group \subseteq Parked

\* Nothing is ready whose file was not scanned clean, whichever of publication,
\* transition, restoration and review made it ready (asset_policy.py:61).
ReadyWasScanned == \A a \in Assets : asset[a].st = "ready" => asset[a].scan = "clean"

\* A result is published by the worker that holds the item, after all stages,
\* of an asset nobody withdrew, whoever lost its lease meanwhile.
PublishedByHolder ==
  [][\A j \in Jobs :
       item[j].st = "running" /\ item'[j].st \in {"ready", "awaiting_review"} =>
         /\ \E w \in Workers : /\ item[j].owner = w /\ At(w, "publish") /\ Mine(w) = j
         /\ item[j].done = Stages /\ asset[AssetOf[j]].st \in Analysable]_vars

\* While leases hold, the verdict the API shows for a job is that of its item,
\* across the tables that publish_analysis and mark_failure write.
VerdictsAgree ==
  used.lapse = 0 => \A j \in Jobs \ hand :
     /\ item[j].st = "failed" <=> job[j] = "failed"
     /\ item[j].st \in {"ready", "awaiting_review"} => job[j] = "succeeded"

\* Neither a started job nor the parked step is forgotten.  While leases hold a
\* job is not acknowledged before its verdict; and batches are marked as
\* reported to a step only if it runs, or has run, after their verdicts.
NothingIsForgotten ==
  /\ used.lapse = 0 => \A j \in Jobs \ hand :
       job[j] = "running" => msg[j].st \in {"ready", "leased", "failed"}
  /\ (\E j \in Parked : batch[j].sent) => step.st # "awaiting_review" \/ Parked \subseteq step.saw

\* Beyond the service's reach: no delivery left, interference, a lost lease.
Spent(j) == msg[j].st = "failed" \/ j \in hand \/ used.lapse > 0
\* A started job ends, through crashes, retries and waiting items.
JobsSettle ==
  \A j \in Jobs : job[j] = "running" ~> (job[j] \in {"succeeded", "failed"} \/ Spent(j))
\* A step parked behind settled assets runs again.
StepWoken ==
  (step.st = "awaiting_review" /\ \A j \in Parked : job[j] \in {"succeeded", "failed"})
     ~> (step.st # "awaiting_review" \/ Parked \subseteq step.saw \/ \E j \in Parked : Spent(j))
=============================================================================
