---------------------------- MODULE LibraryBuild ----------------------------
(***************************************************************************)
(* A topic library build: the coordinator of library_build_service.py over *)
(* its compare-and-swap row, the control API's acquisition endpoint it     *)
(* calls, and the assets whose analysis it waits for.  Several workers     *)
(* share the queue; an acquisition runs on in the API when its worker has  *)
(* crashed or has stopped waiting, so two may be under way.                *)
(*                                                                         *)
(* There is one build.  Its revision is represented by who still holds it: *)
(* `fresh' of a worker says that nobody wrote the row since that worker    *)
(* read or wrote it.  The 2000 deliveries of its message are taken as      *)
(* inexhaustible.  The topic has one list of candidates, found in the same *)
(* order by every search: URLs, each represented by its place in the list, *)
(* and two of them may have the same content, which is one asset.  A       *)
(* message always carries the library of its row: its only publisher       *)
(* copies it from there, so the coordinator's refusal of a message with    *)
(* another library is out of reach.                                        *)
(***************************************************************************)
EXTENDS Naturals, Sequences, FiniteSets

CONSTANTS Workers, NoWorker,
          Calls,        \* acquisitions the API can have under way
          NoCall,
          Assets,
          Found,        \* the asset each URL leads to, in the order of the search
          Budget,       \* max_assets of the build
          MaxEvents     \* bound: interruptions, failures and commands of users

ASSUME NameAssumption == NoWorker \notin Workers /\ NoCall \notin Calls
ASSUME FoundAssumption == Found \in Seq(Assets) /\ Budget \in Nat \ {0}
ASSUME BoundAssumption == MaxEvents \in Nat

VARIABLES build,   \* library_build_jobs row
          msg,     \* its delivery in the library-build queue
          wk,      \* where each worker is
          call,    \* the acquisitions the API has under way
          known,   \* URLs whose import the API process remembers
          asset,   \* the candidates' assets rows
          indexed, \* the assets some analysis ended ready
          used,    \* how much of the bound is spent
          cut      \* whether an acquisition may have stopped half way

buildVars == <<build, msg, wk, call, known, asset, indexed, used, cut>>

EndedStatuses == {"completed", "completed_with_errors", "failed", "cancelled"}
Statuses == {"none", "queued", "running"} \union EndedStatuses
Acquiring == {"discover", "transfer"}
Following == {"analyze", "index"}

\* up: the upload is marked complete; scanned: the file is no longer to be
\* scanned; done: what became of the one analysis job the asset has, which is
\* lost when it found the asset deleted.
NoAsset == [st |-> "none", an |-> "none", rev |-> 0, up |-> FALSE, scanned |-> FALSE,
            asked |-> 0, sent |-> FALSE, done |-> "no"]
IdleWorker == [pc |-> "idle", fresh |-> FALSE, call |-> NoCall, got |-> {},
               err |-> FALSE, waits |-> FALSE, good |-> FALSE, act |-> "release"]
FreeCall == [pc |-> "free", todo |-> 1, rev |-> 0, got |-> {}, jobs |-> {},
             errs |-> FALSE, again |-> FALSE]

BuildInit ==
  /\ build = [st |-> "none", stage |-> "discover", list |-> {}, err |-> FALSE]
  /\ msg = [st |-> "none", by |-> NoWorker]
  /\ wk = [w \in Workers |-> IdleWorker]
  /\ call = [c \in Calls |-> FreeCall]
  /\ known = {} /\ indexed = {}
  /\ asset = [a \in Assets |-> NoAsset]
  /\ used = 0 /\ cut = FALSE

\* A bounded event, and one that may interrupt an acquisition.
Spend == used < MaxEvents /\ used' = used + 1
Event == Spend /\ UNCHANGED cut
Interrupt == Spend /\ cut' = TRUE

At(w, pc) == wk[w].pc = pc
Goto(w, pc) == [wk[w] EXCEPT !.pc = pc]
Release(w) == [Goto(w, "settle") EXCEPT !.act = "release"]
Ack(w) == [Goto(w, "settle") EXCEPT !.act = "ack"]
LocalStep(w, x) ==
  wk' = [wk EXCEPT ![w] = x] /\ UNCHANGED <<build, msg, call, known, asset, indexed, used, cut>>

-----------------------------------------------------------------------------
(* The row, as the client of the API sees it.                              *)

\* Whoever read the row before can no longer write it.
Outdated == [v \in Workers |-> [wk[v] EXCEPT !.fresh = FALSE]]

\* A worker writes the row it holds and goes on as `won', or finds that it was
\* written since and goes on as `lost'.
Write(w, permitted, row, won, lost) ==
  /\ IF wk[w].fresh /\ permitted
     THEN build' = row /\ wk' = [Outdated EXCEPT ![w] = won]
     ELSE wk' = [wk EXCEPT ![w] = lost] /\ UNCHANGED build
  /\ UNCHANGED <<msg, known, asset, indexed>>

CreateBuild ==
  /\ build.st = "none" /\ build' = [build EXCEPT !.st = "queued"]
  /\ UNCHANGED <<msg, wk, call, known, asset, indexed, used, cut>>

\* The handler of the create, or of its repetition with the same key.
PublishBuild ==
  /\ build.st = "queued" /\ msg.st = "none"
  /\ msg' = [msg EXCEPT !.st = "ready"]
  /\ UNCHANGED <<build, wk, call, known, asset, indexed, used, cut>>

CancelBuild ==
  /\ build.st \in {"queued", "running"} /\ Event
  /\ build' = [build EXCEPT !.st = "cancelled"] /\ wk' = Outdated
  /\ UNCHANGED <<msg, call, known, asset, indexed>>

-----------------------------------------------------------------------------
(* process_once.                                                           *)

Reserve(w) ==
  /\ At(w, "idle") /\ msg.st = "ready"
  /\ msg' = [st |-> "leased", by |-> w]
  /\ wk' = [wk EXCEPT ![w] = [IdleWorker EXCEPT !.pc = "load"]]
  /\ UNCHANGED <<build, call, known, asset, indexed, used, cut>>

Load(w) ==
  LET x == [wk[w] EXCEPT !.fresh = TRUE] IN
  /\ At(w, "load")
  /\ LocalStep(w, IF build.st \in EndedStatuses THEN Ack(w)
                  ELSE IF build.stage \in Acquiring THEN [x EXCEPT !.pc = "mark"]
                  ELSE [x EXCEPT !.pc = "inspect"])

\* No acquirer is configured, or the stored request is not acceptable.
UnusableRequest(w) ==
  /\ At(w, "mark") /\ Event
  /\ wk' = [wk EXCEPT ![w] = Goto(w, "fail")]
  /\ UNCHANGED <<build, msg, call, known, asset, indexed>>

MarkTransfer(w) ==
  /\ At(w, "mark")
  /\ Write(w, build.st \in {"queued", "running"} /\ build.stage \in Acquiring,
           [build EXCEPT !.st = "running", !.stage = "transfer"],
           Goto(w, "call"), Release(w))
  /\ UNCHANGED <<call, used, cut>>

SaveAcquisition(w) ==
  /\ At(w, "save")
  /\ Write(w, build.st = "running" /\ build.stage = "transfer",
           [build EXCEPT !.stage = "analyze", !.list = wk[w].got, !.err = wk[w].err],
           Release(w), Release(w))
  /\ UNCHANGED <<call, used, cut>>

Fail(w) ==
  /\ At(w, "fail")
  /\ Write(w, build.st \in {"queued", "running"},
           [build EXCEPT !.st = "failed", !.err = TRUE], Ack(w), Release(w))
  /\ UNCHANGED <<call, used, cut>>

\* inspect_assets over the asset ids of the row that was loaded.
Waiting == {a \in build.list : asset[a].an = "pending"}
\* Faulty: an analysed asset counts as indexed whatever its status.
AnalysedAssets == {a \in build.list : asset[a].an = "completed"}
Indexed == {a \in build.list : asset[a].an = "completed" /\ asset[a].st = "ready"}
Inspect(w) ==
  /\ At(w, "inspect")
  /\ LocalStep(w, [Goto(w, "conclude") EXCEPT !.waits = Waiting # {},
                     !.good = build.list # {} /\ Indexed = build.list])

\* Faulty: the delivery is acknowledged once the progress is stored.
SaveProgressThenAck(w) ==
  /\ At(w, "conclude") /\ wk[w].waits
  /\ Write(w, build.st = "running" /\ build.stage = "analyze", build, Ack(w), Release(w))
  /\ UNCHANGED <<call, used, cut>>

SaveProgress(w) ==
  /\ At(w, "conclude") /\ wk[w].waits
  /\ Write(w, build.st = "running" /\ build.stage = "analyze", build,
           Release(w), Release(w))
  /\ UNCHANGED <<call, used, cut>>

FinishBuild(w) ==
  LET ok == wk[w].good /\ ~build.err IN
  /\ At(w, "conclude") /\ ~wk[w].waits
  /\ Write(w, build.st = "running" /\ build.stage \in Following,
           [build EXCEPT !.st = IF ok THEN "completed" ELSE "completed_with_errors",
                         !.stage = "index", !.err = ~ok],
           Ack(w), Release(w))
  /\ UNCHANGED <<call, used, cut>>

\* ack_payload or release_payload; a lost lease is only logged.
HoldsMsg(w) == msg.st = "leased" /\ msg.by = w
Settle(w) ==
  /\ At(w, "settle")
  /\ msg' = IF ~HoldsMsg(w) THEN msg
            ELSE [st |-> IF wk[w].act = "ack" THEN "done" ELSE "ready", by |-> NoWorker]
  /\ wk' = [wk EXCEPT ![w] = IdleWorker]
  /\ UNCHANGED <<build, call, known, asset, indexed, used, cut>>

CrashWorker(w) ==
  /\ ~At(w, "idle") /\ Interrupt
  /\ wk' = [wk EXCEPT ![w] = IdleWorker]
  /\ msg' = IF HoldsMsg(w) THEN [st |-> "ready", by |-> NoWorker] ELSE msg
  /\ UNCHANGED <<build, call, known, asset, indexed>>

Lapse(w) ==
  /\ HoldsMsg(w) /\ Interrupt
  /\ msg' = [st |-> "ready", by |-> NoWorker]
  /\ UNCHANGED <<build, wk, call, known, asset, indexed>>

-----------------------------------------------------------------------------
(* ControlApiAssetAcquirer.acquire: the request, and what the worker makes *)
(* of the answer.                                                          *)

Free == {c \in Calls : call[c].pc = "free"}
Request(w) ==
  /\ At(w, "call")
  /\ Free # {}
  /\ LET c == CHOOSE x \in Free : TRUE IN
       /\ call' = [call EXCEPT ![c] = [FreeCall EXCEPT !.pc = "scan"]]
       /\ wk' = [wk EXCEPT ![w] = [Goto(w, "wait") EXCEPT !.call = c]]
  /\ UNCHANGED <<build, msg, known, asset, indexed, used, cut>>

\* The response of a call reaches the worker that still waits for it.
Answer(c, x(_)) ==
  /\ call' = [call EXCEPT ![c] = FreeCall]
  /\ wk' = [w \in Workers |-> IF At(w, "wait") /\ wk[w].call = c
                              THEN [x(w) EXCEPT !.call = NoCall] ELSE wk[w]]

GiveUp(w) ==
  /\ At(w, "wait") /\ Interrupt
  /\ wk' = [wk EXCEPT ![w] = [Release(w) EXCEPT !.call = NoCall]]
  /\ UNCHANGED <<build, msg, call, known, asset, indexed>>

-----------------------------------------------------------------------------
(* POST /v1/asset-acquisitions.                                            *)

Cand(c) == Found[call[c].todo]
Searching(c) ==
  call[c].pc = "scan" /\ call[c].todo <= Len(Found) /\ Cardinality(call[c].got) < Budget
Next1(c) == [call[c] EXCEPT !.todo = @ + 1, !.pc = "scan", !.rev = 0]
Skip(c) == call' = [call EXCEPT ![c] = [Next1(c) EXCEPT !.errs = TRUE]]

\* The source, the download or the object storage fails.
SourceFails(c) ==
  /\ Searching(c) \/ call[c].pc = "upload"
  /\ Event
  /\ \E again \in BOOLEAN :
       call' = [call EXCEPT ![c] = [Next1(c) EXCEPT !.errs = TRUE, !.again = @ \/ again]]
  /\ UNCHANGED <<build, msg, wk, known, asset, indexed>>

\* The API does not remember the import, or replays it.
Fresh(c) == Searching(c) /\ call[c].todo \notin known
Replayed(c) == Searching(c) /\ call[c].todo \in known
Restart(a, up, rev) ==
  asset' = [asset EXCEPT ![a] = [@ EXCEPT !.st = "processing", !.an = "pending",
                                         !.up = up, !.rev = rev]]
Takeable(a) ==
  asset[a].st = "none" \/ (asset[a].st = "processing" /\ ~asset[a].scanned)

\* import_remote_asset, first half: the asset is created, or one that was not
\* scanned yet is taken over and its upload is to be completed again; or the
\* import is replayed and its upload was not completed.
Import(c) ==
  LET a == Cand(c) IN
  /\ \/ /\ Fresh(c) /\ Takeable(a)
        /\ Restart(a, FALSE, IF asset[a].rev = 0 THEN 1 ELSE asset[a].rev)
        /\ known' = known \union {call[c].todo}
     \/ Replayed(c) /\ ~asset[a].up /\ UNCHANGED <<asset, known>>
  /\ call' = [call EXCEPT ![c].pc = "upload"]
  /\ UNCHANGED <<build, msg, wk, indexed, used, cut>>

\* Second half, after the file is stored: complete_asset_upload looks at nothing
\* but the mark of a completed upload, so it also restarts an asset that was
\* analysed or deleted since the first half.
Upload(c) ==
  LET a == Cand(c) IN
  /\ call[c].pc = "upload"
  /\ IF asset[a].up THEN UNCHANGED asset ELSE Restart(a, TRUE, asset[a].rev + 1)
  /\ call' = [call EXCEPT ![c].pc = "read"]
  /\ UNCHANGED <<build, msg, wk, known, indexed, used, cut>>

\* The imported asset is read: it is still to be analysed, or its analysis
\* failed.
Imported(c) == call[c].pc = "read" \/ (Replayed(c) /\ asset[Cand(c)].up)
Replay(c) ==
  LET a == Cand(c) IN
  /\ Imported(c) /\ asset[a].an # "completed"
  /\ call' = [call EXCEPT ![c] = [@ EXCEPT !.pc = "ask", !.rev = asset[a].rev]]
  /\ UNCHANGED <<build, msg, wk, known, asset, indexed, used, cut>>

\* The content exists already or was analysed: a searchable asset adds no
\* coverage, any other automatic one is retired, and the search goes on.
Settled(c) ==
  \/ Imported(c) /\ asset[Cand(c)].an = "completed"
  \/ Fresh(c) /\ ~Takeable(Cand(c))
Searchable(a) == asset[a].st = "ready" /\ asset[a].an = "completed"
Reject(c) ==
  LET a == Cand(c) IN
  /\ Settled(c)
  /\ IF asset[a].st = "deleted" \/ Searchable(a) THEN Skip(c)
     ELSE call' = [call EXCEPT ![c].pc = "retire", ![c].rev = asset[a].rev]
  /\ UNCHANGED <<build, msg, wk, known, asset, indexed, used, cut>>

Retire(c) ==
  LET a == Cand(c) IN
  /\ call[c].pc = "retire" /\ asset[a].rev = call[c].rev
  /\ asset' = [asset EXCEPT ![a].st = "deleted", ![a].rev = @ + 1]
  /\ Skip(c)
  /\ UNCHANGED <<build, msg, wk, known, indexed, used, cut>>

Asks(c) == call[c].pc = "ask"
Taken(c) ==
  [Next1(c) EXCEPT !.got = @ \union {Cand(c)}, !.jobs = @ \union {Cand(c)}]

\* request_asset_reanalysis: recorded, or replayed for the same revision.
AskAnalysis(c) ==
  LET a == Cand(c) IN
  /\ Asks(c)
  /\ \/ /\ asset[a].asked = 0 /\ asset[a].rev = call[c].rev /\ asset[a].st # "deleted"
        /\ asset' = [asset EXCEPT ![a] = [@ EXCEPT !.st = "processing", !.an = "pending",
                                         !.asked = call[c].rev, !.rev = asset[a].rev + 1]]
     \/ asset[a].asked = call[c].rev /\ UNCHANGED asset
  /\ call' = [call EXCEPT ![c] = Taken(c)]
  /\ UNCHANGED <<build, msg, wk, known, indexed, used, cut>>

\* 409: the key was used with another revision, or the asset was deleted.
AskConflicts(c) ==
  LET a == Cand(c) IN
  /\ Asks(c)
  /\ \/ asset[a].asked \notin {0, call[c].rev}
     \/ asset[a].asked = 0 /\ asset[a].rev = call[c].rev /\ asset[a].st = "deleted"
  /\ Answer(c, Release) /\ cut' = TRUE
  /\ UNCHANGED <<build, msg, known, asset, indexed, used>>

ToFail(w) == Goto(w, "fail")

\* 412: somebody changed the asset since it was read.
Stale(c) ==
  /\ call[c].pc = "retire" \/ (Asks(c) /\ asset[Cand(c)].asked = 0)
  /\ asset[Cand(c)].rev # call[c].rev
  /\ Answer(c, ToFail)
  /\ UNCHANGED <<build, msg, known, asset, indexed, used, cut>>

CommandRejected(c) ==
  /\ call[c].pc = "scan" /\ call[c].todo = 1 /\ Event
  /\ Answer(c, ToFail)
  /\ UNCHANGED <<build, msg, known, asset, indexed>>

Searched(c) ==
  /\ call[c].pc = "scan" /\ ~Searching(c)
  /\ IF call[c].got = {} /\ call[c].again
     THEN Answer(c, Release)
     ELSE call' = [call EXCEPT ![c].pc = "send"] /\ UNCHANGED wk
  /\ UNCHANGED <<build, msg, known, asset, indexed, used, cut>>

\* Deduplicated by the job, of which the asset has one: asking again finds it.
Enqueue(c) ==
  /\ call[c].pc = "send"
  /\ \E a \in call[c].jobs :
       /\ asset' = [asset EXCEPT ![a].sent = TRUE]
       /\ call' = [call EXCEPT ![c].jobs = @ \ {a}]
  /\ UNCHANGED <<build, msg, wk, known, indexed, used, cut>>

\* Faulty: a job that cannot be enqueued is only logged.
EnqueueDropped(c) ==
  /\ call[c].pc = "send" /\ Interrupt
  /\ \E a \in call[c].jobs : call' = [call EXCEPT ![c].jobs = @ \ {a}]
  /\ UNCHANGED <<build, msg, wk, known, asset, indexed>>

EnqueueFails(c) ==
  /\ call[c].pc = "send" /\ call[c].jobs # {} /\ Interrupt
  /\ Answer(c, Release)
  /\ UNCHANGED <<build, msg, known, asset, indexed>>

Respond(c) ==
  LET Saving(w) == [Goto(w, "save") EXCEPT !.got = call[c].got,
                      !.err = call[c].errs \/ Cardinality(call[c].got) < Budget] IN
  /\ call[c].pc = "send" /\ call[c].jobs = {}
  /\ Answer(c, Saving)
  /\ UNCHANGED <<build, msg, known, asset, indexed, used, cut>>

ApiRestart ==
  /\ Interrupt
  /\ known' = {} /\ call' = [c \in Calls |-> FreeCall]
  /\ wk' = [w \in Workers |-> IF At(w, "wait") THEN [Release(w) EXCEPT !.call = NoCall]
                              ELSE wk[w]]
  /\ UNCHANGED <<build, msg, asset, indexed>>

-----------------------------------------------------------------------------
(* The assets: their analysis (AssetAnalysis), and a user who deletes one. *)

\* The one job of the asset ends.  It gives up an asset it finds deleted, as it
\* finds it or with the mark of a failure.
Analysed(a) ==
  /\ asset[a].sent /\ asset[a].done = "no"
  /\ \/ /\ asset[a].st = "processing"
        /\ \E r \in {"ready", "awaiting_review", "quarantined"},
              scan \in BOOLEAN :
             /\ scan \/ r = "quarantined"
             /\ asset' = [asset EXCEPT ![a] = [@ EXCEPT !.st = r, !.done = "over",
                            !.an = IF r = "quarantined" THEN "failed" ELSE "completed",
                            !.scanned = scan]]
             /\ indexed' = IF r = "ready" THEN indexed \union {a} ELSE indexed
     \/ /\ asset[a].st = "deleted" /\ UNCHANGED indexed
        /\ \/ asset' = [asset EXCEPT ![a].done = "lost"]
           \/ asset' = [asset EXCEPT ![a] = [@ EXCEPT !.st = "quarantined", !.done = "over",
                                            !.an = "failed"]]
  /\ UNCHANGED <<build, msg, wk, call, known, used, cut>>

Withdraw(a) ==
  /\ asset[a].st \notin {"none", "deleted"} /\ Event
  /\ asset' = [asset EXCEPT ![a].st = "deleted", ![a].rev = @ + 1]
  /\ UNCHANGED <<build, msg, wk, call, known, indexed>>

-----------------------------------------------------------------------------
WorkerStep(w) ==
  \/ Reserve(w) \/ Load(w) \/ MarkTransfer(w) \/ Request(w) \/ SaveAcquisition(w)
  \/ Fail(w) \/ Inspect(w) \/ SaveProgress(w) \/ FinishBuild(w) \/ Settle(w)
CallStep(c) ==
  \/ Import(c) \/ Upload(c) \/ Replay(c) \/ Reject(c) \/ Retire(c) \/ AskAnalysis(c)
  \/ AskConflicts(c) \/ Stale(c) \/ Searched(c) \/ Enqueue(c) \/ Respond(c)
Disturb ==
  \/ CancelBuild \/ ApiRestart
  \/ \E w \in Workers : UnusableRequest(w) \/ CrashWorker(w) \/ Lapse(w) \/ GiveUp(w)
  \/ \E c \in Calls : SourceFails(c) \/ CommandRejected(c) \/ EnqueueFails(c)
  \/ \E a \in Assets : Withdraw(a)

BuildNext ==
  \/ CreateBuild \/ PublishBuild \/ Disturb
  \/ \E w \in Workers : WorkerStep(w)
  \/ \E c \in Calls : CallStep(c)
  \/ \E a \in Assets : Analysed(a)

BuildSpec == BuildInit /\ [][BuildNext]_buildVars

FairBuildSpec ==
  /\ BuildSpec
  /\ \A w \in Workers : WF_buildVars(WorkerStep(w))
  /\ \A c \in Calls : WF_buildVars(CallStep(c))
  /\ \A a \in Assets : WF_buildVars(Analysed(a))
-----------------------------------------------------------------------------
(* Properties.                                                             *)

\* The rows, the delivery, the workers and the acquisitions keep their shape.
BuildTypeOK ==
  /\ build \in [st : Statuses, stage : Acquiring \union Following,
                list : SUBSET Assets, err : BOOLEAN]
  /\ msg \in [st : {"none", "ready", "leased", "done"}, by : Workers \union {NoWorker}]
  /\ wk \in [Workers -> [pc : {"idle", "load", "mark", "call", "wait", "save", "fail",
                               "inspect", "conclude", "settle"},
                         fresh : BOOLEAN, call : Calls \union {NoCall},
                         got : SUBSET Assets, err : BOOLEAN, waits : BOOLEAN,
                         good : BOOLEAN, act : {"ack", "release"}]]
  /\ \A c \in Calls :
       /\ call[c].pc \in {"free", "scan", "upload", "read", "ask", "retire", "send"}
       /\ call[c].todo \in 1 .. Len(Found) + 1 /\ call[c].jobs \subseteq call[c].got
  /\ known \subseteq 1 .. Len(Found) /\ indexed \subseteq Assets
  /\ \A a \in Assets : asset[a].asked < asset[a].rev \/ asset[a] = NoAsset

\* A build completes only when the analysis of every asset it follows has
\* ended, and without errors only when it follows some asset and each of them
\* was ready at the end of its analysis, whatever a user deletes and however
\* many workers inspect the assets.
CompletedAfterAnalysis ==
  /\ build.st \in {"completed", "completed_with_errors"} =>
       \A a \in build.list : asset[a].done = "over"
  /\ build.st = "completed" => build.list # {} /\ build.list \subseteq indexed

\* Acquisitions are repeated, overlap and stop half way; still the build never
\* follows an asset whose analysis nobody enqueued, and when none of them was
\* interrupted or met a conflict it follows every asset whose analysis was
\* asked for, within its budget.
FollowsWhatItAcquired ==
  /\ \A a \in build.list : asset[a].sent
  /\ build.stage \in Following /\ ~cut =>
       /\ Cardinality(build.list) <= Budget
       /\ \A a \in Assets : asset[a].asked # 0 => a \in build.list

\* The delivery of a build is not acknowledged before the build has ended,
\* whichever worker lost it or the row meanwhile.
DeliveredUntilEnded == msg.st = "done" => build.st \in EndedStatuses

\* A published build ends, unless
\*  - its acquisition stopped half way and it follows no asset yet: the
\*    repetition may find assets whose analysis it cannot ask for again; or
\*  - it follows an asset that waits for an analysis nobody will make, because
\*    a user deleted it, or because an import that overlapped completed its
\*    upload once more when its only job was over.
\* Once it follows assets, crashes and lost leases alone do not stop it.
Stranded ==
  \E a \in build.list :
    asset[a].an = "pending" /\ (asset[a].st = "deleted" \/ asset[a].done # "no")
BuildEnds ==
  <>[]\/ msg.st = "none" \/ build.st \in EndedStatuses \/ Stranded
      \/ cut /\ build.stage \in Acquiring
=============================================================================
