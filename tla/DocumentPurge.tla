---------------------------- MODULE DocumentPurge ---------------------------
(***************************************************************************)
(* Erasure of a document and of everything derived from it: the commands   *)
(* of the control API on one document source (upload, retention, legal     *)
(* hold, deletion request), the purge workers of document_purge.py, and    *)
(* the workers of document runs, which still publish artifacts.            *)
(*                                                                         *)
(* S3 and PostgreSQL share no transaction: an object goes first, its row   *)
(* afterwards.  Each transaction is one action, each S3 call another.      *)
(*                                                                         *)
(* A run has one artifact; its key is a hash of its content, so that a     *)
(* repeated execution publishes the same object.  A lease token is         *)
(* represented by the worker that holds it: a worker has one at a time.    *)
(* A command carries the source's current revision; with another one it    *)
(* changes nothing.                                                        *)
(***************************************************************************)
EXTENDS Naturals, FiniteSets

CONSTANTS Workers, NoWorker,
          Requests, NoRequest,   \* purge requests that may be made
          Runs, NoRun,           \* document runs
          Publishers,            \* executions of a step that publishes
          MaxAttempts,           \* max_attempts of a request
          MaxEvents              \* bound: crashes, failures, lapses, commands

ASSUME NameAssumption ==
  NoWorker \notin Workers /\ NoRequest \notin Requests /\ NoRun \notin Runs
ASSUME BoundAssumption == MaxAttempts \in Nat \ {0} /\ MaxEvents \in Nat

VARIABLES src,    \* document_sources row
          grant,  \* whether the presigned upload is still valid
          file,   \* whether the source object exists
          upload, \* a completion call that has verified the object
          run,    \* runs rows
          art,    \* artifacts rows and their objects
          pub,    \* executions that publish
          req,    \* document_purge_requests rows
          wk,     \* where each purge worker is
          used    \* how much of the bound is spent

vars == <<src, grant, file, upload, run, art, pub, req, wk, used>>
content == <<file, art>>
users == <<upload, run, pub>>

Frozen == {"deletion_pending", "purging", "purged"}
Open == {"queued", "retrying"}

IdleWorker == [pc |-> "idle", q |-> NoRequest, todo |-> {}, seen |-> {}]

Init ==
  /\ src = [st |-> "uploading", hold |-> FALSE, kept |-> FALSE]
  /\ grant = TRUE /\ file = FALSE /\ upload = FALSE
  /\ run = [r \in Runs |-> "none"]
  /\ art = [r \in Runs |-> [row |-> "none", obj |-> FALSE]]
  /\ pub = [p \in Publishers |->
              [pc |-> "idle", run |-> NoRun, made |-> FALSE, back |-> FALSE]]
  /\ req = [q \in Requests |->
              [st |-> "none", att |-> 0, by |-> NoWorker, exp |-> FALSE]]
  /\ wk = [w \in Workers |-> IdleWorker]
  /\ used = 0

Event == used < MaxEvents /\ used' = used + 1
Quiet == UNCHANGED used

-----------------------------------------------------------------------------
(* The upload.                                                             *)

\* The browser puts the file; it may do so again while the grant is valid.
PutFile ==
  /\ grant /\ ~file /\ file' = TRUE
  /\ Quiet /\ UNCHANGED <<src, grant, art, users, req, wk>>

GrantExpires ==
  /\ grant /\ grant' = FALSE
  /\ Quiet /\ UNCHANGED <<src, content, users, req, wk>>

\* The completion call finds the object, and stores `uploaded' afterwards,
\* unless the row refuses it: a purged one names another key.
VerifyUpload ==
  /\ ~upload /\ file /\ src.st # "uploaded"
  /\ upload' = TRUE
  /\ IF src.st = "uploading" THEN Quiet ELSE Event
  /\ UNCHANGED <<src, grant, content, run, pub, req, wk>>

CompleteUpload ==
  /\ upload /\ upload' = FALSE
  /\ src' = IF src.st = "purged" THEN src ELSE [src EXCEPT !.st = "uploaded"]
  /\ Quiet /\ UNCHANGED <<grant, content, run, pub, req, wk>>

-----------------------------------------------------------------------------
(* Retention, hold and deletion request.                                   *)

SetRetention ==
  /\ ~src.kept /\ src.st \notin Frozen
  /\ src' = [src EXCEPT !.kept = TRUE]
  /\ Event /\ UNCHANGED <<grant, content, users, req, wk>>

\* retention_until passes, or the user takes it back.
RetentionEnds ==
  /\ src.kept
  /\ src' = [src EXCEPT !.kept = FALSE]
  /\ Quiet /\ UNCHANGED <<grant, content, users, req, wk>>

\* Faulty: refuses a hold for a purged source only.
SetHoldLate ==
  /\ ~src.hold /\ src.st # "purged"
  /\ src' = [src EXCEPT !.hold = TRUE,
                        !.st = IF @ = "deletion_pending" THEN "uploaded" ELSE @]
  /\ req' = [q \in Requests |-> IF req[q].st \in Open
                                THEN [req[q] EXCEPT !.st = "blocked"] ELSE req[q]]
  /\ Event /\ UNCHANGED <<grant, content, users, wk>>

SetHold ==
  /\ ~src.hold /\ src.st \notin {"purging", "purged"}
  /\ src' = [src EXCEPT !.hold = TRUE,
                        !.st = IF @ = "deletion_pending" THEN "uploaded" ELSE @]
  /\ req' = [q \in Requests |-> IF req[q].st \in Open
                                THEN [req[q] EXCEPT !.st = "blocked"] ELSE req[q]]
  /\ Event /\ UNCHANGED <<grant, content, users, wk>>

ReleaseHold ==
  /\ src.hold
  /\ src' = [src EXCEPT !.hold = FALSE]
  /\ Quiet /\ UNCHANGED <<grant, content, users, req, wk>>

RequestPurge(q) ==
  /\ req[q].st = "none"
  /\ ~src.hold /\ ~src.kept /\ src.st = "uploaded"
  /\ \A r \in Runs : run[r] # "active"
  /\ req' = [req EXCEPT ![q].st = "queued"]
  /\ src' = [src EXCEPT !.st = "deletion_pending"]
  /\ Quiet /\ UNCHANGED <<grant, content, users, wk>>

-----------------------------------------------------------------------------
(* Runs of the document.  create_document_video_run reads the source       *)
(* before the transaction that inserts the run.                            *)

SetRun(r, st) ==
  run' = [run EXCEPT ![r] = st]
  /\ Quiet /\ UNCHANGED <<src, grant, content, upload, pub, req, wk>>

ReadSource(r) == run[r] = "none" /\ src.st = "uploaded" /\ SetRun(r, "reading")
InsertRun(r) == run[r] = "reading" /\ SetRun(r, "active")
\* The run succeeds, fails or is cancelled; an execution may go on.
EndRun(r) == run[r] = "active" /\ SetRun(r, "ended")

\* S3ArtifactStorage.publish.  An execution that stops half way is one that
\* takes no further step: nothing makes it go on.
Execute(p, r) ==
  /\ pub[p].pc = "idle" /\ run[r] = "active"
  /\ pub' = [pub EXCEPT ![p].pc = "put", ![p].run = r]
  /\ Quiet /\ UNCHANGED <<src, grant, content, upload, run, req, wk>>

\* IfNoneMatch: an object that exists is verified and left alone.
PutArtifact(p) ==
  LET r == pub[p].run IN
  /\ pub[p].pc = "put"
  /\ art' = [art EXCEPT ![r].obj = TRUE]
  /\ pub' = [pub EXCEPT ![p].pc = "record", ![p].made = ~art[r].obj,
                        ![p].back = ~art[r].obj /\ art[r].row # "none"]
  /\ Quiet /\ UNCHANGED <<src, grant, file, upload, run, req, wk>>

\* The row is inserted once; one that was deleted no longer names the object.
RecordArtifact(p) ==
  LET r == pub[p].run IN
  /\ pub[p].pc = "record" /\ art[r].row # "deleted"
  /\ art' = [art EXCEPT ![r].row = "available"]
  /\ pub' = [pub EXCEPT ![p].pc = "done", ![p].made = FALSE]
  /\ Quiet /\ UNCHANGED <<src, grant, file, upload, run, req, wk>>

\* The record fails: an object this execution created is deleted again.
DeleteUnrecorded(p) ==
  LET r == pub[p].run IN
  /\ pub[p].pc = "record"
  /\ art' = [art EXCEPT ![r].obj = @ /\ ~pub[p].made]
  /\ pub' = [pub EXCEPT ![p].pc = "done", ![p].made = FALSE]
  /\ IF art[r].row = "deleted" THEN Quiet ELSE Event
  /\ UNCHANGED <<src, grant, file, upload, run, req, wk>>

-----------------------------------------------------------------------------
(* The purge worker.                                                       *)

At(w, pc) == wk[w].pc = pc
Goto(w, pc) == [wk[w] EXCEPT !.pc = pc]
Holds(w) == LET q == wk[w].q IN req[q].st = "purging" /\ req[q].by = w
Available == {r \in Runs : art[r].row = "available"}

GiveBack(row) ==
  [row EXCEPT !.st = IF row.att >= MaxAttempts THEN "failed" ELSE "retrying",
              !.by = NoWorker, !.exp = FALSE]
\* Faulty: the request is given back, the source is forgotten.
UnclaimedStaysPurging(st) == st
Unclaimed(st) == IF st = "purging" THEN "deletion_pending" ELSE st

Lapsed == {q \in Requests : req[q].st = "purging" /\ req[q].exp}
Recovered == [q \in Requests |-> IF q \in Lapsed THEN GiveBack(req[q]) ELSE req[q]]
SourceRecovered == IF Lapsed = {} THEN src.st ELSE Unclaimed(src.st)

\* Faulty: does not wait until the upload URL has expired.
ClaimableWithGrant(q) ==
  /\ Recovered[q].st \in Open /\ Recovered[q].att < MaxAttempts
  /\ SourceRecovered = "deletion_pending" /\ ~src.hold /\ ~src.kept
  /\ \A r \in Runs : run[r] # "active"

Claimable(q) ==
  /\ Recovered[q].st \in Open /\ Recovered[q].att < MaxAttempts
  /\ SourceRecovered = "deletion_pending" /\ ~grant /\ ~src.hold /\ ~src.kept
  /\ \A r \in Runs : run[r] # "active"

\* The first statement of claim, when there is nothing to claim after it.
Recover(w) ==
  /\ At(w, "idle") /\ Lapsed # {} /\ \A q \in Requests : ~Claimable(q)
  /\ req' = Recovered /\ src' = [src EXCEPT !.st = SourceRecovered]
  /\ Quiet /\ UNCHANGED <<grant, content, users, wk>>

Claim(w, q) ==
  /\ At(w, "idle") /\ Claimable(q)
  /\ req' = [Recovered EXCEPT ![q] =
               [st |-> "purging", att |-> @.att + 1, by |-> w, exp |-> FALSE]]
  /\ src' = [src EXCEPT !.st = "purging"]
  /\ wk' = [wk EXCEPT ![w] = [pc |-> "source", q |-> q, todo |-> Available,
                              seen |-> Available]]
  /\ Quiet /\ UNCHANGED <<grant, content, users>>

\* _delete_all_versions, until the object is no longer readable.
DeleteSource(w) ==
  /\ At(w, "source")
  /\ file' = FALSE
  /\ wk' = [wk EXCEPT ![w] = Goto(w, "derived")]
  /\ Quiet /\ UNCHANGED <<src, grant, art, users, req>>

DeleteDerived(w) ==
  /\ At(w, "derived")
  /\ \E r \in wk[w].todo :
       /\ art' = [art EXCEPT ![r].obj = FALSE]
       /\ wk' = [wk EXCEPT ![w].todo = @ \ {r}]
  /\ Quiet /\ UNCHANGED <<src, grant, file, users, req>>

\* S3 refuses, is unreachable or still shows the object.
DeletionFails(w) ==
  /\ wk[w].pc \in {"source", "derived"}
  /\ wk' = [wk EXCEPT ![w] = Goto(w, "retry")]
  /\ Event /\ UNCHANGED <<src, grant, content, users, req>>

ManifestUnchanged(w) == Available = wk[w].seen

PolicyUnchanged == ~src.hold /\ src.st = "purging"

Complete(w) ==
  LET q == wk[w].q IN
  /\ At(w, "derived") /\ wk[w].todo = {}
  /\ IF Holds(w) /\ PolicyUnchanged /\ ManifestUnchanged(w)
     THEN /\ src' = [src EXCEPT !.st = "purged"]
          /\ art' = [r \in Runs |-> IF r \in Available
                                    THEN [art[r] EXCEPT !.row = "deleted"] ELSE art[r]]
          /\ req' = [req EXCEPT ![q] = [@ EXCEPT !.st = "succeeded", !.by = NoWorker,
                                                 !.exp = FALSE]]
          /\ wk' = [wk EXCEPT ![w] = IdleWorker]
     ELSE wk' = [wk EXCEPT ![w] = Goto(w, "retry")] /\ UNCHANGED <<src, art, req>>
  /\ Quiet /\ UNCHANGED <<grant, file, users>>

\* Without the lease retry() raises, and changes nothing either.
Retry(w) ==
  LET q == wk[w].q IN
  /\ At(w, "retry")
  /\ wk' = [wk EXCEPT ![w] = IdleWorker]
  /\ IF Holds(w)
     THEN /\ req' = [req EXCEPT ![q] = GiveBack(@)]
          /\ src' = [src EXCEPT !.st = Unclaimed(@)]
     ELSE UNCHANGED <<req, src>>
  /\ Quiet /\ UNCHANGED <<grant, content, users>>

Crash(w) ==
  /\ ~At(w, "idle")
  /\ wk' = [wk EXCEPT ![w] = IdleWorker]
  /\ Event /\ UNCHANGED <<src, grant, content, users, req>>

\* The lease of a worker that is slow, or gone.
Working(q) == \E w \in Workers : wk[w].q = q /\ req[q].by = w
Expire(q) ==
  /\ req[q].st = "purging" /\ ~req[q].exp
  /\ req' = [req EXCEPT ![q].exp = TRUE]
  /\ UNCHANGED <<src, grant, content, users, wk>>
LapseUnderWorker(q) == Working(q) /\ Expire(q) /\ Event
LapseAfterCrash(q) == ~Working(q) /\ Expire(q) /\ Quiet

-----------------------------------------------------------------------------
WorkerStep(w) ==
  \/ Recover(w) \/ \E q \in Requests : Claim(w, q)
  \/ DeleteSource(w) \/ DeleteDerived(w) \/ Complete(w) \/ Retry(w)

UserStep ==
  \/ PutFile \/ VerifyUpload \/ CompleteUpload \/ SetRetention \/ RetentionEnds
  \/ SetHold \/ ReleaseHold \/ \E q \in Requests : RequestPurge(q)
  \/ \E r \in Runs : ReadSource(r)

PublisherStep(p) ==
  \/ \E r \in Runs : Execute(p, r)
  \/ PutArtifact(p) \/ RecordArtifact(p) \/ DeleteUnrecorded(p)

Next ==
  \/ UserStep \/ GrantExpires
  \/ \E r \in Runs : InsertRun(r) \/ EndRun(r)
  \/ \E p \in Publishers : PublisherStep(p)
  \/ \E w \in Workers : WorkerStep(w) \/ DeletionFails(w) \/ Crash(w)
  \/ \E q \in Requests : LapseUnderWorker(q) \/ LapseAfterCrash(q)

Spec == Init /\ [][Next]_vars

\* Workers keep polling, runs end, an upload URL expires, and so does the
\* lease of a worker that is gone.
Fairness ==
  /\ WF_vars(GrantExpires)
  /\ \A r \in Runs : WF_vars(InsertRun(r)) /\ WF_vars(EndRun(r))
  /\ \A w \in Workers : WF_vars(WorkerStep(w))
  /\ \A q \in Requests : WF_vars(LapseAfterCrash(q))

FairSpec == Spec /\ Fairness

-----------------------------------------------------------------------------
(* Properties.                                                             *)

\* The shape of every row, object and worker; a leased request has an owner
\* (document_purge_requests_lease_shape).
TypeOK ==
  /\ src \in [st : {"uploading", "uploaded"} \union Frozen, hold : BOOLEAN, kept : BOOLEAN]
  /\ run \in [Runs -> {"none", "reading", "active", "ended"}]
  /\ art \in [Runs -> [row : {"none", "available", "deleted"}, obj : BOOLEAN]]
  /\ \A q \in Requests :
       /\ req[q].st \in {"none", "blocked", "failed", "succeeded", "purging"} \union Open
       /\ req[q].att \in 0..MaxAttempts
       /\ (req[q].st = "purging") = (req[q].by # NoWorker)
  /\ \A w \in Workers : wk[w].pc \in {"idle", "source", "derived", "retry"}
                        /\ wk[w].todo \subseteq wk[w].seen /\ wk[w].seen \subseteq Runs

\* A source shown as purged has no object left, nor has an artifact shown as
\* deleted, unless a repeated execution put its object back: see ErasedForGood.
TombstoneIsTruth ==
  /\ src.st = "purged" => ~file
  /\ \A r \in Runs :
       art[r].row = "deleted" /\ art[r].obj
       => \E p \in Publishers : pub[p].run = r /\ pub[p].back

\* The object of an artifact shown as deleted is gone, or about to be: "the
\* artifacts foreign key then prevents a late publisher from adding an object
\* between this check and the tombstone commit" (document_purge.py).
ErasedForGood ==
  \A r \in Runs : art[r].row = "deleted" /\ art[r].obj
                 => \E p \in Publishers : pub[p].run = r /\ pub[p].pc = "record"

\* A document on hold or under retention is not being erased, nor was it.
ProtectedIsNotErased == src.hold \/ src.kept => src.st \notin Frozen

\* A source frozen for deletion is in the hands of a request: one that a worker
\* erases, that may still be claimed, or that used up its attempts.
FrozenIsInHand ==
  /\ src.st = "purging" => \E q \in Requests : req[q].st = "purging"
  /\ src.st = "deletion_pending" =>
       \E q \in Requests : req[q].st \in Open \union {"purging", "failed"}
  /\ \A q \in Requests : req[q].st \in Open => req[q].att < MaxAttempts

\* A document frozen for deletion leaves that state: it is purged, its request
\* used up its attempts, or somebody completed the upload again or held it.
DeletionEnds ==
  src.st \in {"deletion_pending", "purging"}
  ~> (src.st \in {"uploaded", "purged"} \/ \E q \in Requests : req[q].st = "failed")
=============================================================================
