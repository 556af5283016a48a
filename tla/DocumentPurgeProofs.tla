------------------------ MODULE DocumentPurgeProofs ------------------------
(***************************************************************************)
(* Machine-checked: tombstones of a document tell the truth and nothing    *)
(* protected is erased, for any number of purge workers, requests, runs,   *)
(* executions and interruptions.  The argument: a worker claims only after *)
(* the upload URL has expired, so what it deletes is not put again         *)
(* (SourceGone); an artifact it has deleted is put again only by an        *)
(* execution that found the object gone and the row there (Erased); and    *)
(* rows, once recorded, never go away (SeenRows).  A frozen source is in   *)
(* the hands of a request, since whatever gives the request back reopens   *)
(* the source with it (InHand).                                            *)
(***************************************************************************)
EXTENDS DocumentPurge, TLAPS

Request(row) ==
  /\ row \in [st : {"none", "blocked", "failed", "succeeded", "purging"} \union Open,
              att : 0..MaxAttempts, by : Workers \union {NoWorker}, exp : BOOLEAN]
  /\ (row.st = "purging") = (row.by # NoWorker)
Worker(row) ==
  /\ row \in [pc : {"idle", "source", "derived", "retry"}, q : Requests \union {NoRequest},
              todo : SUBSET Runs, seen : SUBSET Runs]
  /\ row.pc # "idle" => row.q \in Requests
  /\ row.todo \subseteq row.seen
Execution(row) ==
  /\ row \in [pc : {"idle", "put", "record", "done"}, run : Runs \union {NoRun},
              made : BOOLEAN, back : BOOLEAN]
  /\ row.pc \in {"put", "record"} => row.run \in Runs
Artifact(row) == row \in [row : {"none", "available", "deleted"}, obj : BOOLEAN]

Function(f, S) == f = [x \in S |-> f[x]]
SourceShaped ==
  /\ src \in [st : {"uploading", "uploaded"} \union Frozen, hold : BOOLEAN, kept : BOOLEAN]
  /\ grant \in BOOLEAN /\ file \in BOOLEAN /\ upload \in BOOLEAN
  /\ run \in [Runs -> {"none", "reading", "active", "ended"}]
RequestsShaped   == Function(req, Requests) /\ \A q \in Requests : Request(req[q])
WorkersShaped    == Function(wk, Workers) /\ \A w \in Workers : Worker(wk[w])
ExecutionsShaped == Function(pub, Publishers) /\ \A p \in Publishers : Execution(pub[p])
ArtifactsShaped  == Function(art, Runs) /\ \A r \in Runs : Artifact(art[r])
\* TypeOK, with the executions and what else it leaves open.
Shapes ==
  SourceShaped /\ RequestsShaped /\ WorkersShaped /\ ExecutionsShaped /\ ArtifactsShaped

\* Nobody purges while the file may still be put, and once it is deleted it
\* stays away.
SourceGone ==
  /\ \A w \in Workers : /\ wk[w].pc # "idle" => ~grant
                        /\ wk[w].pc = "derived" => ~file
  /\ src.st = "purged" => ~grant /\ ~file

\* The object of r is gone, unless an execution put it back.
Erased(r) == art[r].obj => \E p \in Publishers : pub[p].run = r /\ pub[p].back

\* An execution has put back nothing before it puts.
NotYetBack == \A p \in Publishers : pub[p].pc \in {"idle", "put"} => ~pub[p].back
\* What a worker found recorded stays recorded, what it dealt with is erased.
SeenRows == \A w \in Workers : \A r \in wk[w].seen : art[r].row # "none"
Dealt ==
  \A w \in Workers :
    /\ wk[w].pc = "source" => wk[w].todo = wk[w].seen
    /\ wk[w].pc = "derived" => \A r \in wk[w].seen \ wk[w].todo : Erased(r)
\* What is shown as deleted is erased.
Tombs == \A r \in Runs : art[r].row = "deleted" => Erased(r)

IInv ==
  /\ Shapes /\ ProtectedIsNotErased
  /\ SourceGone /\ NotYetBack /\ SeenRows /\ Dealt /\ Tombs

-----------------------------------------------------------------------------
(* Types.                                                                  *)

LEMMA ShapesGiveTypes == Shapes => TypeOK
<1> SUFFICES ASSUME Shapes PROVE TypeOK
  OBVIOUS
<1>1. art \in [Runs -> [row : {"none", "available", "deleted"}, obj : BOOLEAN]]
  BY DEF Shapes, ArtifactsShaped, Artifact, Function
<1>2. \A q \in Requests :
        /\ req[q].st \in {"none", "blocked", "failed", "succeeded", "purging"} \union Open
        /\ req[q].att \in 0..MaxAttempts
        /\ (req[q].st = "purging") = (req[q].by # NoWorker)
  BY DEF Shapes, RequestsShaped, Request
<1>3. \A w \in Workers : /\ wk[w].pc \in {"idle", "source", "derived", "retry"}
                         /\ wk[w].todo \subseteq wk[w].seen /\ wk[w].seen \subseteq Runs
  BY DEF Shapes, WorkersShaped, Worker
<1> QED
  BY <1>1, <1>2, <1>3 DEF TypeOK, Shapes, SourceShaped

\* What the writes of one row keep.
LEMMA OneRequest ==
  ASSUME RequestsShaped, NEW q \in Requests, NEW row, Request(row),
         req' = [req EXCEPT ![q] = row]
  PROVE  RequestsShaped'
<1>1. \A x \in Requests : req'[x] = IF x = q THEN row ELSE req[x]
  BY DEF RequestsShaped, Function
<1>2. Function(req', Requests)
  BY DEF RequestsShaped, Function
<1> QED BY <1>1, <1>2 DEF RequestsShaped

LEMMA OneWorker ==
  ASSUME WorkersShaped, NEW w \in Workers, NEW row, Worker(row),
         wk' = [wk EXCEPT ![w] = row]
  PROVE  WorkersShaped'
<1>1. \A x \in Workers : wk'[x] = IF x = w THEN row ELSE wk[x]
  BY DEF WorkersShaped, Function
<1>2. Function(wk', Workers)
  BY DEF WorkersShaped, Function
<1> QED BY <1>1, <1>2 DEF WorkersShaped

LEMMA OneExecution ==
  ASSUME ExecutionsShaped, NEW p \in Publishers, NEW row, Execution(row),
         pub' = [pub EXCEPT ![p] = row]
  PROVE  ExecutionsShaped'
<1>1. \A x \in Publishers : pub'[x] = IF x = p THEN row ELSE pub[x]
  BY DEF ExecutionsShaped, Function
<1>2. Function(pub', Publishers)
  BY DEF ExecutionsShaped, Function
<1> QED BY <1>1, <1>2 DEF ExecutionsShaped

LEMMA OneArtifact ==
  ASSUME ArtifactsShaped, NEW r \in Runs, NEW row, Artifact(row),
         art' = [art EXCEPT ![r] = row]
  PROVE  ArtifactsShaped'
<1>1. \A x \in Runs : art'[x] = IF x = r THEN row ELSE art[x]
  BY DEF ArtifactsShaped, Function
<1>2. Function(art', Runs)
  BY DEF ArtifactsShaped, Function
<1> QED BY <1>1, <1>2 DEF ArtifactsShaped

LEMMA GivenBack ==
  ASSUME NEW row, Request(row)
  PROVE  Request(GiveBack(row))
BY NameAssumption DEF Request, GiveBack, Open

LEMMA RecoveredShaped ==
  ASSUME RequestsShaped
  PROVE  /\ Function(Recovered, Requests)
         /\ \A q \in Requests : Request(Recovered[q])
<1>1. \A q \in Requests : Recovered[q] = IF q \in Lapsed THEN GiveBack(req[q]) ELSE req[q]
  BY DEF Recovered
<1>2. Function(Recovered, Requests)
  BY DEF Recovered, Function
<1> QED BY <1>1, <1>2, GivenBack DEF RequestsShaped

\* What a step that touches none of them leaves as it was.
LEMMA Untouched ==
  ASSUME Shapes
  PROVE  /\ UNCHANGED <<src, grant, file, upload, run>> => SourceShaped'
         /\ UNCHANGED req => RequestsShaped'
         /\ UNCHANGED wk => WorkersShaped'
         /\ UNCHANGED pub => ExecutionsShaped'
         /\ UNCHANGED art => ArtifactsShaped'
BY DEF Shapes, SourceShaped, RequestsShaped, WorkersShaped, ExecutionsShaped, ArtifactsShaped

LEMMA IdleShaped == Worker(IdleWorker)
BY DEF Worker, IdleWorker

LEMMA WorkerRows ==
  ASSUME NEW row, Worker(row), row.pc # "idle"
  PROVE  /\ Worker([row EXCEPT !.pc = "derived"]) /\ Worker([row EXCEPT !.pc = "retry"])
         /\ \A r \in Runs : Worker([row EXCEPT !.todo = @ \ {r}])
BY DEF Worker

LEMMA UserShapes ==
  ASSUME Shapes, UserStep \/ GrantExpires \/ \E r \in Runs : InsertRun(r) \/ EndRun(r)
  PROVE  Shapes'
<1> USE DEF Event, Quiet, content, users
<1>1. CASE \/ PutFile \/ GrantExpires \/ VerifyUpload \/ CompleteUpload
           \/ SetRetention \/ RetentionEnds \/ ReleaseHold
  <2>1. UNCHANGED <<req, wk, pub, art>>
    BY <1>1 DEF PutFile, GrantExpires, VerifyUpload, CompleteUpload, SetRetention,
                RetentionEnds, ReleaseHold
  <2>2. SourceShaped
    BY DEF Shapes
  <2>3. CASE PutFile \/ GrantExpires \/ VerifyUpload
    <3>1. SourceShaped'
      BY <2>2, <2>3 DEF PutFile, GrantExpires, VerifyUpload, SourceShaped
    <3> QED BY <2>1, <3>1, Untouched DEF Shapes
  <2>4. CASE CompleteUpload \/ SetRetention \/ RetentionEnds \/ ReleaseHold
    <3>1. SourceShaped'
      BY <2>2, <2>4 DEF CompleteUpload, SetRetention, RetentionEnds, ReleaseHold, SourceShaped
    <3> QED BY <2>1, <3>1, Untouched DEF Shapes
  <2> QED BY <1>1, <2>3, <2>4
<1>2. CASE SetHold
  <2>1. SourceShaped'
    BY <1>2 DEF SetHold, Shapes, SourceShaped, Frozen
  <2>2. \A q \in Requests : Request(req'[q])
    <3> TAKE q \in Requests
    <3>1. Request(req[q])
      BY DEF Shapes, RequestsShaped
    <3>2. req'[q] = IF req[q].st \in Open THEN [req[q] EXCEPT !.st = "blocked"] ELSE req[q]
      BY <1>2 DEF SetHold
    <3> QED BY <3>1, <3>2 DEF Request, Open
  <2>3. RequestsShaped'
    BY <1>2, <2>2 DEF SetHold, RequestsShaped, Function
  <2> QED BY <1>2, <2>1, <2>3, Untouched DEF SetHold, Shapes
<1>3. ASSUME NEW q \in Requests, RequestPurge(q) PROVE Shapes'
  <2>1. SourceShaped'
    BY <1>3 DEF RequestPurge, Shapes, SourceShaped, Frozen
  <2>2. Request([req[q] EXCEPT !.st = "queued"])
    BY <1>3 DEF RequestPurge, Shapes, RequestsShaped, Request, Open
  <2>3. RequestsShaped'
    BY <1>3, <2>2, OneRequest DEF RequestPurge, Shapes
  <2> QED BY <1>3, <2>1, <2>3, Untouched DEF RequestPurge, Shapes
<1>4. ASSUME NEW r \in Runs, ReadSource(r) \/ InsertRun(r) \/ EndRun(r) PROVE Shapes'
  <2>1. UNCHANGED <<req, wk, pub, art>>
    BY <1>4 DEF ReadSource, InsertRun, EndRun, SetRun
  <2>2. SourceShaped'
    BY <1>4 DEF ReadSource, InsertRun, EndRun, SetRun, Shapes, SourceShaped
  <2> QED BY <2>1, <2>2, Untouched DEF Shapes
<1> QED BY <1>1, <1>2, <1>3, <1>4 DEF UserStep

LEMMA PublisherShapes ==
  ASSUME Shapes, NEW p \in Publishers, PublisherStep(p)
  PROVE  Shapes'
<1> USE DEF Event, Quiet, content, users
<1>1. Execution(pub[p]) /\ ArtifactsShaped /\ ExecutionsShaped
  BY DEF Shapes, ExecutionsShaped
<1>2. UNCHANGED <<src, grant, file, upload, run, req, wk>>
  BY DEF PublisherStep, Execute, PutArtifact, RecordArtifact, DeleteUnrecorded
<1>3. ASSUME NEW r \in Runs, Execute(p, r) PROVE ExecutionsShaped' /\ ArtifactsShaped'
  <2>1. Execution([pub[p] EXCEPT !.pc = "put", !.run = r])
    BY <1>1 DEF Execution
  <2>2. pub' = [pub EXCEPT ![p] = [pub[p] EXCEPT !.pc = "put", !.run = r]] /\ art' = art
    BY <1>1, <1>3 DEF Execute, ExecutionsShaped, Function
  <2> QED BY <1>1, <2>1, <2>2, OneExecution, Untouched
<1>4. ASSUME PutArtifact(p) \/ RecordArtifact(p) \/ DeleteUnrecorded(p)
      PROVE  ExecutionsShaped' /\ ArtifactsShaped'
  <2> DEFINE r == pub[p].run
  <2>1. r \in Runs /\ Artifact(art[r])
    BY <1>1, <1>4 DEF Execution, ArtifactsShaped, PutArtifact, RecordArtifact, DeleteUnrecorded
  <2>2. PICK entry : art' = [art EXCEPT ![r] = entry] /\ Artifact(entry)
    <3>1. ASSUME NEW row, art' = [art EXCEPT ![r] = row], Artifact(row)
          PROVE  \E x : art' = [art EXCEPT ![r] = x] /\ Artifact(x)
      BY <3>1
    <3>2. CASE PutArtifact(p)
      <4>1. art' = [art EXCEPT ![r] = [art[r] EXCEPT !.obj = TRUE]]
        BY <3>2 DEF PutArtifact
      <4>2. Artifact([art[r] EXCEPT !.obj = TRUE])
        BY <2>1 DEF Artifact
      <4> QED BY <3>1, <4>1, <4>2
    <3>3. CASE RecordArtifact(p)
      <4>1. art' = [art EXCEPT ![r] = [art[r] EXCEPT !.row = "available"]]
        BY <3>3 DEF RecordArtifact
      <4>2. Artifact([art[r] EXCEPT !.row = "available"])
        BY <2>1 DEF Artifact
      <4> QED BY <3>1, <4>1, <4>2
    <3>4. CASE DeleteUnrecorded(p)
      <4> DEFINE kept == art[r].obj /\ ~pub[p].made
      <4>1. art' = [art EXCEPT ![r] = [art[r] EXCEPT !.obj = kept]]
        BY <3>4 DEF DeleteUnrecorded
      <4>2. kept \in BOOLEAN
        OBVIOUS
      <4>3. Artifact([art[r] EXCEPT !.obj = kept])
        <5> HIDE DEF kept
        <5> QED BY <2>1, <4>2 DEF Artifact
      <4> QED BY <3>1, <4>1, <4>3
    <3> QED BY <1>4, <3>2, <3>3, <3>4
  <2>3. PICK place : pub' = [pub EXCEPT ![p] = place] /\ Execution(place)
    <3>1. CASE PutArtifact(p)
      <4> DEFINE row == [pub[p] EXCEPT !.pc = "record", !.made = ~art[r].obj,
                                       !.back = ~art[r].obj /\ art[r].row # "none"]
      <4>1. pub' = [pub EXCEPT ![p] = row]
        BY <3>1, <1>1 DEF PutArtifact, ExecutionsShaped, Function
      <4>2. Execution(row)
        BY <1>1, <2>1 DEF Execution
      <4> QED BY <4>1, <4>2
    <3>2. CASE RecordArtifact(p) \/ DeleteUnrecorded(p)
      <4> DEFINE row == [pub[p] EXCEPT !.pc = "done", !.made = FALSE]
      <4>1. pub' = [pub EXCEPT ![p] = row]
        BY <3>2, <1>1 DEF RecordArtifact, DeleteUnrecorded, ExecutionsShaped, Function
      <4>2. Execution(row)
        BY <1>1 DEF Execution
      <4> QED BY <4>1, <4>2
    <3> QED BY <1>4, <3>1, <3>2
  <2>4. ArtifactsShaped'
    BY <1>1, <2>1, <2>2, OneArtifact
  <2>5. ExecutionsShaped'
    BY <1>1, <2>3, OneExecution
  <2> QED BY <2>4, <2>5
<1>5. ExecutionsShaped' /\ ArtifactsShaped'
  BY <1>3, <1>4 DEF PublisherStep
<1> QED BY <1>2, <1>5, Untouched DEF Shapes

LEMMA RecoverShapes ==
  ASSUME Shapes, NEW w \in Workers, Recover(w)
  PROVE  Shapes'
<1>1. req' = Recovered /\ src' = [src EXCEPT !.st = SourceRecovered]
      /\ UNCHANGED <<grant, file, art, upload, run, pub, wk>>
  BY DEF Recover, content, users
<1>2. RequestsShaped'
  BY <1>1, RecoveredShaped DEF Shapes, RequestsShaped
<1>3. SourceShaped'
  BY <1>1 DEF Shapes, SourceShaped, SourceRecovered, Unclaimed, Frozen
<1> QED BY <1>1, <1>2, <1>3, Untouched DEF Shapes

LEMMA ClaimShapes ==
  ASSUME Shapes, NEW w \in Workers, NEW q \in Requests, Claim(w, q)
  PROVE  Shapes'
<1> DEFINE row == [st |-> "purging", att |-> Recovered[q].att + 1, by |-> w, exp |-> FALSE]
           place == [pc |-> "source", q |-> q, todo |-> Available, seen |-> Available]
<1>1. /\ req' = [Recovered EXCEPT ![q] = row] /\ src' = [src EXCEPT !.st = "purging"]
      /\ wk' = [wk EXCEPT ![w] = place]
      /\ UNCHANGED <<grant, file, art, upload, run, pub>>
  BY DEF Claim, content, users
<1>2. Recovered[q].att \in 0..MaxAttempts /\ Recovered[q].att < MaxAttempts
  BY RecoveredShaped DEF Shapes, Request, Claim, Claimable
<1>3. Request(row)
  BY <1>2, NameAssumption, BoundAssumption DEF Request
<1>4. Worker(place)
  BY DEF Worker, Available
<1> HIDE DEF row, place
<1>5. \A x \in Requests : req'[x] = IF x = q THEN row ELSE Recovered[x]
  BY <1>1, RecoveredShaped DEF Shapes, Function
<1>6. Function(req', Requests)
  BY <1>1, RecoveredShaped DEF Shapes, Function
<1>7. RequestsShaped'
  BY <1>3, <1>5, <1>6, RecoveredShaped DEF Shapes, RequestsShaped
<1>8. WorkersShaped'
  BY <1>1, <1>4, OneWorker DEF Shapes
<1>9. SourceShaped'
  BY <1>1 DEF Shapes, SourceShaped, Frozen
<1> QED BY <1>1, <1>7, <1>8, <1>9, Untouched DEF Shapes

LEMMA DeleteShapes ==
  ASSUME Shapes, NEW w \in Workers,
         DeleteSource(w) \/ DeleteDerived(w) \/ DeletionFails(w) \/ Crash(w)
  PROVE  Shapes'
<1> USE DEF content, users
<1>1. Worker(wk[w]) /\ WorkersShaped /\ ArtifactsShaped
  BY DEF Shapes, WorkersShaped
<1>2. UNCHANGED <<src, grant, upload, run, pub, req>>
  BY DEF DeleteSource, DeleteDerived, DeletionFails, Crash
<1>3. ASSUME DeleteSource(w) \/ DeletionFails(w) \/ Crash(w)
      PROVE  WorkersShaped' /\ ArtifactsShaped' /\ SourceShaped'
  <2>1. SourceShaped' /\ ArtifactsShaped'
    BY <1>2, <1>3, Untouched DEF DeleteSource, DeletionFails, Crash, Shapes, SourceShaped
  <2>2. CASE DeleteSource(w)
    <3>1. wk' = [wk EXCEPT ![w] = [wk[w] EXCEPT !.pc = "derived"]] /\ wk[w].pc # "idle"
      BY <2>2 DEF DeleteSource, Goto, At
    <3> QED BY <1>1, <2>1, <3>1, WorkerRows, OneWorker
  <2>3. CASE DeletionFails(w)
    <3>1. wk' = [wk EXCEPT ![w] = [wk[w] EXCEPT !.pc = "retry"]] /\ wk[w].pc # "idle"
      BY <2>3 DEF DeletionFails, Goto
    <3> QED BY <1>1, <2>1, <3>1, WorkerRows, OneWorker
  <2>4. CASE Crash(w)
    <3>1. wk' = [wk EXCEPT ![w] = IdleWorker]
      BY <2>4 DEF Crash
    <3> QED BY <1>1, <2>1, <3>1, IdleShaped, OneWorker
  <2> QED BY <1>3, <2>2, <2>3, <2>4
<1>4. ASSUME DeleteDerived(w)
      PROVE  WorkersShaped' /\ ArtifactsShaped' /\ SourceShaped'
  <2>1. SourceShaped'
    BY <1>4, Untouched DEF DeleteDerived
  <2>2. PICK r \in wk[w].todo : /\ art' = [art EXCEPT ![r].obj = FALSE]
                                /\ wk' = [wk EXCEPT ![w].todo = @ \ {r}]
    BY <1>4 DEF DeleteDerived
  <2>3. r \in Runs /\ wk[w].pc # "idle" /\ Artifact(art[r])
    BY <1>1, <1>4 DEF DeleteDerived, At, Worker, ArtifactsShaped
  <2>4. ArtifactsShaped'
    <3>1. art' = [art EXCEPT ![r] = [art[r] EXCEPT !.obj = FALSE]]
      BY <2>2
    <3>2. Artifact([art[r] EXCEPT !.obj = FALSE])
      BY <2>3 DEF Artifact
    <3> QED BY <1>1, <2>3, <3>1, <3>2, OneArtifact
  <2>5. WorkersShaped'
    <3>1. wk' = [wk EXCEPT ![w] = [wk[w] EXCEPT !.todo = @ \ {r}]]
      BY <2>2
    <3> QED BY <1>1, <2>3, <3>1, WorkerRows, OneWorker
  <2> QED BY <2>1, <2>4, <2>5
<1> QED BY <1>2, <1>3, <1>4, Untouched DEF Shapes

LEMMA EndShapes ==
  ASSUME Shapes, NEW w \in Workers, Complete(w) \/ Retry(w)
  PROVE  Shapes'
<1> DEFINE q == wk[w].q
<1>1. /\ Worker(wk[w]) /\ WorkersShaped /\ ArtifactsShaped /\ RequestsShaped /\ wk[w].pc # "idle"
      /\ q \in Requests /\ Request(req[q])
  BY DEF Shapes, WorkersShaped, Worker, Complete, Retry, At, RequestsShaped
<1>2. UNCHANGED <<grant, file, upload, run, pub>>
  BY DEF Complete, Retry, content, users
<1>3. ASSUME Complete(w), Holds(w) /\ PolicyUnchanged /\ ManifestUnchanged(w) PROVE Shapes'
  <2> DEFINE row == [req[q] EXCEPT !.st = "succeeded", !.by = NoWorker, !.exp = FALSE]
  <2>1. /\ src' = [src EXCEPT !.st = "purged"] /\ req' = [req EXCEPT ![q] = row]
        /\ wk' = [wk EXCEPT ![w] = IdleWorker]
        /\ art' = [r \in Runs |-> IF r \in Available
                                  THEN [art[r] EXCEPT !.row = "deleted"] ELSE art[r]]
    BY <1>3 DEF Complete
  <2>2. Request(row)
    BY <1>1, NameAssumption DEF Request
  <2> HIDE DEF q, row
  <2>3. RequestsShaped'
    BY <1>1, <2>1, <2>2, OneRequest
  <2>4. WorkersShaped'
    BY <1>1, <2>1, IdleShaped, OneWorker
  <2>5. \A r \in Runs : Artifact(art'[r])
    <3> TAKE r \in Runs
    <3>1. Artifact(art[r]) /\ Artifact([art[r] EXCEPT !.row = "deleted"])
      BY <1>1 DEF ArtifactsShaped, Artifact
    <3> QED BY <2>1, <3>1
  <2>6. ArtifactsShaped'
    BY <2>1, <2>5 DEF ArtifactsShaped, Function
  <2>7. SourceShaped'
    BY <1>2, <2>1 DEF Shapes, SourceShaped, Frozen
  <2> QED BY <1>2, <2>3, <2>4, <2>6, <2>7, Untouched DEF Shapes
<1>4. ASSUME Complete(w), ~(Holds(w) /\ PolicyUnchanged /\ ManifestUnchanged(w)) PROVE Shapes'
  <2>1. UNCHANGED <<src, req, art>> /\ wk' = [wk EXCEPT ![w] = [wk[w] EXCEPT !.pc = "retry"]]
    BY <1>4 DEF Complete, Goto
  <2>2. WorkersShaped'
    BY <1>1, <2>1, WorkerRows, OneWorker
  <2> QED BY <1>2, <2>1, <2>2, Untouched DEF Shapes
<1>5. ASSUME Retry(w) PROVE Shapes'
  <2>1. wk' = [wk EXCEPT ![w] = IdleWorker] /\ UNCHANGED art
    BY <1>5 DEF Retry, content
  <2>2. WorkersShaped'
    BY <1>1, <2>1, IdleShaped, OneWorker
  <2>3. CASE Holds(w)
    <3>1. req' = [req EXCEPT ![q] = GiveBack(req[q])] /\ src' = [src EXCEPT !.st = Unclaimed(@)]
      BY <1>5, <2>3 DEF Retry
    <3>2. RequestsShaped'
      BY <1>1, <3>1, GivenBack, OneRequest
    <3>3. SourceShaped'
      BY <1>2, <3>1 DEF Shapes, SourceShaped, Unclaimed, Frozen
    <3> QED BY <1>2, <2>1, <2>2, <3>2, <3>3, Untouched DEF Shapes
  <2>4. CASE ~Holds(w)
    <3>1. UNCHANGED <<req, src>>
      BY <1>5, <2>4 DEF Retry
    <3> QED BY <1>2, <2>1, <2>2, <3>1, Untouched DEF Shapes
  <2> QED BY <2>3, <2>4
<1> QED BY <1>3, <1>4, <1>5

LEMMA LapseShapes ==
  ASSUME Shapes, NEW q \in Requests, Expire(q)
  PROVE  Shapes'
<1>1. req' = [req EXCEPT ![q] = [req[q] EXCEPT !.exp = TRUE]]
      /\ UNCHANGED <<src, grant, file, art, upload, run, pub, wk>>
  BY DEF Expire, content, users
<1>2. Request([req[q] EXCEPT !.exp = TRUE])
  BY DEF Shapes, RequestsShaped, Request
<1>3. RequestsShaped'
  BY <1>1, <1>2, OneRequest DEF Shapes
<1> QED BY <1>1, <1>3, Untouched DEF Shapes

LEMMA ShapesStep == Shapes /\ [Next]_vars => Shapes'
<1> SUFFICES ASSUME Shapes, [Next]_vars PROVE Shapes'
  OBVIOUS
<1>1. CASE UserStep \/ GrantExpires \/ \E r \in Runs : InsertRun(r) \/ EndRun(r)
  BY <1>1, UserShapes
<1>2. ASSUME NEW p \in Publishers, PublisherStep(p) PROVE Shapes'
  BY <1>2, PublisherShapes
<1>3. ASSUME NEW w \in Workers, WorkerStep(w) \/ DeletionFails(w) \/ Crash(w) PROVE Shapes'
  BY <1>3, RecoverShapes, ClaimShapes, DeleteShapes, EndShapes DEF WorkerStep
<1>4. ASSUME NEW q \in Requests, LapseUnderWorker(q) \/ LapseAfterCrash(q) PROVE Shapes'
  BY <1>4, LapseShapes DEF LapseUnderWorker, LapseAfterCrash
<1>5. CASE UNCHANGED vars
  BY <1>5, Untouched DEF vars, Shapes
<1> QED BY <1>1, <1>2, <1>3, <1>4, <1>5 DEF Next

-----------------------------------------------------------------------------
(* The source.                                                             *)

LEMMA ProtectedStep ==
  ASSUME Shapes, ProtectedIsNotErased, [Next]_vars
  PROVE  ProtectedIsNotErased'
<1> USE DEF ProtectedIsNotErased, Frozen
<1>1. src \in [st : {"uploading", "uploaded"} \union Frozen, hold : BOOLEAN, kept : BOOLEAN]
  BY DEF Shapes, SourceShaped
<1>2. CASE CompleteUpload \/ SetRetention \/ RetentionEnds \/ SetHold \/ ReleaseHold
  BY <1>1, <1>2 DEF CompleteUpload, SetRetention, RetentionEnds, SetHold, ReleaseHold
<1>3. ASSUME NEW q \in Requests, RequestPurge(q) PROVE ProtectedIsNotErased'
  BY <1>1, <1>3 DEF RequestPurge
<1>4. ASSUME NEW w \in Workers, Recover(w) PROVE ProtectedIsNotErased'
  BY <1>1, <1>4 DEF Recover, SourceRecovered, Unclaimed
<1>5. ASSUME NEW w \in Workers, NEW q \in Requests, Claim(w, q) PROVE ProtectedIsNotErased'
  BY <1>1, <1>5 DEF Claim, Claimable
<1>6. ASSUME NEW w \in Workers, Complete(w) \/ Retry(w) PROVE ProtectedIsNotErased'
  BY <1>1, <1>6 DEF Complete, Retry, PolicyUnchanged, Unclaimed
<1>7. CASE UNCHANGED src
  BY <1>7
<1>8. \/ CompleteUpload \/ SetRetention \/ RetentionEnds \/ SetHold \/ ReleaseHold
      \/ \E q \in Requests : RequestPurge(q)
      \/ \E w \in Workers : \/ Recover(w) \/ Complete(w) \/ Retry(w)
                            \/ \E q \in Requests : Claim(w, q)
      \/ UNCHANGED src
  BY DEF Next, vars, UserStep, PutFile, GrantExpires, VerifyUpload, ReadSource, InsertRun,
         EndRun, SetRun, PublisherStep, Execute, PutArtifact, RecordArtifact, DeleteUnrecorded,
         WorkerStep, DeleteSource, DeleteDerived, DeletionFails, Crash, LapseUnderWorker,
         LapseAfterCrash, Expire
<1> QED BY <1>2, <1>3, <1>4, <1>5, <1>6, <1>7, <1>8

LEMMA SourceGoneStep ==
  ASSUME Shapes, SourceGone, [Next]_vars
  PROVE  SourceGone'
<1> USE DEF SourceGone, content, users
<1>1. src \in [st : {"uploading", "uploaded"} \union Frozen, hold : BOOLEAN, kept : BOOLEAN]
      /\ Function(wk, Workers)
  BY DEF Shapes, SourceShaped, WorkersShaped
<1>2. CASE PutFile \/ GrantExpires
  BY <1>2 DEF PutFile, GrantExpires
<1>3. CASE VerifyUpload \/ CompleteUpload \/ SetRetention \/ RetentionEnds \/ SetHold \/ ReleaseHold
  <2>1. UNCHANGED <<grant, file, wk>>
    BY <1>3 DEF VerifyUpload, CompleteUpload, SetRetention, RetentionEnds, SetHold, ReleaseHold
  <2>2. src'.st = "purged" => src.st = "purged"
    BY <1>1, <1>3 DEF VerifyUpload, CompleteUpload, SetRetention, RetentionEnds, SetHold, ReleaseHold
  <2> QED BY <2>1, <2>2
<1>4. ASSUME NEW q \in Requests, RequestPurge(q) PROVE SourceGone'
  BY <1>1, <1>4 DEF RequestPurge
<1>5. ASSUME NEW w \in Workers, Recover(w) PROVE SourceGone'
  BY <1>1, <1>5 DEF Recover, SourceRecovered, Unclaimed
<1>6. ASSUME NEW w \in Workers, NEW q \in Requests, Claim(w, q) PROVE SourceGone'
  BY <1>1, <1>6 DEF Claim, Claimable, Function
<1>7. ASSUME NEW w \in Workers, Complete(w) PROVE SourceGone'
  <2>1. wk[w].pc = "derived" /\ ~grant /\ ~file /\ UNCHANGED <<grant, file>>
    BY <1>7 DEF Complete, At
  <2> QED BY <2>1
<1>8. ASSUME NEW w \in Workers, Retry(w) PROVE SourceGone'
  BY <1>1, <1>8 DEF Retry, Unclaimed, IdleWorker, Function
<1>9. ASSUME NEW w \in Workers,
             DeleteSource(w) \/ DeleteDerived(w) \/ DeletionFails(w) \/ Crash(w)
      PROVE  SourceGone'
  <2>1. UNCHANGED <<src, grant>> /\ (file' = file \/ ~file')
    BY <1>9 DEF DeleteSource, DeleteDerived, DeletionFails, Crash
  <2>2. \A v \in Workers \ {w} : wk'[v] = wk[v]
    BY <1>1, <1>9 DEF DeleteSource, DeleteDerived, DeletionFails, Crash, Function
  <2>3. wk'[w].pc # "idle" => wk[w].pc # "idle"
    BY <1>1, <1>9 DEF DeleteSource, DeleteDerived, DeletionFails, Crash, At, Goto, IdleWorker, Function
  <2>4. wk'[w].pc = "derived" => wk[w].pc = "derived" \/ ~file'
    <3>1. Worker(wk[w])
      BY DEF Shapes, WorkersShaped
    <3> QED
      BY <1>1, <1>9, <3>1 DEF Worker, DeleteSource, DeleteDerived, DeletionFails, Crash, At, Goto, IdleWorker, Function
  <2> QED BY <2>1, <2>2, <2>3, <2>4
<1>10. CASE UNCHANGED <<src, grant, file, wk>>
  BY <1>10
<1>11. \/ \E p \in Publishers : PublisherStep(p)
       \/ \E r \in Runs : ReadSource(r) \/ InsertRun(r) \/ EndRun(r)
       \/ \E q \in Requests : LapseUnderWorker(q) \/ LapseAfterCrash(q)
       \/ UNCHANGED vars
       => UNCHANGED <<src, grant, file, wk>>
  BY DEF PublisherStep, Execute, PutArtifact, RecordArtifact, DeleteUnrecorded, ReadSource,
         InsertRun, EndRun, SetRun, LapseUnderWorker, LapseAfterCrash, Expire, vars
<1> QED BY <1>2, <1>3, <1>4, <1>5, <1>6, <1>7, <1>8, <1>9, <1>10, <1>11
        DEF Next, UserStep, WorkerStep

-----------------------------------------------------------------------------
(* The artifacts.                                                          *)

\* Only executions put objects and record rows.
Removes ==
  /\ UNCHANGED pub
  /\ \A r \in Runs : /\ art'[r].obj => art[r].obj
                     /\ \/ art'[r].row = art[r].row
                        \/ art[r].row = "available" /\ art'[r].row = "deleted"

LEMMA OthersRemove ==
  ASSUME Shapes, [Next]_vars
  PROVE  Removes \/ \E p \in Publishers : PublisherStep(p)
<1> USE DEF Removes, content, users
<1>1. Function(art, Runs)
  BY DEF Shapes, ArtifactsShaped
<1>2. ASSUME NEW w \in Workers, DeleteDerived(w) PROVE Removes
  <2>1. wk[w].todo \subseteq Runs
    BY DEF Shapes, WorkersShaped, Worker
  <2>2. PICK r \in wk[w].todo : art' = [art EXCEPT ![r].obj = FALSE]
    BY <1>2 DEF DeleteDerived
  <2>3. \A x \in Runs : art'[x] = IF x = r THEN [art[r] EXCEPT !.obj = FALSE] ELSE art[x]
    BY <1>1, <2>2 DEF Function
  <2>4. \A x \in Runs : Artifact(art[x])
    BY DEF Shapes, ArtifactsShaped
  <2>5. r \in Runs /\ [art[r] EXCEPT !.obj = FALSE].obj = FALSE
        /\ [art[r] EXCEPT !.obj = FALSE].row = art[r].row
    BY <2>1, <2>4 DEF Artifact
  <2>6. UNCHANGED pub
    BY <1>2 DEF DeleteDerived
  <2> QED BY <2>3, <2>5, <2>6
<1>3. ASSUME NEW w \in Workers, Complete(w) PROVE Removes
  <2>1. \A r \in Runs : Artifact(art[r])
    BY DEF Shapes, ArtifactsShaped
  <2>2. \A r \in Runs : /\ [art[r] EXCEPT !.row = "deleted"].obj = art[r].obj
                        /\ [art[r] EXCEPT !.row = "deleted"].row = "deleted"
    BY <2>1 DEF Artifact
  <2>3. UNCHANGED pub
    BY <1>3 DEF Complete
  <2>4. CASE UNCHANGED art
    BY <2>3, <2>4
  <2>5. CASE art' = [r \in Runs |-> IF r \in Available THEN [art[r] EXCEPT !.row = "deleted"]
                                                     ELSE art[r]]
    <3>1. \A r \in Runs : art'[r] = IF art[r].row = "available"
                                    THEN [art[r] EXCEPT !.row = "deleted"] ELSE art[r]
      BY <2>5 DEF Available
    <3> QED BY <2>2, <2>3, <3>1
  <2> QED BY <1>3, <2>4, <2>5 DEF Complete
<1>4. CASE UNCHANGED <<art, pub>>
  BY <1>4
<1>5. \/ UNCHANGED <<art, pub>>
      \/ \E p \in Publishers : PublisherStep(p)
      \/ \E w \in Workers : DeleteDerived(w) \/ Complete(w)
  BY DEF Next, vars, UserStep, PutFile, GrantExpires, VerifyUpload, CompleteUpload, SetRetention,
         RetentionEnds, SetHold, ReleaseHold, RequestPurge, ReadSource, InsertRun, EndRun, SetRun,
         WorkerStep, Recover, Claim, DeleteSource, Retry, DeletionFails, Crash, LapseUnderWorker,
         LapseAfterCrash, Expire
<1> QED BY <1>2, <1>3, <1>4, <1>5

\* Where a worker stands after a step, and what it has seen and dealt with.
Moves(w) ==
  \/ wk'[w] = wk[w]
  \/ wk'[w] = IdleWorker
  \/ /\ wk'[w].pc = "source" /\ wk'[w].todo = wk'[w].seen
     /\ wk'[w].seen = Available /\ art' = art
  \/ wk'[w].pc = "retry" /\ wk'[w].seen = wk[w].seen
  \/ /\ wk'[w].pc = "derived" /\ wk[w].pc = "source"
     /\ wk'[w].seen = wk[w].seen /\ wk'[w].todo = wk[w].todo
  \/ /\ wk'[w].pc = "derived" /\ wk[w].pc = "derived" /\ wk'[w].seen = wk[w].seen
     /\ \E r \in Runs : wk'[w].todo = wk[w].todo \ {r} /\ ~art'[r].obj

LEMMA AllMove ==
  ASSUME Shapes, [Next]_vars
  PROVE  \A w \in Workers : Moves(w)
<1> USE DEF Moves, content, users
<1>1. Function(wk, Workers) /\ Function(art, Runs) /\ \A w \in Workers : Worker(wk[w])
  BY DEF Shapes, WorkersShaped, ArtifactsShaped
<1>2. ASSUME NEW v \in Workers, NEW row, wk' = [wk EXCEPT ![v] = row]
      PROVE  wk'[v] = row /\ \A w \in Workers \ {v} : wk'[w] = wk[w]
  BY <1>1, <1>2 DEF Function
<1>3. ASSUME NEW v \in Workers, NEW q \in Requests, Claim(v, q)
      PROVE  \A w \in Workers : Moves(w)
  <2> DEFINE place == [pc |-> "source", q |-> q, todo |-> Available, seen |-> Available]
  <2>1. wk' = [wk EXCEPT ![v] = place] /\ art' = art
    BY <1>3 DEF Claim
  <2>2. place.pc = "source" /\ place.todo = place.seen /\ place.seen = Available
    OBVIOUS
  <2> HIDE DEF place
  <2> QED BY <1>2, <2>1, <2>2
<1>4. ASSUME NEW v \in Workers, Complete(v) \/ Retry(v) \/ Crash(v) \/ DeletionFails(v)
      PROVE  \A w \in Workers : Moves(w)
  <2> DEFINE row == [wk[v] EXCEPT !.pc = "retry"]
  <2>1. wk' = [wk EXCEPT ![v] = IdleWorker] \/ wk' = [wk EXCEPT ![v] = row]
    BY <1>4 DEF Complete, Retry, Crash, DeletionFails, Goto
  <2>2. row.pc = "retry" /\ row.seen = wk[v].seen
    BY <1>1 DEF Worker
  <2> HIDE DEF row
  <2> QED BY <1>2, <2>1, <2>2
<1>5. ASSUME NEW v \in Workers, DeleteSource(v)
      PROVE  \A w \in Workers : Moves(w)
  <2> DEFINE row == [wk[v] EXCEPT !.pc = "derived"]
  <2>1. wk' = [wk EXCEPT ![v] = row] /\ wk[v].pc = "source"
    BY <1>5 DEF DeleteSource, Goto, At
  <2>2. row.pc = "derived" /\ row.seen = wk[v].seen /\ row.todo = wk[v].todo
    BY <1>1 DEF Worker
  <2> HIDE DEF row
  <2> QED BY <1>2, <2>1, <2>2
<1>6. ASSUME NEW v \in Workers, DeleteDerived(v)
      PROVE  \A w \in Workers : Moves(w)
  <2>1. wk[v].pc = "derived" /\ wk[v].todo \subseteq Runs
    BY <1>1, <1>6 DEF DeleteDerived, At, Worker
  <2>2. PICK r \in wk[v].todo : /\ art' = [art EXCEPT ![r].obj = FALSE]
                                /\ wk' = [wk EXCEPT ![v].todo = @ \ {r}]
    BY <1>6 DEF DeleteDerived
  <2>3. r \in Runs /\ Artifact(art[r])
    BY <2>1 DEF Shapes, ArtifactsShaped
  <2>4. ~art'[r].obj
    BY <1>1, <2>2, <2>3 DEF Function, Artifact
  <2> DEFINE row == [wk[v] EXCEPT !.todo = @ \ {r}]
  <2>5. wk' = [wk EXCEPT ![v] = row]
    BY <2>2
  <2>6. row.pc = "derived" /\ row.seen = wk[v].seen /\ row.todo = wk[v].todo \ {r}
    BY <1>1, <2>1 DEF Worker
  <2> HIDE DEF row
  <2> QED BY <1>2, <2>1, <2>3, <2>4, <2>5, <2>6
<1>7. CASE UNCHANGED wk
  BY <1>7
<1>8. \/ UNCHANGED wk
      \/ \E v \in Workers : \/ Complete(v) \/ Retry(v) \/ Crash(v) \/ DeletionFails(v)
                            \/ DeleteSource(v) \/ DeleteDerived(v)
                            \/ \E q \in Requests : Claim(v, q)
  BY DEF Next, vars, UserStep, PutFile, GrantExpires, VerifyUpload, CompleteUpload, SetRetention,
         RetentionEnds, SetHold, ReleaseHold, RequestPurge, ReadSource, InsertRun, EndRun, SetRun,
         PublisherStep, Execute, PutArtifact, RecordArtifact, DeleteUnrecorded, WorkerStep,
         Recover, LapseUnderWorker, LapseAfterCrash, Expire
<1> QED BY <1>3, <1>4, <1>5, <1>6, <1>7, <1>8

\* An execution puts, records or gives up the object of its own run.
LEMMA Publishes ==
  ASSUME Shapes, NotYetBack, NEW p \in Publishers, PublisherStep(p)
  PROVE  /\ NotYetBack'
         /\ \A r \in Runs :
              /\ art[r].row # "none" /\ Erased(r) => Erased(r)'
              /\ art[r].row # "none" => art'[r].row # "none"
              /\ art'[r].row = "deleted" => art[r].row = "deleted"
<1>1. /\ Function(pub, Publishers) /\ Function(art, Runs)
      /\ \A x \in Publishers : Execution(pub[x]) /\ \A r \in Runs : Artifact(art[r])
  BY DEF Shapes, ExecutionsShaped, ArtifactsShaped
<1>2. \A x \in Publishers \ {p} : pub'[x] = pub[x]
  BY <1>1 DEF PublisherStep, Execute, PutArtifact, RecordArtifact, DeleteUnrecorded, Function
<1>3. ASSUME NEW s \in Runs, Execute(p, s)
      PROVE  ~pub[p].back /\ ~pub'[p].back /\ art' = art
  <2>1. ~pub[p].back
    BY <1>3 DEF Execute, NotYetBack
  <2>2. pub' = [pub EXCEPT ![p] = [pub[p] EXCEPT !.pc = "put", !.run = s]]
    BY <1>1, <1>3 DEF Execute, Function
  <2>3. [pub[p] EXCEPT !.pc = "put", !.run = s].back = pub[p].back
    BY <1>1 DEF Execution
  <2>4. pub'[p] = [pub[p] EXCEPT !.pc = "put", !.run = s]
    BY <1>1, <2>2 DEF Function
  <2> QED BY <2>1, <2>3, <2>4, <1>3 DEF Execute, content
<1>4. ASSUME RecordArtifact(p) \/ DeleteUnrecorded(p)
      PROVE  /\ pub'[p].run = pub[p].run /\ pub'[p].back = pub[p].back /\ pub'[p].pc = "done"
             /\ \A r \in Runs : /\ art'[r].obj => art[r].obj
                                /\ art[r].row # "none" => art'[r].row # "none"
                                /\ art'[r].row = "deleted" => art[r].row = "deleted"
  <2> DEFINE row == [pub[p] EXCEPT !.pc = "done", !.made = FALSE]
             mine == pub[p].run
  <2>1. pub' = [pub EXCEPT ![p] = row]
    BY <1>1, <1>4 DEF RecordArtifact, DeleteUnrecorded, Function
  <2>2. pub'[p] = row
    BY <1>1, <2>1 DEF Function
  <2>3. row.run = pub[p].run /\ row.back = pub[p].back /\ row.pc = "done"
    BY <1>1 DEF Execution
  <2>4. mine \in Runs /\ Artifact(art[mine])
    BY <1>1, <1>4 DEF RecordArtifact, DeleteUnrecorded, Execution
  <2>5. \A r \in Runs \ {mine} : art'[r] = art[r]
    BY <1>1, <1>4 DEF RecordArtifact, DeleteUnrecorded, Function
  <2>6. CASE RecordArtifact(p)
    <3>1. art'[mine] = [art[mine] EXCEPT !.row = "available"]
      BY <1>1, <2>4, <2>6 DEF RecordArtifact, Function
    <3>2. art'[mine].obj = art[mine].obj /\ art'[mine].row = "available"
      BY <2>4, <3>1 DEF Artifact
    <3> QED BY <2>2, <2>3, <2>5, <3>2
  <2>7. CASE DeleteUnrecorded(p)
    <3>1. art'[mine] = [art[mine] EXCEPT !.obj = art[mine].obj /\ ~pub[p].made]
      BY <1>1, <2>4, <2>7 DEF DeleteUnrecorded, Function
    <3>2. art'[mine].row = art[mine].row /\ art'[mine].obj = (art[mine].obj /\ ~pub[p].made)
      BY <2>4, <3>1 DEF Artifact
    <3> QED BY <2>2, <2>3, <2>5, <3>2
  <2> QED BY <1>4, <2>6, <2>7
<1>5. ASSUME PutArtifact(p)
      PROVE  LET mine == pub[p].run IN
             /\ ~pub[p].back /\ mine \in Runs /\ pub'[p].run = mine /\ pub'[p].pc = "record"
             /\ ~art[mine].obj /\ art[mine].row # "none" => pub'[p].back
             /\ \A r \in Runs \ {mine} : art'[r] = art[r]
             /\ art'[mine].row = art[mine].row
  <2> DEFINE mine == pub[p].run
             row == [pub[p] EXCEPT !.pc = "record", !.made = ~art[mine].obj,
                                   !.back = ~art[mine].obj /\ art[mine].row # "none"]
  <2>1. pub' = [pub EXCEPT ![p] = row]
    BY <1>1, <1>5 DEF PutArtifact, Function
  <2>2. pub'[p] = row
    BY <1>1, <2>1 DEF Function
  <2>3. row.run = mine /\ row.pc = "record" /\ row.back = (~art[mine].obj /\ art[mine].row # "none")
    BY <1>1 DEF Execution
  <2>4. ~pub[p].back /\ mine \in Runs
    BY <1>1, <1>5 DEF PutArtifact, NotYetBack, Execution
  <2>5. \A r \in Runs \ {mine} : art'[r] = art[r]
    BY <1>1, <1>5 DEF PutArtifact, Function
  <2>6. art'[mine].row = art[mine].row
    BY <1>1, <1>5, <2>4 DEF PutArtifact, Function, Artifact
  <2> HIDE DEF row
  <2> QED BY <2>2, <2>3, <2>4, <2>5, <2>6
<1>6. NotYetBack'
  BY <1>2, <1>3, <1>4, <1>5 DEF NotYetBack, PublisherStep
<1>7. ASSUME NEW r \in Runs
      PROVE  /\ art[r].row # "none" /\ Erased(r) => Erased(r)'
             /\ art[r].row # "none" => art'[r].row # "none"
             /\ art'[r].row = "deleted" => art[r].row = "deleted"
  <2>1. ASSUME NEW s \in Runs, Execute(p, s)
        PROVE  /\ Erased(r) => Erased(r)'
               /\ art'[r] = art[r]
    BY <1>2, <1>3, <2>1 DEF Erased
  <2>2. CASE RecordArtifact(p) \/ DeleteUnrecorded(p)
    <3>1. \A x \in Publishers : pub'[x].run = pub[x].run /\ pub'[x].back = pub[x].back
      BY <1>2, <1>4, <2>2
    <3> QED BY <1>4, <2>2, <3>1 DEF Erased
  <2>3. CASE PutArtifact(p)
    <3>1. ASSUME art[r].row # "none", Erased(r) PROVE Erased(r)'
      <4>1. CASE art[r].obj
        <5>1. PICK x \in Publishers : pub[x].run = r /\ pub[x].back
          BY <3>1, <4>1 DEF Erased
        <5>2. x # p
          BY <1>5, <2>3, <5>1
        <5> QED BY <1>2, <5>1, <5>2 DEF Erased
      <4>2. CASE ~art[r].obj
        BY <1>5, <2>3, <3>1, <4>2 DEF Erased
      <4> QED BY <4>1, <4>2
    <3>2. art'[r].row = art[r].row
      BY <1>5, <2>3
    <3> QED BY <3>1, <3>2
  <2> QED BY <2>1, <2>2, <2>3 DEF PublisherStep
<1> QED BY <1>6, <1>7

\* What is erased, or recorded, stays so; only a completed purge shows an
\* artifact as deleted, and it has dealt with all of them.
LEMMA RowsStay ==
  ASSUME Shapes, NotYetBack, [Next]_vars
  PROVE  /\ NotYetBack'
         /\ \A r \in Runs : art[r].row # "none" => /\ art'[r].row # "none"
                                                   /\ Erased(r) => Erased(r)'
<1>1. CASE Removes
  <2>1. NotYetBack'
    BY <1>1 DEF Removes, NotYetBack
  <2>2. \A r \in Runs : art[r].row # "none" => /\ art'[r].row # "none"
                                               /\ Erased(r) => Erased(r)'
    BY <1>1 DEF Removes, Erased
  <2> QED BY <2>1, <2>2
<1>2. ASSUME NEW p \in Publishers, PublisherStep(p)
      PROVE  /\ NotYetBack'
             /\ \A r \in Runs : art[r].row # "none" => /\ art'[r].row # "none"
                                                       /\ Erased(r) => Erased(r)'
  BY <1>2, Publishes
<1> QED BY <1>1, <1>2, OthersRemove

LEMMA BecomesTomb ==
  ASSUME Shapes, NotYetBack, Dealt, [Next]_vars,
         NEW r \in Runs, art'[r].row = "deleted", art[r].row # "deleted"
  PROVE  art[r].row # "none" /\ Erased(r)
<1>1. ASSUME NEW p \in Publishers, PublisherStep(p) PROVE FALSE
  BY <1>1, Publishes
<1>2. ASSUME NEW w \in Workers, DeleteDerived(w) PROVE FALSE
  <2>1. PICK x \in wk[w].todo : art' = [art EXCEPT ![x].obj = FALSE]
    BY <1>2 DEF DeleteDerived
  <2>2. x \in Runs /\ Artifact(art[x]) /\ Function(art, Runs)
    BY DEF Shapes, WorkersShaped, Worker, ArtifactsShaped
  <2>3. art'[r].row = art[r].row
    BY <2>1, <2>2 DEF Artifact, Function
  <2> QED BY <2>3
<1>3. ASSUME NEW w \in Workers, Complete(w) PROVE art[r].row # "none" /\ Erased(r)
  <2>1. art' = [x \in Runs |-> IF x \in Available THEN [art[x] EXCEPT !.row = "deleted"]
                                                  ELSE art[x]]
        /\ ManifestUnchanged(w)
    BY <1>3 DEF Complete
  <2>2. r \in Available
    BY <2>1
  <2>3. r \in wk[w].seen \ wk[w].todo /\ wk[w].pc = "derived"
    BY <1>3, <2>1, <2>2 DEF Complete, ManifestUnchanged, At
  <2> QED BY <2>2, <2>3 DEF Dealt, Available
<1>4. \/ UNCHANGED art
      \/ \E p \in Publishers : PublisherStep(p)
      \/ \E w \in Workers : DeleteDerived(w) \/ Complete(w)
  BY DEF Next, vars, content, UserStep, PutFile, GrantExpires, VerifyUpload, CompleteUpload,
         SetRetention, RetentionEnds, SetHold, ReleaseHold, RequestPurge, ReadSource, InsertRun,
         EndRun, SetRun, WorkerStep, Recover, Claim, DeleteSource, Retry, DeletionFails, Crash,
         LapseUnderWorker, LapseAfterCrash, Expire
<1> QED BY <1>1, <1>2, <1>3, <1>4

LEMMA ErasureStep ==
  ASSUME Shapes, NotYetBack, SeenRows, Dealt, Tombs, [Next]_vars
  PROVE  (NotYetBack /\ SeenRows /\ Dealt /\ Tombs)'
<1>1. NotYetBack'
  BY RowsStay
<1>2. \A w \in Workers : wk[w].seen \subseteq Runs /\ wk[w].todo \subseteq Runs
  BY DEF Shapes, WorkersShaped, Worker
<1>3. SeenRows'
  <2> SUFFICES ASSUME NEW w \in Workers, NEW r \in wk'[w].seen PROVE art'[r].row # "none"
    BY DEF SeenRows
  <2>1. CASE wk'[w] = wk[w] \/ wk'[w].seen = wk[w].seen
    BY <1>2, <2>1, RowsStay DEF SeenRows
  <2>2. CASE wk'[w] = IdleWorker
    BY <2>2 DEF IdleWorker
  <2>3. CASE wk'[w].seen = Available /\ art' = art
    BY <2>3 DEF Available
  <2> QED BY <2>1, <2>2, <2>3, AllMove DEF Moves
<1>4. Dealt'
  <2> SUFFICES ASSUME NEW w \in Workers
               PROVE  /\ wk'[w].pc = "source" => wk'[w].todo = wk'[w].seen
                      /\ wk'[w].pc = "derived" =>
                           \A r \in wk'[w].seen \ wk'[w].todo : Erased(r)'
    BY DEF Dealt
  <2>1. \A r \in wk[w].seen : Erased(r) => Erased(r)'
    BY <1>2, RowsStay DEF SeenRows
  <2>2. CASE wk'[w] = wk[w]
    BY <2>1, <2>2 DEF Dealt
  <2>3. CASE wk'[w] = IdleWorker
    BY <2>3 DEF IdleWorker
  <2>4. CASE wk'[w].pc = "source" /\ wk'[w].todo = wk'[w].seen
    BY <2>4
  <2>5. CASE wk'[w].pc = "retry"
    BY <2>5
  <2>6. CASE /\ wk'[w].pc = "derived" /\ wk[w].pc = "source"
             /\ wk'[w].seen = wk[w].seen /\ wk'[w].todo = wk[w].todo
    BY <2>6 DEF Dealt
  <2>7. CASE /\ wk'[w].pc = "derived" /\ wk[w].pc = "derived" /\ wk'[w].seen = wk[w].seen
             /\ \E r \in Runs : wk'[w].todo = wk[w].todo \ {r} /\ ~art'[r].obj
    <3>1. PICK gone \in Runs : wk'[w].todo = wk[w].todo \ {gone} /\ ~art'[gone].obj
      BY <2>7
    <3>2. Erased(gone)'
      BY <3>1 DEF Erased
    <3>3. \A r \in wk[w].seen \ wk[w].todo : Erased(r)'
      BY <2>1, <2>7 DEF Dealt
    <3> QED BY <2>7, <3>1, <3>2, <3>3
  <2> QED BY <2>2, <2>3, <2>4, <2>5, <2>6, <2>7, AllMove DEF Moves
<1>5. Tombs'
  <2> SUFFICES ASSUME NEW r \in Runs, art'[r].row = "deleted" PROVE Erased(r)'
    BY DEF Tombs
  <2>1. art[r].row # "none" /\ Erased(r)
    <3>1. CASE art[r].row = "deleted"
      BY <3>1 DEF Tombs
    <3>2. CASE art[r].row # "deleted"
      BY <3>2, BecomesTomb
    <3> QED BY <3>1, <3>2
  <2> QED BY <2>1, RowsStay
<1> QED BY <1>1, <1>3, <1>4, <1>5

-----------------------------------------------------------------------------
(* The requests.                                                           *)

\* A request that may still be claimed has an attempt left from the start.
InHand ==
  FrozenIsInHand /\ \A q \in Requests : req[q].st = "none" => req[q].att < MaxAttempts

LEMMA SameHands ==
  ASSUME InHand, src'.st = src.st \/ src'.st \notin {"deletion_pending", "purging"},
         \A q \in Requests : req'[q].st = req[q].st /\ req'[q].att = req[q].att
  PROVE  InHand'
BY DEF InHand, FrozenIsInHand

\* Giving a request back leaves it to another attempt or records its failure.
LEMMA BackInHand ==
  ASSUME NEW row, Request(row)
  PROVE  /\ GiveBack(row).st \in {"retrying", "failed"} /\ GiveBack(row).att = row.att
         /\ GiveBack(row).st = "retrying" => row.att < MaxAttempts
<1>1. MaxAttempts \in Nat /\ row.att \in 0..MaxAttempts
  BY BoundAssumption DEF Request
<1> QED BY <1>1 DEF Request, GiveBack

LEMMA RecoveredInHand ==
  ASSUME Shapes, InHand, NEW q \in Requests
  PROVE  /\ Recovered[q].st = req[q].st \/ (req[q].st = "purging" /\ q \in Lapsed /\
                                            Recovered[q].st \in {"retrying", "failed"})
         /\ Recovered[q].att = req[q].att
         /\ Recovered[q].st \in Open \union {"none"} => Recovered[q].att < MaxAttempts
<1>1. Request(req[q]) BY DEF Shapes, RequestsShaped
<1>2. CASE q \in Lapsed
  <2>1. Recovered[q] = GiveBack(req[q]) /\ req[q].st = "purging"
    BY <1>2 DEF Recovered, Lapsed
  <2> QED BY <1>1, <1>2, <2>1, BackInHand DEF Open
<1>3. CASE q \notin Lapsed
  <2>1. Recovered[q] = req[q] BY <1>3 DEF Recovered
  <2> QED BY <2>1 DEF InHand, FrozenIsInHand
<1> QED BY <1>2, <1>3

LEMMA HoldInHand == ASSUME Shapes, InHand, SetHold PROVE InHand'
<1>1. src'.st \notin {"deletion_pending", "purging"}
  BY DEF SetHold, Shapes, SourceShaped, Frozen
<1>2. \A q \in Requests :
        req'[q].st = "blocked" \/ (req'[q] = req[q] /\ req[q].st \notin Open)
  BY DEF SetHold, Shapes, RequestsShaped, Request
<1> QED BY <1>1, <1>2 DEF InHand, FrozenIsInHand, Open

LEMMA RequestInHand ==
  ASSUME Shapes, InHand, NEW q \in Requests, RequestPurge(q)
  PROVE  InHand'
<1>1. Request(req[q]) /\ req[q].att < MaxAttempts
  BY DEF RequestPurge, Shapes, RequestsShaped, InHand
<1>2. /\ req'[q].st = "queued" /\ req'[q].att = req[q].att
      /\ \A x \in Requests : x # q => req'[x] = req[x]
  BY <1>1 DEF RequestPurge, Shapes, RequestsShaped, Function, Request
<1>3. src'.st = "deletion_pending"
  BY DEF RequestPurge, Shapes, SourceShaped
<1> QED BY <1>1, <1>2, <1>3 DEF InHand, FrozenIsInHand, Open

LEMMA RecoverInHand == ASSUME Shapes, InHand, NEW w \in Workers, Recover(w) PROVE InHand'
<1>1. req' = Recovered /\ src'.st = Unclaimed(src.st) /\ Lapsed # {}
  BY DEF Recover, SourceRecovered, Shapes, SourceShaped
<1>2. PICK l \in Requests : req[l].st = "purging" /\ l \in Lapsed
  BY <1>1 DEF Lapsed
<1>3. src'.st # "purging" BY <1>1 DEF Unclaimed
<1>4. Recovered[l].st \in Open \union {"failed"}
  BY <1>2, BackInHand DEF Recovered, Open, Shapes, RequestsShaped
<1> QED BY <1>1, <1>3, <1>4, RecoveredInHand DEF InHand, FrozenIsInHand

LEMMA ClaimInHand ==
  ASSUME Shapes, InHand, NEW w \in Workers, NEW q \in Requests, Claim(w, q)
  PROVE  InHand'
<1>1. /\ src'.st = "purging" /\ req'[q].st = "purging"
      /\ \A x \in Requests : x # q => req'[x] = Recovered[x]
  BY RecoveredShaped DEF Claim, Shapes, SourceShaped, Function
<1> QED BY <1>1, RecoveredInHand DEF InHand, FrozenIsInHand, Open

LEMMA EndInHand ==
  ASSUME Shapes, InHand, NEW w \in Workers, Complete(w) \/ Retry(w)
  PROVE  InHand'
<1> DEFINE q == wk[w].q
<1>1. CASE UNCHANGED <<src, req>> BY <1>1, SameHands
<1>2. q \in Requests
  BY DEF Complete, Retry, At, Shapes, WorkersShaped, Worker
<1>3. Request(req[q]) BY <1>2 DEF Shapes, RequestsShaped
<1>4. CASE Complete(w) /\ ~UNCHANGED <<src, req>>
  <2>1. /\ src'.st = "purged"
        /\ req' = [req EXCEPT ![q] = [req[q] EXCEPT !.st = "succeeded", !.by = NoWorker,
                                                    !.exp = FALSE]]
    BY <1>4 DEF Complete, Shapes, SourceShaped
  <2>2. req'[q].st = "succeeded" /\ \A x \in Requests : x # q => req'[x] = req[x]
    BY <1>2, <1>3, <2>1 DEF Shapes, RequestsShaped, Function, Request
  <2> QED BY <2>1, <2>2 DEF InHand, FrozenIsInHand, Open
<1>5. CASE Retry(w) /\ ~UNCHANGED <<src, req>>
  <2>1. Holds(w) /\ src'.st = Unclaimed(src.st) /\ req' = [req EXCEPT ![q] = GiveBack(req[q])]
    BY <1>5 DEF Retry, Shapes, SourceShaped
  <2>2. req'[q] = GiveBack(req[q]) /\ \A x \in Requests : x # q => req'[x] = req[x]
    BY <1>2, <2>1 DEF Shapes, RequestsShaped, Function
  <2>3. src'.st # "purging" BY <2>1 DEF Unclaimed
  <2>4. req'[q].st \in {"retrying", "failed"}
        /\ (req'[q].st = "retrying" => req'[q].att < MaxAttempts)
    BY <1>3, <2>2, BackInHand
  <2> QED BY <1>2, <2>2, <2>3, <2>4 DEF InHand, FrozenIsInHand, Open
<1> QED BY <1>1, <1>4, <1>5

LEMMA InHandStep == Shapes /\ InHand /\ [Next]_vars => InHand'
<1> SUFFICES ASSUME Shapes, InHand, [Next]_vars PROVE InHand'
  OBVIOUS
<1>1. CASE UNCHANGED <<src, req>> BY <1>1, SameHands
<1>2. CASE UserStep
  <2>1. CASE CompleteUpload \/ SetRetention \/ RetentionEnds \/ ReleaseHold
    <3>1. req' = req BY <2>1 DEF CompleteUpload, SetRetention, RetentionEnds, ReleaseHold
    <3>2. src'.st = src.st \/ src'.st = "uploaded"
      BY <2>1 DEF CompleteUpload, SetRetention, RetentionEnds, ReleaseHold, Shapes, SourceShaped
    <3> QED BY <3>1, <3>2, SameHands
  <2>2. CASE PutFile \/ VerifyUpload \/ \E r \in Runs : ReadSource(r)
    BY <1>1, <2>2 DEF PutFile, VerifyUpload, ReadSource, SetRun
  <2> QED BY <1>2, <2>1, <2>2, HoldInHand, RequestInHand DEF UserStep
<1>3. CASE GrantExpires \/ \E r \in Runs : InsertRun(r) \/ EndRun(r)
  BY <1>1, <1>3 DEF GrantExpires, InsertRun, EndRun, SetRun
<1>4. CASE \E p \in Publishers : PublisherStep(p)
  BY <1>1, <1>4 DEF PublisherStep, Execute, PutArtifact, RecordArtifact, DeleteUnrecorded
<1>5. ASSUME NEW w \in Workers, WorkerStep(w) \/ DeletionFails(w) \/ Crash(w)
      PROVE  InHand'
  BY <1>1, <1>5, RecoverInHand, ClaimInHand, EndInHand
  DEF WorkerStep, DeletionFails, Crash, DeleteSource, DeleteDerived
<1>6. ASSUME NEW q \in Requests, LapseUnderWorker(q) \/ LapseAfterCrash(q) PROVE InHand'
  <2>1. req' = [req EXCEPT ![q].exp = TRUE] /\ src' = src
    BY <1>6 DEF LapseUnderWorker, LapseAfterCrash, Expire
  <2>2. \A x \in Requests : req'[x].st = req[x].st /\ req'[x].att = req[x].att
    BY <2>1 DEF Shapes, RequestsShaped, Function, Request
  <2> QED BY <2>1, <2>2, SameHands
<1> QED BY <1>1, <1>2, <1>3, <1>4, <1>5, <1>6 DEF Next, vars

-----------------------------------------------------------------------------
(* The invariant, and what follows from it.                                *)

LEMMA InitIInv == Init => IInv
<1> SUFFICES ASSUME Init PROVE IInv
  OBVIOUS
<1>1. SourceShaped /\ ProtectedIsNotErased /\ SourceGone
  BY DEF Init, SourceShaped, ProtectedIsNotErased, SourceGone, IdleWorker, Frozen
<1>2. RequestsShaped
  <2>1. Request([st |-> "none", att |-> 0, by |-> NoWorker, exp |-> FALSE])
    BY BoundAssumption DEF Request
  <2> QED BY <2>1 DEF Init, RequestsShaped, Function
<1>3. WorkersShaped
  BY IdleShaped DEF Init, WorkersShaped, Function
<1>4. ExecutionsShaped
  BY DEF Init, ExecutionsShaped, Execution, Function
<1>5. ArtifactsShaped
  BY DEF Init, ArtifactsShaped, Artifact, Function
<1>6. NotYetBack
  BY DEF Init, NotYetBack
<1>7. SeenRows /\ Dealt /\ Tombs
  BY DEF Init, SeenRows, Dealt, Tombs, IdleWorker
<1> QED BY <1>1, <1>2, <1>3, <1>4, <1>5, <1>6, <1>7 DEF IInv, Shapes

LEMMA InvStep == IInv /\ [Next]_vars => IInv'
BY ShapesStep, ProtectedStep, SourceGoneStep, ErasureStep DEF IInv

LEMMA Invariance == Spec => []IInv
<1>1. Init => IInv
  BY InitIInv
<1>2. IInv /\ [Next]_vars => IInv'
  BY InvStep
<1> QED BY <1>1, <1>2, PTL DEF Spec

\* Every row, worker and object has its shape, and a leased request an owner
\* (document_purge_requests_lease_shape).
THEOREM TypeCorrect == Spec => []TypeOK
<1>1. IInv => TypeOK
  BY ShapesGiveTypes DEF IInv
<1> QED BY <1>1, Invariance, PTL

\* No source shown as purged, and no artifact shown as deleted, has an object
\* left, except one that a repeated execution put back (document_purge.py,
\* complete).
THEOREM TombstonesTellTheTruth == Spec => []TombstoneIsTruth
<1>1. IInv => TombstoneIsTruth
  BY DEF IInv, SourceGone, Tombs, Erased, TombstoneIsTruth
<1> QED BY <1>1, Invariance, PTL

\* Whatever the order of holds, retention, requests, claims and retries, a
\* protected source is never frozen, purging or purged.
THEOREM NothingProtectedIsErased == Spec => []ProtectedIsNotErased
<1>1. IInv => ProtectedIsNotErased
  BY DEF IInv
<1> QED BY <1>1, Invariance, PTL

\* A source frozen for deletion is in the hands of a request that a worker
\* erases, that may still be claimed or that used up its attempts, whatever
\* crashes, lapses, holds and late uploads come between (claim, retry).
THEOREM FrozenStaysInHand == Spec => []FrozenIsInHand
<1>1. Init => InHand
  BY BoundAssumption DEF Init, InHand, FrozenIsInHand, Open
<1>2. InHand => FrozenIsInHand BY DEF InHand
<1>3. IInv => Shapes BY DEF IInv
<1>4. Spec => []InHand
  BY <1>1, <1>3, Invariance, InHandStep, PTL DEF Spec
<1> QED BY <1>2, <1>4, PTL
=============================================================================
