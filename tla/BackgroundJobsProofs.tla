------------------------- MODULE BackgroundJobsProofs -------------------------
(***************************************************************************)
(* Machine-checked facts about the two job tables that are worked off in   *)
(* the background: BenchmarkJobs and LibraryBuild.                        *)
(*                                                                         *)
(* BenchmarkJobs, for any number of jobs, notes and attempts and any       *)
(* capacity.  A step of the lane writes a row it read before an await; the *)
(* invariant says what about that row is still so (LaneSound), and the     *)
(* rest follows one row at a time.                                         *)
(*                                                                         *)
(* LibraryBuild, for any workers, acquisitions and assets, any search and  *)
(* any budget.  BuildInv says what the row, a worker and an acquisition    *)
(* may count on while the others go on.  Follows holds of acquisitions     *)
(* that never stopped half way: one worker is at work and only its         *)
(* acquisition, which has every asset it asked the analysis of.            *)
(***************************************************************************)
EXTENDS BenchmarkJobs, LibraryBuild, FiniteSetTheorems, TLAPS

\* A row that has not been published names no files.
RowsSound ==
    \A j \in Jobs :
        /\ job[j].status \in Live \cup Retryable => job[j].artifacts = 0 /\ job[j].swept = FALSE
        /\ job[j].status = "none" => job[j].attempt = 1

\* While the lane has a job no call gives it another attempt, and the files
\* of a worker that has ended stay.
LaneSound ==
    /\ lane.pc \in {"idle", "dead"} => lane.job = 0 /\ child = "none"
    /\ lane.pc \notin {"idle", "dead"} =>
          /\ job[lane.job].attempt = lane.attempt
          /\ job[lane.job].status \in {"collecting", "analyzing"} \cup Retryable
          /\ child = "worked" => lane.attempt \in files[lane.job]
    /\ service = "down" => lane.pc = "idle"

IInv == TypeOK /\ RowsSound /\ LaneSound /\ SpentOnce /\ PublishedHasFiles

\* No row goes back to an earlier attempt.
Forward == \A j \in Jobs : job'[j].status = "gone" \/ job'[j].attempt >= job[j].attempt

-----------------------------------------------------------------------------
\* What is active after a step was so before it, on the same note: the queue
\* has grown no fuller.
LEMMA FewerLive ==
  ASSUME SpentOnce,
         \A j \in Jobs : Active(j)' => Active(j) /\ job'[j].note = job[j].note
  PROVE  SpentOnce'
<1>1. LiveJobs' \subseteq LiveJobs
  BY DEF LiveJobs, Active
<1>2. \A i, j \in LiveJobs' : job'[i].note = job'[j].note => i = j
  BY <1>1 DEF LiveJobs, SpentOnce
<1>3. IsFiniteSet(Jobs)
  BY FS_Interval, BenchmarkAssumption DEF Jobs
<1>4. IsFiniteSet(LiveJobs) /\ LiveJobs \in SUBSET Jobs
  BY <1>3, FS_Subset DEF LiveJobs
<1>5. Cardinality(LiveJobs') <= Cardinality(LiveJobs) /\ IsFiniteSet(LiveJobs')
  BY <1>1, <1>4, FS_Subset
<1>6. Cardinality(LiveJobs') \in Nat /\ Cardinality(LiveJobs) \in Nat
  BY <1>4, <1>5, FS_CardinalityType
<1>7. Cardinality(LiveJobs') <= Capacity
  BY <1>5, <1>6, BenchmarkAssumption DEF SpentOnce
<1> QED
  BY <1>2, <1>7 DEF SpentOnce

\* One more job becomes active, on a note nobody works on, with room left.
LEMMA OneMoreLive ==
  ASSUME SpentOnce, NEW j \in Jobs,
         Cardinality(LiveJobs) < Capacity,
         \A i \in LiveJobs : job[i].note # job'[j].note,
         \A i \in Jobs \ {j} : job'[i] = job[i]
  PROVE  SpentOnce'
<1>1. LiveJobs' \subseteq LiveJobs \cup {j}
  BY DEF LiveJobs, Active
<1>2. \A i, k \in LiveJobs' : job'[i].note = job'[k].note => i = k
  <2> SUFFICES ASSUME NEW i \in LiveJobs', NEW k \in LiveJobs',
                      job'[i].note = job'[k].note, i # k
               PROVE  FALSE
    OBVIOUS
  <2>1. i \in Jobs /\ k \in Jobs
    BY DEF LiveJobs
  <2>2. CASE i = j
    <3>1. k \in LiveJobs /\ job'[k].note = job[k].note
      BY <1>1, <2>1, <2>2
    <3> QED
      BY <3>1, <2>2
  <2>3. CASE k = j
    <3>1. i \in LiveJobs /\ job'[i].note = job[i].note
      BY <1>1, <2>1, <2>3
    <3> QED
      BY <3>1, <2>3
  <2>4. CASE i # j /\ k # j
    BY <1>1, <2>1, <2>4 DEF SpentOnce
  <2> QED
    BY <2>2, <2>3, <2>4
<1>3. IsFiniteSet(Jobs)
  BY FS_Interval, BenchmarkAssumption DEF Jobs
<1>4. IsFiniteSet(LiveJobs)
  BY <1>3, FS_Subset DEF LiveJobs
<1>5. /\ IsFiniteSet(LiveJobs \cup {j})
      /\ Cardinality(LiveJobs \cup {j}) <= Cardinality(LiveJobs) + 1
  BY <1>4, FS_AddElement, FS_CardinalityType
<1>6. Cardinality(LiveJobs') <= Cardinality(LiveJobs \cup {j}) /\ IsFiniteSet(LiveJobs')
  BY <1>1, <1>5, FS_Subset
<1>7. Cardinality(LiveJobs') \in Nat /\ Cardinality(LiveJobs \cup {j}) \in Nat
      /\ Cardinality(LiveJobs) \in Nat
  BY <1>4, <1>5, <1>6, FS_CardinalityType
<1>8. Cardinality(LiveJobs') <= Capacity
  BY <1>5, <1>6, <1>7, BenchmarkAssumption
<1> QED
  BY <1>2, <1>8 DEF SpentOnce

-----------------------------------------------------------------------------
\* What the lane may leave as the row of its job when it is done with it.
Result(row) ==
    /\ row \in Row
    /\ row.note = job[lane.job].note
    /\ row.attempt = lane.attempt
    /\ \/ row = job[lane.job]
       \/ row.status = "failed" /\ row.artifacts = 0 /\ row.swept = FALSE
       \/ /\ row.status \in Published
          /\ row.artifacts = lane.attempt
          /\ row.swept = FALSE
          /\ lane.attempt \in files[lane.job]

\* A downgraded row is a result as well.
LEMMA DowngradedIsResult ==
  ASSUME IInv, lane.pc \notin {"idle", "dead"}, NEW row, Result(row)
  PROVE  /\ Result(Downgraded(row))
         /\ row.status \notin Published => Downgraded(row) = row
<1>1. CASE row.status \in Published
  <2>1. row \in Row
    BY DEF Result
  <2>2. [row EXCEPT !.status = "partial"] \in Row
    BY <2>1 DEF Row, Published
  <2>3. row # job[lane.job]
    BY <1>1 DEF IInv, LaneSound, Published, Retryable
  <2> QED
    BY <1>1, <2>1, <2>2, <2>3 DEF Result, Downgraded, Row, Published
<1>2. CASE row.status \notin Published
  BY <1>2 DEF Downgraded
<1> QED
  BY <1>1, <1>2

\* The row of the lane's job and its files after the end of an execution.
LEMMA FinishMeans ==
  ASSUME IInv, lane.pc \notin {"idle", "dead"}, NEW row, Result(row), Finish(row)
  PROVE  \E r : /\ Result(r)
                /\ job' = [job EXCEPT ![lane.job] = r]
                /\ files' \in [Jobs -> SUBSET Attempts]
                /\ \A j \in Jobs : j # lane.job => files'[j] = files[j]
                /\ r.status \notin Retryable => files'[lane.job] = files[lane.job]
                /\ faults' \in 0 .. MaxFaults
                /\ lane' = IdleLane /\ child' = "none" /\ service' = service
<1> DEFINE S == IF row.status \in Retryable THEN files[lane.job] \ {lane.attempt}
                ELSE files[lane.job]
<1>0. lane.job \in Jobs /\ files \in [Jobs -> SUBSET Attempts] /\ faults \in 0 .. MaxFaults
  BY DEF IInv, TypeOK
<1>1. CASE job' = [job EXCEPT ![lane.job] = row] /\ files' = Cleaned(row) /\ UNCHANGED faults
  <2>1. files' = [files EXCEPT ![lane.job] = S]
    BY <1>1 DEF Cleaned
  <2>2. S \in SUBSET Attempts
    BY <1>0
  <2>3. files' \in [Jobs -> SUBSET Attempts]
    BY <1>0, <2>1, <2>2
  <2>4. \A j \in Jobs : j # lane.job => files'[j] = files[j]
    BY <1>0, <2>1
  <2>5. row.status \notin Retryable => files'[lane.job] = files[lane.job]
    BY <1>0, <2>1
  <2> QED
    BY <1>0, <1>1, <2>3, <2>4, <2>5 DEF Finish
<1>2. CASE job' = [job EXCEPT ![lane.job] = Downgraded(row)] /\ Fault /\ UNCHANGED files
  <2>1. faults' \in 0 .. MaxFaults
    BY <1>0, <1>2, BenchmarkAssumption DEF Fault
  <2> QED
    BY <1>0, <1>2, <2>1, DowngradedIsResult DEF Finish
<1> QED
  BY <1>1, <1>2 DEF Finish

LEMMA FinishKeeps ==
  ASSUME IInv, lane.pc \notin {"idle", "dead"}, NEW row, Result(row), Finish(row)
  PROVE  IInv' /\ Forward
<1>1. PICK r : /\ Result(r)
               /\ job' = [job EXCEPT ![lane.job] = r]
               /\ files' \in [Jobs -> SUBSET Attempts]
               /\ \A j \in Jobs : j # lane.job => files'[j] = files[j]
               /\ r.status \notin Retryable => files'[lane.job] = files[lane.job]
               /\ faults' \in 0 .. MaxFaults
               /\ lane' = IdleLane /\ child' = "none" /\ service' = service
  BY FinishMeans
<1>2. lane.job \in Jobs /\ lane.attempt \in Attempts /\ job \in [Jobs -> Row]
  BY DEF IInv, TypeOK
<1>3. r \in Row /\ job'[lane.job] = r /\ \A j \in Jobs : j # lane.job => job'[j] = job[j]
  BY <1>1, <1>2 DEF Result
<1>4. TypeOK'
  <2>1. job' \in [Jobs -> Row]
    BY <1>1, <1>2, <1>3
  <2>2. lane' \in [pc : Places, job : 0 .. MaxJobs, attempt : 0 .. MaxAttempts]
    BY <1>1, BenchmarkAssumption DEF IdleLane, Places
  <2>3. lane'.pc = "idle"
    BY <1>1 DEF IdleLane
  <2> QED
    BY <1>1, <2>1, <2>2, <2>3 DEF IInv, TypeOK
<1>5. RowsSound'
  BY <1>1, <1>2, <1>3 DEF IInv, RowsSound, Result, Live, Retryable, Published
<1>6. LaneSound'
  BY <1>1 DEF LaneSound, IdleLane
<1>7. SpentOnce'
  <2>1. r.status \in Live => r = job[lane.job]
    BY <1>1 DEF Result, Live, Published
  <2>2. \A j \in Jobs : Active(j)' => Active(j) /\ job'[j].note = job[j].note
    BY <1>3, <2>1 DEF Active
  <2> QED
    BY <2>2, FewerLive DEF IInv
<1>8. PublishedHasFiles'
  <2>1. r.status \in Published => /\ r.artifacts = r.attempt
                                  /\ r.attempt \in files'[lane.job]
    BY <1>1, <1>2 DEF Result, IInv, LaneSound, Published, Retryable
  <2> QED
    BY <1>1, <1>3, <2>1 DEF IInv, PublishedHasFiles
<1>9. Forward
  <2>1. r.attempt = job[lane.job].attempt
    BY <1>1 DEF Result, IInv, LaneSound
  <2>2. \A j \in Jobs : job'[j].attempt = job[j].attempt /\ job[j].attempt \in Nat
    BY <1>2, <1>3, <2>1, BenchmarkAssumption DEF Row, Attempts
  <2> QED
    BY <2>2 DEF Forward
<1> QED
  BY <1>4, <1>5, <1>6, <1>7, <1>8, <1>9 DEF IInv

-----------------------------------------------------------------------------
\* The rows with which the lane ends an execution are results.
LEMMA LaneRowType ==
  ASSUME IInv, lane.pc \notin {"idle", "dead"}, NEW status \in Live \cup Retryable
  PROVE  /\ LaneRow(status) \in Row
         /\ LaneRow(status).status = status
         /\ LaneRow(status).note = job[lane.job].note
         /\ LaneRow(status).attempt = lane.attempt
         /\ LaneRow(status).artifacts = 0
         /\ LaneRow(status).swept = FALSE
<1>1. job[lane.job] \in Row /\ lane.attempt \in Attempts /\ lane.job \in Jobs
  BY DEF IInv, TypeOK
<1>2. job[lane.job].artifacts = 0 /\ job[lane.job].swept = FALSE
  BY <1>1 DEF IInv, LaneSound, RowsSound, Live
<1> QED
  BY <1>1, <1>2 DEF LaneRow, Row

LEMMA FailureIsResult ==
  ASSUME IInv, lane.pc \notin {"idle", "dead"}
  PROVE  Result(FailIfActive) /\ Result(job[lane.job])
<1>1. job[lane.job] \in Row /\ job[lane.job].attempt = lane.attempt
  BY DEF IInv, TypeOK, LaneSound
<1>2. "failed" \in Live \cup Retryable
  BY DEF Retryable
<1> QED
  BY <1>1, <1>2, LaneRowType DEF Result, FailIfActive

LEMMA ReportIsResult ==
  ASSUME IInv, lane.pc \notin {"idle", "dead"}, child = "worked", NEW status \in Published
  PROVE  Result([LaneRow(status) EXCEPT !.artifacts = lane.attempt])
<1> DEFINE r == [LaneRow(status) EXCEPT !.artifacts = lane.attempt]
<1>1. job[lane.job] \in Row /\ lane.attempt \in Attempts /\ lane.job \in Jobs
  BY DEF IInv, TypeOK
<1>2. job[lane.job].artifacts = 0 /\ job[lane.job].swept = FALSE
  BY <1>1 DEF IInv, LaneSound, RowsSound, Live
<1>3. lane.attempt \in 0 .. MaxAttempts
  BY <1>1, BenchmarkAssumption DEF Attempts
<1>4. LaneRow(status) \in Row
  BY <1>1 DEF LaneRow, Row
<1>5. r \in Row
  BY <1>3, <1>4 DEF Row
<1>6. /\ r.note = job[lane.job].note /\ r.attempt = lane.attempt
      /\ r.status = status /\ r.artifacts = lane.attempt /\ r.swept = FALSE
  BY <1>1, <1>2 DEF LaneRow, Row
<1>7. lane.attempt \in files[lane.job]
  BY DEF IInv, LaneSound
<1> QED
  BY <1>5, <1>6, <1>7 DEF Result

\* A step that touches neither rows nor files disturbs at most what is known
\* of the lane.
LEMMA QuietKeeps ==
  ASSUME IInv, job' = job, files' = files, TypeOK', LaneSound'
  PROVE  IInv' /\ Forward
<1>1. RowsSound' /\ PublishedHasFiles'
  BY DEF IInv, RowsSound, PublishedHasFiles
<1>2. SpentOnce'
  BY FewerLive DEF IInv, Active
<1>3. Forward
  <2>1. \A j \in Jobs : job[j].attempt \in Nat
    BY BenchmarkAssumption DEF IInv, TypeOK, Row, Attempts
  <2> QED
    BY <2>1 DEF Forward
<1> QED
  BY <1>1, <1>2, <1>3 DEF IInv

\* A step that changes only the status of one row, to another status without
\* files, and not to an active one unless it was active.
LEMMA StatusKeeps ==
  ASSUME IInv, NEW j \in Jobs, NEW status \in Live \cup Retryable,
         job[j].status \in Live,
         job' = [job EXCEPT ![j] = Ended(@, status)],
         files' = files, TypeOK', LaneSound'
  PROVE  IInv' /\ Forward
<1>1. job \in [Jobs -> Row]
  BY DEF IInv, TypeOK
<1>2. /\ job'[j].status = status /\ job'[j].note = job[j].note
      /\ job'[j].attempt = job[j].attempt
      /\ job'[j].artifacts = job[j].artifacts /\ job'[j].swept = job[j].swept
  BY <1>1 DEF Ended, Row
<1>3. \A i \in Jobs : i # j => job'[i] = job[i]
  BY <1>1
<1>4. RowsSound'
  BY <1>2, <1>3 DEF IInv, RowsSound, Live, Retryable
<1>5. PublishedHasFiles'
  BY <1>2, <1>3 DEF IInv, PublishedHasFiles, Live, Retryable, Published
<1>6. SpentOnce'
  <2>1. \A i \in Jobs : Active(i)' => Active(i) /\ job'[i].note = job[i].note
    BY <1>2, <1>3 DEF Active
  <2> QED
    BY <2>1, FewerLive DEF IInv
<1>7. Forward
  <2>1. \A i \in Jobs : job'[i].attempt = job[i].attempt /\ job[i].attempt \in Nat
    BY <1>1, <1>2, <1>3, BenchmarkAssumption DEF Row, Attempts
  <2> QED
    BY <2>1 DEF Forward
<1> QED
  BY <1>4, <1>5, <1>6, <1>7 DEF IInv

LEMMA EndedType ==
  ASSUME NEW row \in Row, NEW status \in Live \cup Retryable
  PROVE  Ended(row, status) \in Row
BY DEF Ended, Row

-----------------------------------------------------------------------------
(* One lemma for each kind of step.                                        *)

LEMMA CreateKeeps ==
  ASSUME IInv, NEW note \in Notes, NEW j \in Jobs, Create(note, j)
  PROVE  IInv' /\ Forward
<1> DEFINE row == [NoRow EXCEPT !.status = "pending", !.note = note]
<1>1. job \in [Jobs -> Row] /\ job[j].status = "none" /\ job' = [job EXCEPT ![j] = row]
  BY DEF IInv, TypeOK, Create
<1>2. row \in Row
  <2>1. 1 \in Attempts /\ 0 \in 0 .. MaxAttempts
    BY BenchmarkAssumption DEF Attempts
  <2> QED
    BY <2>1 DEF NoRow, Row, Live
<1>3. /\ row.status = "pending" /\ row.note = note /\ row.attempt = 1
      /\ row.artifacts = 0 /\ row.swept = FALSE
  BY DEF NoRow
<1> HIDE DEF row
<1>4. job'[j] = row /\ \A i \in Jobs \ {j} : job'[i] = job[i]
  BY <1>1
<1>5. job' \in [Jobs -> Row]
  BY <1>1, <1>2
<1>6. TypeOK'
  BY <1>5 DEF IInv, TypeOK, Create
<1>7. RowsSound' /\ PublishedHasFiles'
  <2>1. files' = files /\ RowsSound /\ PublishedHasFiles
    BY DEF IInv, Create
  <2>2. RowsSound'
    BY <1>3, <1>4, <2>1 DEF RowsSound
  <2>3. row.status \notin Published
    BY <1>3 DEF Published
  <2>4. PublishedHasFiles'
    BY <1>4, <2>1, <2>3 DEF PublishedHasFiles
  <2> QED
    BY <2>2, <2>4
<1>8. SpentOnce'
  BY <1>3, <1>4, OneMoreLive DEF IInv, Create
<1>9. LaneSound'
  <2>1. lane.job \in Jobs => lane.pc \notin {"idle", "dead"}
    BY BenchmarkAssumption DEF IInv, LaneSound, Jobs
  <2>2. lane.pc \notin {"idle", "dead"} => lane.job \in Jobs /\ lane.job # j
    BY <1>1 DEF IInv, TypeOK, LaneSound, Retryable
  <2> QED
    BY <1>4, <2>2 DEF IInv, LaneSound, Create
<1>10. Forward
  <2>1. \A i \in Jobs : job[i].attempt \in Nat
    BY <1>1, BenchmarkAssumption DEF Row, Attempts
  <2>2. job[j].attempt = 1
    BY <1>1 DEF IInv, RowsSound
  <2>3. \A i \in Jobs : job'[i].attempt = job[i].attempt
    BY <1>3, <1>4, <2>2
  <2> QED
    BY <2>1, <2>3 DEF Forward
<1> QED
  BY <1>6, <1>7, <1>8, <1>9, <1>10 DEF IInv

LEMMA CancelKeeps ==
  ASSUME IInv, NEW j \in Jobs, Cancel(j)
  PROVE  IInv' /\ Forward
<1>1. job[j].status \in Live /\ job' = [job EXCEPT ![j] = Ended(@, "cancelled")] /\ files' = files
  BY DEF Cancel, Active
<1>2. job \in [Jobs -> Row] /\ "cancelled" \in Live \cup Retryable
  BY DEF IInv, TypeOK, Retryable
<1>3. job' \in [Jobs -> Row]
  BY <1>1, <1>2, EndedType
<1>4. child' \in {child, "killed"} /\ (child' = "worked" => child = "worked")
      /\ (child = "none" => child' = "none")
  BY DEF Cancel, Killed
<1>5. TypeOK'
  BY <1>3, <1>4 DEF IInv, TypeOK, Cancel
<1>6. LaneSound'
  <2>1. job'[j].status = "cancelled" /\ job'[j].attempt = job[j].attempt
    BY <1>1, <1>2 DEF Ended, Row
  <2>2. \A i \in Jobs : i # j => job'[i] = job[i]
    BY <1>1, <1>2
  <2>3. lane.pc \notin {"idle", "dead"} => lane.job \in Jobs
    BY DEF IInv, TypeOK
  <2> QED
    BY <1>1, <1>4, <2>1, <2>2, <2>3 DEF IInv, LaneSound, Cancel, Retryable
<1> QED
  BY <1>1, <1>2, <1>5, <1>6, StatusKeeps

LEMMA RetryKeeps ==
  ASSUME IInv, NEW j \in Jobs, Retry(j)
  PROVE  IInv' /\ Forward
<1>1. /\ job \in [Jobs -> Row] /\ job[j].status \in Retryable
      /\ job[j].attempt < MaxAttempts /\ lane.job # j
      /\ job' = [job EXCEPT ![j].status = "pending", ![j].attempt = @ + 1,
                            ![j].artifacts = 0, ![j].swept = FALSE]
  BY DEF IInv, TypeOK, Retry
<1>2. job[j].attempt \in Nat /\ job[j].attempt + 1 \in Attempts /\ 0 \in 0 .. MaxAttempts
  BY <1>1, BenchmarkAssumption DEF Row, Attempts
<1>3. job'[j] \in Row
  BY <1>1, <1>2 DEF Row, Live
<1>4. /\ job'[j].status = "pending" /\ job'[j].note = job[j].note
      /\ job'[j].attempt = job[j].attempt + 1
      /\ job'[j].artifacts = 0 /\ job'[j].swept = FALSE
  BY <1>1 DEF Row
<1>5. \A i \in Jobs \ {j} : job'[i] = job[i]
  BY <1>1
<1>6. job' \in [Jobs -> Row]
  BY <1>1, <1>3, <1>5
<1>7. TypeOK'
  BY <1>6 DEF IInv, TypeOK, Retry
<1>8. RowsSound' /\ PublishedHasFiles'
  <2>1. files' = files /\ RowsSound /\ PublishedHasFiles
    BY DEF IInv, Retry
  <2>2. RowsSound'
    BY <1>4, <1>5, <2>1 DEF RowsSound
  <2>3. job'[j].status \notin Published
    BY <1>4 DEF Published
  <2>4. PublishedHasFiles'
    BY <1>5, <2>1, <2>3 DEF PublishedHasFiles
  <2> QED
    BY <2>2, <2>4
<1>9. SpentOnce'
  BY <1>4, <1>5, OneMoreLive DEF IInv, Retry
<1>10. LaneSound'
  <2>1. lane.pc \notin {"idle", "dead"} => lane.job \in Jobs
    BY DEF IInv, TypeOK
  <2> QED
    BY <1>1, <1>5, <2>1 DEF IInv, LaneSound, Retry
<1>11. Forward
  <2>1. \A i \in Jobs : job[i].attempt \in Nat
    BY <1>1, BenchmarkAssumption DEF Row, Attempts
  <2>2. \A i \in Jobs : job'[i].attempt >= job[i].attempt
    BY <1>4, <1>5, <2>1
  <2> QED
    BY <2>2 DEF Forward
<1> QED
  BY <1>7, <1>8, <1>9, <1>10, <1>11 DEF IInv

\* Steps at the end of an execution.
LEMMA EndsKeep ==
  ASSUME IInv,
         \/ Drained \/ AcquireFailed \/ Unusable \/ NotSpawned
         \/ Report \/ Abandon \/ Rejected \/ Publish
  PROVE  IInv' /\ Forward
<1>1. lane.pc \notin {"idle", "dead"}
  BY DEF Drained, AcquireFailed, Unusable, NotSpawned, Report, Abandon, Rejected, Publish
<1>2. CASE Publish
  <2>1. PICK status \in Published : Finish([LaneRow(status) EXCEPT !.artifacts = lane.attempt])
    BY <1>2 DEF Publish
  <2>2. Result([LaneRow(status) EXCEPT !.artifacts = lane.attempt])
    BY <1>1, <1>2, ReportIsResult DEF Publish
  <2> QED
    BY <1>1, <2>1, <2>2, FinishKeeps
<1>3. CASE ~Publish
  <2>1. Finish(FailIfActive) \/ Finish(job[lane.job])
    BY <1>3 DEF Drained, AcquireFailed, Unusable, NotSpawned, Report, Abandon, Rejected
  <2> QED
    BY <1>1, <2>1, FailureIsResult, FinishKeeps
<1> QED
  BY <1>2, <1>3

\* Steps of the lane and its children that write no row.
LEMMA QuietSteps ==
  ASSUME IInv,
         AcquireOverBudget \/ Acquired \/ Spawned \/ Overrun \/ Exited \/ Fetch
  PROVE  IInv' /\ Forward
<1>1. job' = job /\ files' = files /\ service' = service /\ faults' = faults
  BY DEF AcquireOverBudget, Acquired, Spawned, Overrun, Exited, Fetch
<1>2. lane.pc \notin {"idle", "dead"} \/ (Fetch /\ lane' = lane)
  BY DEF AcquireOverBudget, Acquired, Spawned, Overrun, Exited, Fetch
<1>3. /\ child' = "worked" => child = "worked"
      /\ child' \in {"none", "fetching", "fetched", "failed", "working", "worked", "broken", "killed"}
  BY DEF IInv, TypeOK, AcquireOverBudget, Acquired, Spawned, Overrun, Exited, Fetch, Killed
<1>4. \/ lane' = lane
      \/ \E pc \in {"drain", "acquired", "watch", "report", "verify"} : lane' = [lane EXCEPT !.pc = pc]
  BY DEF AcquireOverBudget, Acquired, Spawned, Overrun, Exited, Fetch
<1>5. /\ lane'.job = lane.job /\ lane'.attempt = lane.attempt
      /\ lane' \in [pc : Places, job : 0 .. MaxJobs, attempt : 0 .. MaxAttempts]
      /\ lane'.pc = lane.pc \/ lane'.pc \notin {"idle", "dead"}
  BY <1>4 DEF IInv, TypeOK, Places
<1>6. Fetch => lane.pc \notin {"idle", "dead"}
  BY DEF Fetch, IInv, LaneSound
<1>7. TypeOK'
  BY <1>1, <1>2, <1>3, <1>5, <1>6 DEF IInv, TypeOK
<1>8. LaneSound'
  <2>1. lane'.pc \notin {"idle", "dead"}
    BY <1>2, <1>5, <1>6
  <2>2. service # "down"
    BY <1>2, <1>6 DEF IInv, LaneSound
  <2> QED
    BY <1>1, <1>2, <1>3, <1>5, <1>6, <2>1, <2>2 DEF IInv, LaneSound
<1> QED
  BY <1>1, <1>7, <1>8, QuietKeeps

\* Steps of the lane that give its row another status.
LEMMA PickKeeps ==
  ASSUME IInv, NEW j \in Jobs, Pick(j)
  PROVE  IInv' /\ Forward
<1>1. job \in [Jobs -> Row] /\ job[j].status = "pending" /\ lane.pc = "idle" /\ files' = files
  BY DEF IInv, TypeOK, Pick
<1>2. CASE job' = [job EXCEPT ![j] = Ended(@, "failed")] /\ UNCHANGED <<lane, child>>
  <2>1. job' \in [Jobs -> Row]
    BY <1>1, <1>2, EndedType DEF Retryable
  <2>2. TypeOK'
    BY <1>2, <2>1 DEF IInv, TypeOK, Pick
  <2>3. LaneSound'
    BY <1>1, <1>2 DEF IInv, LaneSound, Pick
  <2> QED
    BY <1>1, <1>2, <2>2, <2>3, StatusKeeps DEF Live, Retryable
<1>3. CASE /\ job' = [job EXCEPT ![j].status = "collecting"]
           /\ lane' = [pc |-> "acquire", job |-> j, attempt |-> job[j].attempt]
           /\ child' = "fetching"
  <2>1. job' = [job EXCEPT ![j] = Ended(@, "collecting")]
    BY <1>3 DEF Ended
  <2>2. job' \in [Jobs -> Row]
    BY <1>1, <2>1, EndedType DEF Live
  <2>3. job[j].attempt \in Attempts /\ job[j].attempt \in 0 .. MaxAttempts /\ j \in 0 .. MaxJobs
    BY <1>1, BenchmarkAssumption DEF Row, Attempts, Jobs
  <2>4. TypeOK'
    BY <1>3, <2>2, <2>3 DEF IInv, TypeOK, Pick, Places
  <2>5. job'[j].status = "collecting" /\ job'[j].attempt = job[j].attempt
    BY <1>1, <2>1 DEF Ended, Row
  <2>6. LaneSound'
    BY <1>3, <2>5 DEF LaneSound, Pick
  <2> QED
    BY <1>1, <2>1, <2>4, <2>6, StatusKeeps DEF Live
<1> QED
  BY <1>2, <1>3 DEF Pick

LEMMA ProgressKeeps ==
  ASSUME IInv, AcquireTimeout \/ StartAnalysis
  PROVE  IInv' /\ Forward
<1>1. /\ lane.pc \notin {"idle", "dead"} /\ lane.job \in Jobs /\ job \in [Jobs -> Row]
      /\ job[lane.job].attempt = lane.attempt
      /\ files' = files /\ child' = child /\ service' = service /\ faults' = faults
  BY DEF IInv, TypeOK, LaneSound, AcquireTimeout, StartAnalysis
<1>2. \E pc \in {"drain", "spawn"} : lane' = [lane EXCEPT !.pc = pc]
  BY <1>1 DEF AcquireTimeout, StartAnalysis
<1>3. /\ lane'.job = lane.job /\ lane'.attempt = lane.attempt
      /\ lane' \in [pc : Places, job : 0 .. MaxJobs, attempt : 0 .. MaxAttempts]
      /\ lane'.pc \notin {"idle", "dead"}
  BY <1>2 DEF IInv, TypeOK, Places
<1>4. ASSUME job' = job
      PROVE  IInv' /\ Forward
  <2>1. TypeOK'
    BY <1>1, <1>3, <1>4 DEF IInv, TypeOK
  <2>2. LaneSound'
    BY <1>1, <1>3, <1>4 DEF IInv, LaneSound
  <2> QED
    BY <1>1, <1>4, <2>1, <2>2, QuietKeeps
<1>5. ASSUME NEW status \in {"failed", "analyzing"}, Active(lane.job),
             job' = [job EXCEPT ![lane.job] = LaneRow(status)]
      PROVE  IInv' /\ Forward
  <2>1. status \in Live \cup Retryable
    BY DEF Live, Retryable
  <2>2. LaneRow(status) = Ended(job[lane.job], status)
    BY <1>1 DEF LaneRow, Ended, Row
  <2>3. job' = [job EXCEPT ![lane.job] = Ended(@, status)]
    BY <1>5, <2>2
  <2>4. job' \in [Jobs -> Row]
    BY <1>1, <2>1, <2>3, EndedType
  <2>5. TypeOK'
    BY <1>1, <1>3, <2>4 DEF IInv, TypeOK
  <2>6. job'[lane.job].status = status /\ job'[lane.job].attempt = lane.attempt
    BY <1>1, <2>3 DEF Ended, Row
  <2>7. LaneSound'
    BY <1>1, <1>3, <2>6 DEF IInv, LaneSound, Retryable
  <2> QED
    BY <1>1, <1>5, <2>1, <2>3, <2>5, <2>7, StatusKeeps DEF Active
<1>6. CASE AcquireTimeout
  <2>1. job' = [job EXCEPT ![lane.job] = FailIfActive]
    BY <1>6 DEF AcquireTimeout
  <2>2. CASE Active(lane.job)
    BY <1>5, <2>1, <2>2 DEF FailIfActive
  <2>3. CASE ~Active(lane.job)
    <3>1. job' = job
      BY <1>1, <2>1, <2>3 DEF FailIfActive
    <3> QED
      BY <1>4, <3>1
  <2> QED
    BY <2>2, <2>3
<1>7. CASE StartAnalysis
  BY <1>5, <1>7 DEF StartAnalysis
<1> QED
  BY <1>6, <1>7

LEMMA WorkKeeps ==
  ASSUME IInv, Work
  PROVE  IInv' /\ Forward
<1>1. lane.pc \notin {"idle", "dead"} /\ lane.job \in Jobs /\ lane.attempt \in Attempts
  BY DEF Work, IInv, TypeOK, LaneSound
<1>2. files \in [Jobs -> SUBSET Attempts]
  BY DEF IInv, TypeOK
<1>3. /\ files' \in [Jobs -> SUBSET Attempts]
      /\ \A j \in Jobs : files[j] \subseteq files'[j]
      /\ child' = "worked" => lane.attempt \in files'[lane.job]
  BY <1>1, <1>2 DEF Work
<1>4. TypeOK'
  BY <1>3 DEF IInv, TypeOK, Work
<1>5. LaneSound'
  BY <1>1, <1>3 DEF IInv, LaneSound, Work
<1>6. PublishedHasFiles' /\ RowsSound'
  BY <1>3 DEF IInv, PublishedHasFiles, RowsSound, Work
<1>7. SpentOnce'
  BY FewerLive DEF IInv, Work, Active
<1>8. Forward
  <2>1. \A j \in Jobs : job[j].attempt \in Nat
    BY BenchmarkAssumption DEF IInv, TypeOK, Row, Attempts
  <2> QED
    BY <2>1 DEF Forward, Work
<1> QED
  BY <1>4, <1>5, <1>6, <1>7, <1>8 DEF IInv

LEMMA ExpireKeeps ==
  ASSUME IInv, NEW j \in Jobs, Expire(j)
  PROVE  IInv' /\ Forward
<1>1. /\ job \in [Jobs -> Row] /\ job[j].status \in Retryable \cup Published /\ lane.pc = "idle"
      /\ files \in [Jobs -> SUBSET Attempts]
  BY DEF IInv, TypeOK, Expire
<1>2. files' \in [Jobs -> SUBSET Attempts] /\ \A i \in Jobs \ {j} : files'[i] = files[i]
  BY <1>1 DEF Expire
<1>3. \A i \in Jobs \ {j} : job'[i] = job[i]
  BY <1>1 DEF Expire
<1>4. /\ job'[j] \in Row
      /\ \/ job'[j].status = "gone"
         \/ /\ job'[j].status = job[j].status /\ job'[j].attempt = job[j].attempt
            /\ job'[j].artifacts = job[j].artifacts
            /\ job[j].status \in Published => job'[j].swept = TRUE
            /\ job[j].status \in Retryable => job'[j].swept = FALSE
  <2>1. CASE job' = [job EXCEPT ![j] = [NoRow EXCEPT !.status = "gone"]]
    <3>1. 1 \in Attempts /\ 0 \in 0 .. MaxAttempts
      BY BenchmarkAssumption DEF Attempts
    <3> QED
      BY <1>1, <2>1, <3>1 DEF NoRow, Row
  <2>2. CASE job' = [job EXCEPT ![j].swept = (job[j].status \in Published)]
    <3> DEFINE b == job[j].status \in Published
    <3>1. b \in BOOLEAN /\ job' = [job EXCEPT ![j].swept = b]
      BY <2>2
    <3>2. job[j].status \in Retryable => b = FALSE
      BY DEF Retryable, Published
    <3>3. job[j].status \in Published => b = TRUE
      OBVIOUS
    <3> HIDE DEF b
    <3>4. job'[j] \in Row
      BY <1>1, <3>1 DEF Row
    <3>5. /\ job'[j].status = job[j].status /\ job'[j].attempt = job[j].attempt
          /\ job'[j].artifacts = job[j].artifacts /\ job'[j].swept = b
      BY <1>1, <3>1 DEF Row
    <3> QED
      BY <3>2, <3>3, <3>4, <3>5
  <2> QED
    BY <2>1, <2>2 DEF Expire
<1>5. job' \in [Jobs -> Row]
  <2>1. \E r : job' = [job EXCEPT ![j] = r]
    BY DEF Expire
  <2> QED
    BY <1>1, <1>3, <1>4, <2>1
<1>6. faults' \in 0 .. MaxFaults
  BY BenchmarkAssumption DEF IInv, TypeOK, Expire, Fault
<1>7. TypeOK'
  BY <1>2, <1>5, <1>6 DEF IInv, TypeOK, Expire
<1>8. RowsSound'
  <2>1. /\ job'[j].status \in Live \cup Retryable =>
               job'[j].artifacts = 0 /\ job'[j].swept = FALSE
        /\ job'[j].status # "none"
    BY <1>1, <1>4 DEF IInv, RowsSound, Live, Retryable, Published
  <2> QED
    BY <1>3, <2>1 DEF IInv, RowsSound
<1>9. LaneSound'
  BY <1>1 DEF IInv, LaneSound, Expire
<1>10. SpentOnce'
  <2>1. job'[j].status \notin Live
    BY <1>1, <1>4 DEF Live, Retryable, Published
  <2>2. \A i \in Jobs : Active(i)' => Active(i) /\ job'[i].note = job[i].note
    BY <1>3, <2>1 DEF Active
  <2> QED
    BY <2>2, FewerLive DEF IInv
<1>11. PublishedHasFiles'
  BY <1>2, <1>3, <1>4 DEF IInv, PublishedHasFiles, Published
<1>12. Forward
  <2>1. \A i \in Jobs : job[i].attempt \in Nat
    BY <1>1, BenchmarkAssumption DEF Row, Attempts
  <2> QED
    BY <1>3, <1>4, <2>1 DEF Forward
<1> QED
  BY <1>7, <1>8, <1>9, <1>10, <1>11, <1>12 DEF IInv

\* Start and Close interrupt some of the active jobs.
LEMMA InterruptKeeps ==
  ASSUME IInv, NEW S \in SUBSET Jobs,
         job' = [j \in Jobs |-> IF j \in S /\ Active(j) THEN Ended(job[j], "interrupted") ELSE job[j]],
         files' \in [Jobs -> SUBSET Attempts],
         \A j \in Jobs : ~Active(j) => files'[j] = files[j],
         service' \in {"down", "up", "closing"}, faults' \in 0 .. MaxFaults, lane' = lane,
         child' \in {child, "killed"}, child = "none" => child' = "none",
         service' # "down",
         lane.pc \in {"idle", "dead"} \/ files' = files
  PROVE  IInv' /\ Forward
<1>1. job \in [Jobs -> Row]
  BY DEF IInv, TypeOK
<1>2. \A j \in Jobs : /\ job'[j] \in Row
                      /\ job'[j].note = job[j].note /\ job'[j].attempt = job[j].attempt
                      /\ job'[j].artifacts = job[j].artifacts /\ job'[j].swept = job[j].swept
                      /\ \/ job'[j].status = job[j].status
                         \/ job'[j].status = "interrupted" /\ Active(j)
  <2> TAKE j \in Jobs
  <2>1. CASE j \in S /\ Active(j)
    <3>1. job'[j] = Ended(job[j], "interrupted")
      BY <2>1
    <3> QED
      BY <1>1, <2>1, <3>1, EndedType DEF Ended, Row, Retryable
  <2>2. CASE ~(j \in S /\ Active(j))
    <3>1. job'[j] = job[j]
      BY <2>2
    <3> QED
      BY <1>1, <3>1
  <2> QED
    BY <2>1, <2>2
<1>3. job' \in [Jobs -> Row]
  BY <1>2
<1>4. TypeOK'
  BY <1>3 DEF IInv, TypeOK
<1>5. RowsSound'
  BY <1>2 DEF IInv, RowsSound, Active
<1>6. LaneSound'
  <2>1. lane.pc \notin {"idle", "dead"} => lane.job \in Jobs
    BY DEF IInv, TypeOK
  <2> QED
    BY <1>2, <2>1 DEF IInv, LaneSound, Retryable
<1>7. SpentOnce'
  <2>1. \A j \in Jobs : Active(j)' => Active(j) /\ job'[j].note = job[j].note
    BY <1>2 DEF Active, Live
  <2> QED
    BY <2>1, FewerLive DEF IInv
<1>8. PublishedHasFiles'
  <2> SUFFICES ASSUME NEW j \in Jobs, job'[j].status \in Published, ~job'[j].swept
               PROVE  /\ job'[j].artifacts = job'[j].attempt
                      /\ job'[j].artifacts \in files'[j]
    BY DEF PublishedHasFiles
  <2>1. job[j].status \in Published /\ ~job[j].swept
    BY <1>2 DEF Published
  <2>2. files'[j] = files[j]
    BY <2>1 DEF Active, Live, Published
  <2> QED
    BY <1>2, <2>1, <2>2 DEF IInv, PublishedHasFiles
<1>9. Forward
  <2>1. \A j \in Jobs : job[j].attempt \in Nat
    BY <1>1, BenchmarkAssumption DEF Row, Attempts
  <2> QED
    BY <1>2, <2>1 DEF Forward
<1> QED
  BY <1>4, <1>5, <1>6, <1>7, <1>8, <1>9 DEF IInv

LEMMA StartKeeps ==
  ASSUME IInv, Start
  PROVE  IInv' /\ Forward
<1>1. job' = [j \in Jobs |-> IF j \in Jobs /\ Active(j) THEN Ended(job[j], "interrupted") ELSE job[j]]
  BY DEF Start
<1>2. files \in [Jobs -> SUBSET Attempts] /\ faults \in 0 .. MaxFaults
  BY DEF IInv, TypeOK
<1>3. files' \in [Jobs -> SUBSET Attempts] /\ \A j \in Jobs : ~Active(j) => files'[j] = files[j]
  BY <1>2 DEF Start
<1>4. /\ service' = "up" /\ lane' = lane /\ child' = child /\ faults' = faults
      /\ lane.pc = "idle"
  BY DEF Start, IInv, LaneSound
<1> QED
  BY <1>1, <1>2, <1>3, <1>4, InterruptKeeps

LEMMA CloseKeeps ==
  ASSUME IInv, Close
  PROVE  IInv' /\ Forward
<1>1. job' = [j \in Jobs |-> IF j \in {i \in Jobs : i = lane.job} /\ Active(j)
                             THEN Ended(job[j], "interrupted") ELSE job[j]]
  BY DEF Close
<1>2. files' = files /\ files' \in [Jobs -> SUBSET Attempts]
  BY DEF Close, IInv, TypeOK
<1>3. service' = "closing" /\ lane' = lane /\ faults' \in 0 .. MaxFaults
  BY BenchmarkAssumption DEF Close, Fault, IInv, TypeOK
<1>4. child' \in {child, "killed"} /\ (child = "none" => child' = "none")
  BY DEF Close, Killed
<1> QED
  BY <1>1, <1>2, <1>3, <1>4, InterruptKeeps

\* Steps after which the lane has no job.
LEMMA LaneLostKeeps ==
  ASSUME IInv, Closed \/ Crash \/ LaneDies
  PROVE  IInv' /\ Forward
<1>1. job' = job /\ files' = files
  BY DEF Closed, Crash, LaneDies
<1>2. faults' \in 0 .. MaxFaults
  BY BenchmarkAssumption DEF Closed, Crash, LaneDies, Fault, IInv, TypeOK
<1>3. child' = "none"
  BY DEF Closed, Crash, LaneDies, IInv, LaneSound
<1>4. \E pc \in {"idle", "dead"} : lane' = [pc |-> pc, job |-> 0, attempt |-> 0]
  BY DEF Closed, Crash, LaneDies, IdleLane
<1>5. /\ lane' \in [pc : Places, job : 0 .. MaxJobs, attempt : 0 .. MaxAttempts]
      /\ lane'.job = 0 /\ lane'.pc \in {"idle", "dead"}
  BY <1>4, BenchmarkAssumption DEF Places
<1>6. service' \in {"down", "up", "closing"} /\ (service' = "down" => lane'.pc = "idle")
  BY DEF Closed, Crash, LaneDies, IdleLane, IInv, TypeOK, LaneSound
<1>7. TypeOK'
  BY <1>1, <1>2, <1>3, <1>5, <1>6 DEF IInv, TypeOK
<1>8. LaneSound'
  BY <1>3, <1>5, <1>6 DEF LaneSound
<1> QED
  BY <1>1, <1>7, <1>8, QuietKeeps

-----------------------------------------------------------------------------
LEMMA Initially == Init => IInv
<1> SUFFICES ASSUME Init PROVE IInv
  OBVIOUS
<1>1. 1 \in Attempts /\ 0 \in 0 .. MaxAttempts /\ 0 \in 0 .. MaxJobs /\ 0 \in 0 .. MaxFaults
  BY BenchmarkAssumption DEF Attempts
<1>2. NoRow \in Row
  BY <1>1 DEF NoRow, Row
<1>3. \A j \in Jobs : job[j] = NoRow
  BY DEF Init
<1>4. TypeOK
  BY <1>1, <1>2 DEF Init, TypeOK, IdleLane, Places
<1>5. RowsSound /\ PublishedHasFiles
  BY <1>3 DEF RowsSound, PublishedHasFiles, NoRow, Live, Retryable, Published
<1>6. LaneSound
  BY DEF Init, LaneSound, IdleLane
<1>7. SpentOnce
  <2>1. LiveJobs = {}
    BY <1>3 DEF LiveJobs, Active, NoRow, Live
  <2> QED
    BY <2>1, FS_EmptySet, BenchmarkAssumption DEF SpentOnce
<1> QED
  BY <1>4, <1>5, <1>6, <1>7 DEF IInv

LEMMA StepKeeps ==
  ASSUME IInv, [Next]_vars
  PROVE  IInv' /\ Forward
<1>1. CASE Clients
  BY <1>1, CreateKeeps, CancelKeeps, RetryKeeps DEF Clients
<1>2. CASE LaneStep
  BY <1>2, PickKeeps, ProgressKeeps, QuietSteps, EndsKeep DEF LaneStep
<1>3. CASE Children
  BY <1>3, QuietSteps, WorkKeeps DEF Children
<1>4. CASE Operator
  BY <1>4, StartKeeps, CloseKeeps, LaneLostKeeps, ExpireKeeps DEF Operator
<1>5. CASE UNCHANGED vars
  BY <1>5, QuietKeeps DEF vars, IInv, TypeOK, LaneSound
<1> QED
  BY <1>1, <1>2, <1>3, <1>4, <1>5 DEF Next

LEMMA Invariance == Spec => []IInv
<1>1. IInv /\ [Next]_vars => IInv'
  BY StepKeeps
<1> QED
  BY Initially, <1>1, PTL DEF Spec

\* The state keeps its type.
THEOREM TypeCorrect == Spec => []TypeOK
<1>1. IInv => TypeOK
  BY DEF IInv
<1> QED
  BY Invariance, <1>1, PTL

\* A note is never analysed by two active jobs and the queue never holds more
\* than its capacity, whatever is clicked, retried or restarted.
THEOREM NoteIsSpentOnce == Spec => []SpentOnce
<1>1. IInv => SpentOnce
  BY DEF IInv
<1> QED
  BY Invariance, <1>1, PTL

\* A published report has the files of its own attempt until the retention
\* takes them.
THEOREM ReportsHaveFiles == Spec => []PublishedHasFiles
<1>1. IInv => PublishedHasFiles
  BY DEF IInv
<1> QED
  BY Invariance, <1>1, PTL

\* The lane never puts back an earlier attempt over a later one.
THEOREM AttemptsGoForward == Spec => OldAttemptIsSilent
<1>1. IInv /\ [Next]_vars => [Forward]_vars
  BY StepKeeps
<1> QED
  BY Invariance, <1>1, PTL DEF Spec, OldAttemptIsSilent, Forward

-----------------------------------------------------------------------------
(* Library builds: the invariant.                                          *)

AssetType ==
  [st : {"none", "processing", "ready", "awaiting_review", "quarantined", "deleted"},
   an : {"none", "pending", "completed", "failed"}, rev : Nat, up : BOOLEAN,
   scanned : BOOLEAN, asked : Nat, sent : BOOLEAN, done : {"no", "over", "lost"}]
Urls == 1 .. Len(Found)
Positions == 1 .. Len(Found) + 1
CallType ==
  [pc : {"free", "scan", "upload", "read", "ask", "retire", "send"}, todo : Positions, rev : Nat,
   got : SUBSET Assets, jobs : SUBSET Assets, errs : BOOLEAN, again : BOOLEAN]
BuildPlaces == {"idle", "load", "mark", "call", "wait", "save", "fail", "inspect", "conclude",
                "settle"}
WorkerType ==
  [pc : BuildPlaces, fresh : BOOLEAN, call : Calls \union {NoCall}, got : SUBSET Assets,
   err : BOOLEAN, waits : BOOLEAN, good : BOOLEAN, act : {"ack", "release"}]
RowType == [st : Statuses, stage : Acquiring \union Following, list : SUBSET Assets,
            err : BOOLEAN]
MsgType == [st : {"none", "ready", "leased", "done"}, by : Workers \union {NoWorker}]

Typed ==
  /\ build \in RowType /\ msg \in MsgType /\ wk \in [Workers -> WorkerType]
  /\ call \in [Calls -> CallType] /\ asset \in [Assets -> AssetType]
  /\ known \subseteq Urls /\ indexed \subseteq Assets

\* The import of a from some URL is remembered.
Known(a) == \E p \in known : Found[p] = a
\* The analysis of a has ended.
Over(a) == asset[a].done = "over"

\* What is enqueued was asked for; an analysis ends only if it was enqueued;
\* a ready asset is indexed; what the API remembers was imported.
AssetOK(a) ==
  /\ asset[a].asked < asset[a].rev \/ asset[a] = NoAsset
  /\ asset[a].sent => asset[a].asked # 0
  /\ asset[a].asked # 0 => asset[a].an # "none"
  /\ asset[a].done # "no" => asset[a].sent
  /\ asset[a].an \in {"completed", "failed"} => Over(a)
  /\ asset[a].st = "ready" => a \in indexed
  /\ Known(a) => asset[a].rev # 0

\* The assets an acquisition has are within the budget, were all asked to be
\* analysed, and are enqueued but for its jobs; one it imports exists.
CallOK(c) ==
  /\ call[c].jobs \subseteq call[c].got /\ IsFiniteSet(call[c].got)
  /\ Cardinality(call[c].got) <= Budget
  /\ call[c].pc \in {"upload", "read", "ask", "retire"} => call[c].todo <= Len(Found)
  /\ call[c].pc \in {"upload", "read", "ask"} => Cardinality(call[c].got) < Budget
  /\ call[c].pc \in {"upload", "read"} => asset[Cand(c)].rev # 0
  /\ call[c].pc = "ask" => call[c].rev # 0
  /\ \A a \in call[c].got : asset[a].asked # 0 /\ (a \notin call[c].jobs => asset[a].sent)

\* What the build follows is enqueued, and analysed once the build completed.
RowOK ==
  /\ IsFiniteSet(build.list) /\ Cardinality(build.list) <= Budget
  /\ \A a \in build.list : asset[a].sent
  /\ build.st \in {"completed", "completed_with_errors"} => \A a \in build.list : Over(a)
  /\ build.st = "completed" => build.list # {} /\ build.list \subseteq indexed

\* What a worker that still holds the row knows of it.
WorkerOK(w) ==
  /\ wk[w].pc # "idle" => build.st # "none"
  /\ wk[w].pc = "save" =>
       /\ IsFiniteSet(wk[w].got) /\ Cardinality(wk[w].got) <= Budget
       /\ \A a \in wk[w].got : asset[a].sent
  /\ wk[w].fresh /\ wk[w].pc \in {"mark", "fail"} => build.st \in {"queued", "running"}
  /\ wk[w].fresh /\ wk[w].pc \in {"call", "wait", "save"} =>
       build.st = "running" /\ build.stage = "transfer"
  /\ wk[w].fresh /\ wk[w].pc = "conclude" =>
       /\ ~wk[w].waits => \A a \in build.list : Over(a)
       /\ wk[w].good => build.list # {} /\ build.list \subseteq indexed

MsgOK == msg.st # "none" => build.st # "none"

BuildInv ==
  /\ Typed /\ RowOK /\ MsgOK
  /\ \A a \in Assets : AssetOK(a)
  /\ \A c \in Calls : CallOK(c)
  /\ \A w \in Workers : WorkerOK(w)

-----------------------------------------------------------------------------
(* Acquisitions that never stopped half way.                               *)

Asked == {a \in Assets : asset[a].asked # 0}
Untouched == Asked = {}

\* Only the worker with the delivery is at work, and only its acquisition.
Alone ==
  /\ \A w \in Workers : ~At(w, "idle") => HoldsMsg(w)
  /\ \A c \in Calls : call[c].pc # "free" =>
       \E w \in Workers : At(w, "wait") /\ wk[w].call = c

\* A worker that has lost the row lost it to the end of the build; until its
\* acquisition starts nothing was asked for, and it saves all that was.
WorkerFollows(w) ==
  /\ wk[w].pc \in {"mark", "call", "wait", "save", "fail", "inspect", "conclude"}
       /\ ~wk[w].fresh => build.st \in EndedStatuses
  /\ wk[w].pc \in {"mark", "call", "wait", "save", "fail"} => build.stage \in Acquiring
  /\ wk[w].pc \in {"mark", "call"} => Untouched
  /\ wk[w].pc = "save" => Asked \subseteq wk[w].got

\* What is asked for is in what the acquisition has.
CallFollows(c) == call[c].pc # "free" => Asked \subseteq call[c].got

\* The row has everything once it is past the acquisition, and is untouched
\* before one.
RowFollows ==
  /\ build.stage \in Following => Asked \subseteq build.list
  /\ build.stage \in Acquiring /\ build.st \notin EndedStatuses
       /\ (\A w \in Workers : wk[w].pc \notin {"wait", "save", "fail"}) => Untouched

Follows ==
  /\ Alone /\ RowFollows
  /\ \A w \in Workers : WorkerFollows(w)
  /\ \A c \in Calls : CallFollows(c)
Uncut == ~cut => Follows

-----------------------------------------------------------------------------
(* What a step may do.                                                     *)

\* What was true of a's analysis stays true.
Kept(a) ==
  /\ asset[a].sent => asset'[a].sent
  /\ asset[a].asked # 0 => asset'[a].asked # 0
  /\ asset[a].rev # 0 => asset'[a].rev # 0
  /\ Over(a) => Over(a)'
AssetMoves(a) ==
  \/ asset'[a] = asset[a] /\ (Known(a)' => Known(a))
  \/ AssetOK(a)' /\ Kept(a)
RowMoves == (build.st # "none" => build'.st # "none") /\ (build' = build \/ RowOK')
CallMoves(c) == call'[c] = call[c] \/ CallOK(c)'
\* The worker stays where it is, and holds the row only if nobody wrote it.
Stays(w) ==
  /\ wk'[w].pc = wk[w].pc /\ wk'[w].got = wk[w].got
  /\ wk'[w].waits = wk[w].waits /\ wk'[w].good = wk[w].good
  /\ wk'[w].fresh => wk[w].fresh /\ build' = build
WorkerMoves(w) == Stays(w) \/ WorkerOK(w)'

LEMMA NextRecord ==
  ASSUME NEW r \in CallType, NEW t \in Positions
  PROVE  LET y == [r EXCEPT !.todo = t, !.pc = "scan", !.rev = 0] IN
         /\ y \in CallType /\ y.pc = "scan" /\ y.todo = t /\ y.got = r.got /\ y.jobs = r.jobs
<1> DEFINE y == [r EXCEPT !.todo = t, !.pc = "scan", !.rev = 0]
<1>1. y.pc = "scan" /\ y.todo = t /\ y.got = r.got /\ y.jobs = r.jobs BY DEF CallType
<1>2. y \in CallType BY DEF CallType
<1> QED BY <1>1, <1>2

LEMMA CandFacts ==
  ASSUME BuildInv, NEW c \in Calls, call[c].todo <= Len(Found)
  PROVE  /\ call[c].todo \in 1 .. Len(Found) /\ Cand(c) \in Assets
         /\ Next1(c) \in CallType /\ Next1(c).pc = "scan"
         /\ Next1(c).todo = call[c].todo + 1
         /\ Next1(c).got = call[c].got /\ Next1(c).jobs = call[c].jobs
<1> DEFINE t == call[c].todo + 1
<1>1. Len(Found) \in Nat /\ call[c] \in CallType /\ Found \in Seq(Assets)
  BY FoundAssumption DEF BuildInv, Typed
<1>2. call[c].todo \in Positions
  BY <1>1 DEF CallType
<1>3. call[c].todo \in 1 .. Len(Found) /\ t \in Positions
  BY <1>1, <1>2 DEF Positions
<1>4. Cand(c) \in Assets
  BY <1>1, <1>3 DEF Cand
<1> DEFINE y == [call[c] EXCEPT !.todo = t, !.pc = "scan", !.rev = 0]
<1>5. Next1(c) = y
  BY DEF Next1
<1>6. t = call[c].todo + 1 /\ t \in Positions
  BY <1>3
<1> HIDE DEF t
<1>7. y \in CallType /\ y.pc = "scan" /\ y.todo = t /\ y.got = call[c].got /\ y.jobs = call[c].jobs
  BY <1>1, <1>6, NextRecord
<1> HIDE DEF y
<1> QED BY <1>3, <1>4, <1>5, <1>6, <1>7

\* A step that moves each part as above keeps the invariant.
LEMMA Preserved ==
  ASSUME BuildInv, Typed', MsgOK', indexed \subseteq indexed', RowMoves,
         \A a \in Assets : AssetMoves(a), \A c \in Calls : CallMoves(c),
         \A w \in Workers : WorkerMoves(w)
  PROVE  BuildInv'
<1>1. /\ \A c \in Calls : call[c].got \subseteq Assets
      /\ \A w \in Workers : wk[w].got \subseteq Assets
      /\ build.list \subseteq Assets
  BY DEF BuildInv, Typed, CallType, WorkerType, RowType
<1>2. \A a \in Assets : AssetOK(a)' /\ Kept(a)
  <2> TAKE a \in Assets
  <2>1. CASE asset'[a] = asset[a] /\ (Known(a)' => Known(a))
    BY <2>1 DEF BuildInv, AssetOK, Kept, Over
  <2> QED BY <2>1 DEF AssetMoves
<1>3. RowOK'
  <2>1. CASE build' = build
    BY <1>1, <1>2, <2>1 DEF BuildInv, RowOK, Kept
  <2> QED BY <2>1 DEF RowMoves
<1>4. \A c \in Calls : CallOK(c)'
  <2> TAKE c \in Calls
  <2>1. CASE call'[c] = call[c]
    <3>1. CallOK(c) /\ Cand(c)' = Cand(c) BY <2>1 DEF BuildInv, Cand
    <3>2. call[c].todo <= Len(Found) => Cand(c) \in Assets BY CandFacts
    <3> QED BY <1>1, <1>2, <2>1, <3>1, <3>2 DEF CallOK, Kept
  <2> QED BY <2>1 DEF CallMoves
<1>5. \A w \in Workers : WorkerOK(w)'
  <2> TAKE w \in Workers
  <2>1. CASE Stays(w)
    <3>1. WorkerOK(w) BY DEF BuildInv
    <3>2. wk'[w].pc = "save" => /\ IsFiniteSet(wk'[w].got) /\ Cardinality(wk'[w].got) <= Budget
                               /\ \A a \in wk'[w].got : asset'[a].sent
      BY <1>1, <1>2, <2>1, <3>1 DEF Stays, WorkerOK, Kept
    <3>3. wk'[w].fresh /\ wk'[w].pc = "conclude" =>
            /\ ~wk'[w].waits => \A a \in build'.list : Over(a)'
            /\ wk'[w].good => build'.list # {} /\ build'.list \subseteq indexed'
      BY <1>1, <1>2, <2>1, <3>1 DEF Stays, WorkerOK, Kept
    <3>4. wk'[w].pc # "idle" => build'.st # "none"
      BY <2>1, <3>1 DEF Stays, WorkerOK, RowMoves
    <3> QED BY <2>1, <3>1, <3>2, <3>3, <3>4 DEF Stays, WorkerOK
  <2> QED BY <2>1 DEF WorkerMoves
<1> QED BY <1>2, <1>3, <1>4, <1>5 DEF BuildInv

\* A step of one worker that writes nothing else than the delivery.
LEMMA OneWorker ==
  ASSUME BuildInv, NEW w \in Workers, NEW x \in WorkerType,
         wk' = [wk EXCEPT ![w] = x], msg' \in MsgType, MsgOK',
         UNCHANGED <<build, call, known, asset, indexed>>, WorkerOK(w)'
  PROVE  BuildInv'
<1>1. Typed'
  BY DEF BuildInv, Typed
<1>2. \A v \in Workers : WorkerMoves(v)
  <2> TAKE v \in Workers
  <2>1. v # w => wk'[v] = wk[v] BY DEF BuildInv, Typed
  <2> QED BY <2>1 DEF WorkerMoves, Stays
<1>3. RowMoves /\ (\A a \in Assets : AssetMoves(a)) /\ \A c \in Calls : CallMoves(c)
  BY DEF RowMoves, AssetMoves, Known, CallMoves
<1> QED BY <1>1, <1>2, <1>3, Preserved

LEMMA GotoFacts ==
  ASSUME Typed, NEW w \in Workers, NEW pc \in BuildPlaces
  PROVE  LET x == Goto(w, pc) IN
         /\ x \in WorkerType /\ x.pc = pc /\ x.fresh = wk[w].fresh /\ x.call = wk[w].call
         /\ x.got = wk[w].got /\ x.waits = wk[w].waits /\ x.good = wk[w].good
BY DEF Typed, Goto, WorkerType

LEMMA ReleaseFacts ==
  ASSUME Typed, NEW w \in Workers
  PROVE  /\ Release(w) \in WorkerType /\ Release(w).pc = "settle"
         /\ Release(w).fresh = wk[w].fresh /\ Release(w).got = wk[w].got
         /\ Ack(w) \in WorkerType /\ Ack(w).pc = "settle"
<1> DEFINE x == Goto(w, "settle")
<1>1. x \in WorkerType /\ x.pc = "settle" /\ x.fresh = wk[w].fresh /\ x.got = wk[w].got
  BY GotoFacts DEF BuildPlaces
<1>2. Release(w) = [x EXCEPT !.act = "release"] /\ Ack(w) = [x EXCEPT !.act = "ack"]
  BY DEF Release, Ack
<1> HIDE DEF x
<1> QED BY <1>1, <1>2 DEF WorkerType

\* What a worker that is idle, loads or settles has to know.
LEMMA Calm ==
  ASSUME NEW w \in Workers, wk'[w].pc \in {"idle", "load", "inspect", "settle"},
         wk'[w].pc # "idle" => build'.st # "none"
  PROVE  WorkerOK(w)'
BY DEF WorkerOK

LEMMA FreeCallFacts ==
  /\ FreeCall \in CallType /\ FreeCall.pc = "free"
  /\ FreeCall.got = {} /\ FreeCall.jobs = {}
  /\ LET d == [FreeCall EXCEPT !.pc = "scan"] IN
       /\ d \in CallType /\ d.pc = "scan" /\ d.todo = 1 /\ d.got = {} /\ d.jobs = {}
  /\ IsFiniteSet({}) /\ Cardinality({}) = 0 /\ Budget \in Nat /\ 0 <= Budget /\ 0 < Budget
<1>1. Len(Found) \in Nat /\ Budget \in Nat /\ 0 < Budget
  BY FoundAssumption
<1>2. 1 \in Positions BY <1>1 DEF Positions
<1>3. IsFiniteSet({}) /\ Cardinality({}) = 0 BY FS_EmptySet
<1>4. /\ FreeCall \in CallType /\ FreeCall.pc = "free" /\ FreeCall.todo = 1
      /\ FreeCall.got = {} /\ FreeCall.jobs = {}
  BY <1>2 DEF FreeCall, CallType
<1> DEFINE d == [FreeCall EXCEPT !.pc = "scan"]
<1>5. d \in CallType /\ d.pc = "scan" /\ d.todo = 1 /\ d.got = {} /\ d.jobs = {}
  BY <1>4 DEF CallType
<1> QED BY <1>1, <1>3, <1>4, <1>5

LEMMA InitBuildInv == BuildInit => BuildInv
<1> SUFFICES ASSUME BuildInit PROVE BuildInv OBVIOUS
<1>1. Len(Found) \in Nat /\ Budget \in Nat /\ Budget >= 1
  BY FoundAssumption
<1>2. IdleWorker \in WorkerType /\ IdleWorker.pc = "idle" /\ IdleWorker.fresh = FALSE
  BY DEF IdleWorker, WorkerType, BuildPlaces
<1>3. FreeCall \in CallType /\ FreeCall.pc = "free"
      /\ FreeCall.got = {} /\ FreeCall.jobs = {}
  BY FreeCallFacts
<1>4. NoAsset \in AssetType /\ NoAsset.sent = FALSE /\ NoAsset.asked = 0
      /\ NoAsset.st = "none" /\ NoAsset.an = "none" /\ NoAsset.done = "no"
  BY DEF NoAsset, AssetType
<1>5. Typed
  BY <1>2, <1>3, <1>4 DEF BuildInit, Typed, RowType, MsgType, Statuses, Acquiring
<1>6. IsFiniteSet({}) /\ Cardinality({}) = 0
  BY FS_EmptySet
<1>7. RowOK /\ MsgOK
  BY <1>1, <1>6 DEF BuildInit, RowOK, MsgOK
<1>8. \A a \in Assets : AssetOK(a)
  BY <1>4 DEF BuildInit, AssetOK, Over, Known
<1>9. \A c \in Calls : CallOK(c)
  <2> TAKE c \in Calls
  <2>1. call[c] = FreeCall BY DEF BuildInit
  <2>2. Cardinality({}) <= Budget BY <1>1, <1>6
  <2> QED BY <1>3, <1>6, <2>1, <2>2 DEF CallOK
<1>10. \A w \in Workers : WorkerOK(w)
  BY <1>2 DEF BuildInit, WorkerOK
<1> QED BY <1>5, <1>7, <1>8, <1>9, <1>10 DEF BuildInv

-----------------------------------------------------------------------------
(* process_once, and what disturbs it.                                     *)

LEMMA CreateStep == ASSUME BuildInv, CreateBuild PROVE BuildInv'
<1>1. /\ build' = [build EXCEPT !.st = "queued"] /\ build.st = "none"
      /\ UNCHANGED <<msg, wk, call, known, asset, indexed>>
  BY DEF CreateBuild
<1>2. build' \in RowType /\ build'.st = "queued" /\ build'.list = build.list
      /\ build'.stage = build.stage
  BY <1>1 DEF BuildInv, Typed, RowType, Statuses
<1>3. Typed' /\ MsgOK'
  BY <1>1, <1>2 DEF BuildInv, Typed, MsgOK
<1>4. RowMoves
  BY <1>1, <1>2 DEF RowMoves, RowOK, BuildInv
<1>5. \A w \in Workers : WorkerMoves(w)
  BY <1>1, <1>2 DEF BuildInv, WorkerOK, WorkerMoves
<1>6. (\A a \in Assets : AssetMoves(a)) /\ \A c \in Calls : CallMoves(c)
  BY <1>1 DEF AssetMoves, Known, CallMoves
<1> QED BY <1>1, <1>3, <1>4, <1>5, <1>6, Preserved

\* The row is written, and no worker but the writer holds it any more.
LEMMA RowWritten ==
  ASSUME BuildInv, NEW row \in RowType, build' = row, row.st # "none", RowOK',
         wk' \in [Workers -> WorkerType],
         \A v \in Workers : WorkerOK(v)' \/
           /\ wk'[v].fresh = FALSE /\ wk'[v].pc = wk[v].pc /\ wk'[v].got = wk[v].got
           /\ wk'[v].waits = wk[v].waits /\ wk'[v].good = wk[v].good,
         UNCHANGED <<msg, call, known, asset, indexed>>
  PROVE  BuildInv'
<1>1. Typed' /\ MsgOK'
  BY DEF BuildInv, Typed, MsgOK
<1>2. RowMoves /\ (\A a \in Assets : AssetMoves(a)) /\ \A c \in Calls : CallMoves(c)
  BY DEF RowMoves, AssetMoves, Known, CallMoves
<1>3. \A w \in Workers : WorkerMoves(w)
  BY DEF WorkerMoves, Stays
<1> QED BY <1>1, <1>2, <1>3, Preserved

LEMMA OutdatedFacts ==
  ASSUME Typed
  PROVE  /\ Outdated \in [Workers -> WorkerType]
         /\ \A v \in Workers :
              /\ Outdated[v].fresh = FALSE /\ Outdated[v].pc = wk[v].pc
              /\ Outdated[v].got = wk[v].got /\ Outdated[v].waits = wk[v].waits
              /\ Outdated[v].good = wk[v].good /\ Outdated[v].call = wk[v].call
<1>1. \A v \in Workers : LET x == [wk[v] EXCEPT !.fresh = FALSE] IN
        /\ x \in WorkerType /\ x.fresh = FALSE /\ x.pc = wk[v].pc /\ x.got = wk[v].got
        /\ x.waits = wk[v].waits /\ x.good = wk[v].good /\ x.call = wk[v].call
  BY DEF Typed, WorkerType
<1> QED BY <1>1 DEF Outdated

\* A write by the worker that holds the row, or a worker that finds it written.
LEMMA WriteStep ==
  ASSUME BuildInv, NEW w \in Workers, NEW permitted \in BOOLEAN, NEW row \in RowType,
         NEW won \in WorkerType, NEW lost \in WorkerType,
         Write(w, permitted, row, won, lost), call' = call, row.st # "none",
         wk[w].pc # "idle", lost.pc = "settle",
         wk[w].fresh /\ permitted /\ build' = row /\ wk'[w] = won => RowOK' /\ WorkerOK(w)'
  PROVE  BuildInv'
<1>1. UNCHANGED <<msg, call, known, asset, indexed>> /\ wk \in [Workers -> WorkerType]
  BY DEF Write, BuildInv, Typed
<1>2. CASE wk[w].fresh /\ permitted
  <2>1. build' = row /\ wk' = [Outdated EXCEPT ![w] = won]
    BY <1>2 DEF Write
  <2>2. wk'[w] = won /\ (\A v \in Workers : v # w => wk'[v] = Outdated[v])
        /\ wk' \in [Workers -> WorkerType]
    BY <2>1, OutdatedFacts DEF BuildInv
  <2>3. RowOK' /\ WorkerOK(w)'
    BY <1>2, <2>1, <2>2
  <2>4. \A v \in Workers : WorkerOK(v)' \/
           /\ wk'[v].fresh = FALSE /\ wk'[v].pc = wk[v].pc /\ wk'[v].got = wk[v].got
           /\ wk'[v].waits = wk[v].waits /\ wk'[v].good = wk[v].good
    BY <2>2, <2>3, OutdatedFacts DEF BuildInv
  <2> QED BY <1>1, <2>1, <2>2, <2>3, <2>4, RowWritten
<1>3. CASE ~(wk[w].fresh /\ permitted)
  <2>1. build' = build /\ wk' = [wk EXCEPT ![w] = lost]
    BY <1>3 DEF Write
  <2>2. wk'[w] = lost BY <1>1, <2>1
  <2>3. WorkerOK(w)'
    BY <2>1, <2>2, Calm DEF BuildInv, WorkerOK
  <2>4. MsgOK' /\ msg' \in MsgType
    BY <1>1, <2>1 DEF BuildInv, MsgOK, Typed
  <2> QED BY <1>1, <2>1, <2>3, <2>4, OneWorker
<1> QED BY <1>2, <1>3

LEMMA CancelStep == ASSUME BuildInv, CancelBuild PROVE BuildInv'
<1>1. /\ build' = [build EXCEPT !.st = "cancelled"] /\ wk' = Outdated
      /\ UNCHANGED <<msg, call, known, asset, indexed>>
  BY DEF CancelBuild
<1>2. build' \in RowType /\ build'.st = "cancelled" /\ build'.list = build.list
  BY <1>1 DEF BuildInv, Typed, RowType, Statuses, EndedStatuses
<1>3. RowOK'
  BY <1>1, <1>2 DEF BuildInv, RowOK
<1> QED BY <1>1, <1>2, <1>3, OutdatedFacts, RowWritten DEF BuildInv

LEMMA PublishStep == ASSUME BuildInv, PublishBuild PROVE BuildInv'
<1>1. /\ msg' = [msg EXCEPT !.st = "ready"] /\ build.st = "queued"
      /\ UNCHANGED <<build, wk, call, known, asset, indexed>>
  BY DEF PublishBuild
<1>2. Typed' /\ MsgOK'
  BY <1>1 DEF BuildInv, Typed, MsgType, MsgOK
<1> QED BY <1>1, <1>2, Preserved
      DEF RowMoves, AssetMoves, Known, CallMoves, WorkerMoves, Stays

LEMMA ReserveStep == ASSUME BuildInv, NEW w \in Workers, Reserve(w) PROVE BuildInv'
<1> DEFINE x == [IdleWorker EXCEPT !.pc = "load"]
<1>1. x \in WorkerType /\ x.pc = "load"
  BY DEF IdleWorker, WorkerType, BuildPlaces
<1>2. /\ msg' = [st |-> "leased", by |-> w] /\ wk' = [wk EXCEPT ![w] = x]
      /\ UNCHANGED <<build, call, known, asset, indexed>> /\ msg.st = "ready"
  BY DEF Reserve
<1>3. build.st # "none" BY <1>2 DEF BuildInv, MsgOK
<1> HIDE DEF x
<1>4. WorkerOK(w)'
  BY <1>1, <1>2, <1>3, Calm DEF BuildInv, Typed
<1>5. msg' \in MsgType /\ MsgOK'
  BY <1>2, <1>3 DEF MsgType, MsgOK
<1> QED BY <1>1, <1>2, <1>4, <1>5, OneWorker

LEMMA LoadStep == ASSUME BuildInv, NEW w \in Workers, Load(w) PROVE BuildInv'
<1> DEFINE x == [wk[w] EXCEPT !.fresh = TRUE]
           y == IF build.st \in EndedStatuses THEN Ack(w)
                ELSE IF build.stage \in Acquiring THEN [x EXCEPT !.pc = "mark"]
                ELSE [x EXCEPT !.pc = "inspect"]
<1>1. wk[w] \in WorkerType /\ wk[w].pc = "load"
  BY DEF BuildInv, Typed, Load, At
<1>2. x \in WorkerType
  BY <1>1 DEF WorkerType
<1>3. /\ y \in WorkerType /\ y.pc \in {"settle", "mark", "inspect"}
      /\ y.pc = "mark" => build.st \notin EndedStatuses
  <2>1. Ack(w) \in WorkerType /\ Ack(w).pc = "settle"
    BY ReleaseFacts DEF BuildInv
  <2> HIDE DEF x
  <2>2. /\ [x EXCEPT !.pc = "mark"] \in WorkerType /\ [x EXCEPT !.pc = "mark"].pc = "mark"
        /\ [x EXCEPT !.pc = "inspect"] \in WorkerType
        /\ [x EXCEPT !.pc = "inspect"].pc = "inspect"
    BY <1>2 DEF WorkerType, BuildPlaces
  <2> QED BY <2>1, <2>2
<1>4. /\ wk' = [wk EXCEPT ![w] = y] /\ UNCHANGED <<build, msg, call, known, asset, indexed>>
  BY DEF Load, LocalStep
<1>5. build.st # "none"
  BY <1>1 DEF BuildInv, WorkerOK
<1>6. build.st \in EndedStatuses \/ build.st \in {"queued", "running"}
  BY <1>5 DEF BuildInv, Typed, RowType, Statuses
<1> HIDE DEF y
<1>7. WorkerOK(w)'
  <2>1. wk'[w] = y BY <1>4 DEF BuildInv, Typed
  <2> QED BY <1>3, <1>4, <1>5, <1>6, <2>1 DEF WorkerOK
<1>8. msg' \in MsgType /\ MsgOK'
  BY <1>4 DEF BuildInv, Typed, MsgOK
<1> QED BY <1>3, <1>4, <1>7, <1>8, OneWorker

LEMMA UnusableStep == ASSUME BuildInv, NEW w \in Workers, UnusableRequest(w) PROVE BuildInv'
<1> DEFINE x == Goto(w, "fail")
<1>1. x \in WorkerType /\ x.pc = "fail" /\ x.fresh = wk[w].fresh
  BY GotoFacts DEF BuildInv, BuildPlaces
<1>2. /\ wk' = [wk EXCEPT ![w] = x] /\ UNCHANGED <<build, msg, call, known, asset, indexed>>
      /\ wk[w].pc = "mark"
  BY DEF UnusableRequest, At
<1> HIDE DEF x
<1>3. WorkerOK(w)'
  <2>1. wk'[w] = x BY <1>2 DEF BuildInv, Typed
  <2>2. WorkerOK(w) BY DEF BuildInv
  <2> QED BY <1>1, <1>2, <2>1, <2>2 DEF WorkerOK
<1>4. msg' \in MsgType /\ MsgOK'
  BY <1>2 DEF BuildInv, Typed, MsgOK
<1> QED BY <1>1, <1>2, <1>3, <1>4, OneWorker

LEMMA MarkTransferStep == ASSUME BuildInv, NEW w \in Workers, MarkTransfer(w) PROVE BuildInv'
<1> DEFINE row == [build EXCEPT !.st = "running", !.stage = "transfer"]
           won == Goto(w, "call")
           permitted == build.st \in {"queued", "running"} /\ build.stage \in Acquiring
<1>1. /\ row \in RowType /\ row.st = "running" /\ row.stage = "transfer"
      /\ row.list = build.list
  BY DEF BuildInv, Typed, RowType, Statuses, Acquiring
<1>2. won \in WorkerType /\ won.pc = "call"
  BY GotoFacts DEF BuildInv, BuildPlaces
<1>3. Release(w) \in WorkerType /\ Release(w).pc = "settle"
  BY ReleaseFacts DEF BuildInv
<1>4. /\ Write(w, permitted, row, won, Release(w)) /\ call' = call /\ wk[w].pc = "mark"
      /\ UNCHANGED <<asset, indexed>> /\ permitted \in BOOLEAN
  BY DEF MarkTransfer, At, Write
<1> HIDE DEF row, won, permitted
<1>5. build' = row /\ wk'[w] = won => RowOK' /\ WorkerOK(w)'
  <2> SUFFICES ASSUME build' = row, wk'[w] = won PROVE RowOK' /\ WorkerOK(w)'
    OBVIOUS
  <2>1. RowOK' BY <1>1, <1>4 DEF BuildInv, RowOK, Over
  <2>2. WorkerOK(w)' BY <1>1, <1>2 DEF WorkerOK
  <2> QED BY <2>1, <2>2
<1> QED BY <1>1, <1>2, <1>3, <1>4, <1>5, WriteStep

LEMMA SaveAcquisitionStep ==
  ASSUME BuildInv, NEW w \in Workers, SaveAcquisition(w)
  PROVE  BuildInv'
<1> DEFINE row == [build EXCEPT !.stage = "analyze", !.list = wk[w].got, !.err = wk[w].err]
           permitted == build.st = "running" /\ build.stage = "transfer"
<1>1. /\ row \in RowType /\ row.st = build.st /\ row.list = wk[w].got
  BY DEF BuildInv, Typed, RowType, WorkerType, Following
<1>2. Release(w) \in WorkerType /\ Release(w).pc = "settle"
  BY ReleaseFacts DEF BuildInv
<1>3. /\ Write(w, permitted, row, Release(w), Release(w)) /\ call' = call
      /\ wk[w].pc = "save" /\ UNCHANGED <<asset, indexed>> /\ permitted \in BOOLEAN
  BY DEF SaveAcquisition, At, Write
<1>4. build.st # "none" /\ WorkerOK(w)
  BY <1>3 DEF BuildInv, WorkerOK
<1>5. permitted => build.st = "running" OBVIOUS
<1> HIDE DEF row, permitted
<1>6. permitted /\ build' = row /\ wk'[w] = Release(w) => RowOK' /\ WorkerOK(w)'
  <2> SUFFICES ASSUME permitted, build' = row, wk'[w] = Release(w) PROVE RowOK' /\ WorkerOK(w)'
    OBVIOUS
  <2>1. RowOK' BY <1>1, <1>3, <1>4, <1>5 DEF WorkerOK, RowOK
  <2>2. WorkerOK(w)' BY <1>1, <1>2, <1>4, Calm
  <2> QED BY <2>1, <2>2
<1> QED BY <1>1, <1>2, <1>3, <1>4, <1>6, WriteStep

LEMMA FailStep == ASSUME BuildInv, NEW w \in Workers, Fail(w) PROVE BuildInv'
<1> DEFINE row == [build EXCEPT !.st = "failed", !.err = TRUE]
           permitted == build.st \in {"queued", "running"}
<1>1. /\ row \in RowType /\ row.st = "failed" /\ row.list = build.list
  BY DEF BuildInv, Typed, RowType, Statuses, EndedStatuses
<1>2. /\ Release(w) \in WorkerType /\ Release(w).pc = "settle"
      /\ Ack(w) \in WorkerType /\ Ack(w).pc = "settle"
  BY ReleaseFacts DEF BuildInv
<1>3. /\ Write(w, permitted, row, Ack(w), Release(w)) /\ call' = call
      /\ wk[w].pc = "fail" /\ UNCHANGED <<asset, indexed>> /\ permitted \in BOOLEAN
  BY DEF Fail, At, Write
<1> HIDE DEF row, permitted
<1>4. build' = row /\ wk'[w] = Ack(w) => RowOK' /\ WorkerOK(w)'
  <2> SUFFICES ASSUME build' = row, wk'[w] = Ack(w) PROVE RowOK' /\ WorkerOK(w)'
    OBVIOUS
  <2>1. RowOK' BY <1>1, <1>3 DEF BuildInv, RowOK
  <2>2. WorkerOK(w)' BY <1>1, <1>2, Calm
  <2> QED BY <2>1, <2>2
<1> QED BY <1>1, <1>2, <1>3, <1>4, WriteStep

LEMMA InspectStep == ASSUME BuildInv, NEW w \in Workers, Inspect(w) PROVE BuildInv'
<1> DEFINE x == Goto(w, "conclude")
           y == [x EXCEPT !.waits = Waiting # {},
                          !.good = build.list # {} /\ Indexed = build.list]
<1>1. x \in WorkerType /\ x.pc = "conclude" /\ x.fresh = wk[w].fresh
  BY GotoFacts DEF BuildInv, BuildPlaces
<1>2. /\ wk' = [wk EXCEPT ![w] = y] /\ UNCHANGED <<build, msg, call, known, asset, indexed>>
      /\ wk[w].pc = "inspect"
  BY DEF Inspect, LocalStep, At
<1> HIDE DEF x
<1>3. /\ y \in WorkerType /\ y.pc = "conclude" /\ y.waits = (Waiting # {})
      /\ y.good = (build.list # {} /\ Indexed = build.list)
  BY <1>1 DEF WorkerType
<1> HIDE DEF y
<1>4. wk'[w] = y BY <1>2 DEF BuildInv, Typed
<1>5. build.list \subseteq Assets /\ build.st # "none"
  BY <1>2 DEF BuildInv, Typed, RowType, WorkerOK
<1>6. ~y.waits => \A a \in build.list : Over(a)
  <2> SUFFICES ASSUME ~y.waits, NEW a \in build.list PROVE Over(a)
    OBVIOUS
  <2>1. asset[a].an # "pending" BY <1>3 DEF Waiting
  <2>2. asset[a].an # "none" /\ a \in Assets
    BY <1>5 DEF BuildInv, RowOK, AssetOK
  <2> QED BY <2>1, <2>2 DEF BuildInv, Typed, AssetType, AssetOK
<1>7. y.good => build.list # {} /\ build.list \subseteq indexed
  <2> SUFFICES ASSUME y.good, NEW a \in build.list PROVE a \in indexed
    BY <1>3
  <2>1. asset[a].st = "ready" BY <1>3 DEF Indexed
  <2> QED BY <1>5, <2>1 DEF BuildInv, AssetOK
<1>8. WorkerOK(w)'
  BY <1>2, <1>3, <1>4, <1>5, <1>6, <1>7 DEF WorkerOK, Over
<1>9. msg' \in MsgType /\ MsgOK'
  BY <1>2 DEF BuildInv, Typed, MsgOK
<1> QED BY <1>2, <1>3, <1>8, <1>9, OneWorker

LEMMA SaveProgressStep == ASSUME BuildInv, NEW w \in Workers, SaveProgress(w) PROVE BuildInv'
<1> DEFINE permitted == build.st = "running" /\ build.stage = "analyze"
<1>1. Release(w) \in WorkerType /\ Release(w).pc = "settle"
  BY ReleaseFacts DEF BuildInv
<1>2. /\ Write(w, permitted, build, Release(w), Release(w)) /\ call' = call
      /\ wk[w].pc = "conclude" /\ UNCHANGED <<asset, indexed>> /\ permitted \in BOOLEAN
  BY DEF SaveProgress, At, Write
<1>3. build \in RowType /\ build.st # "none" /\ RowOK
  BY <1>2 DEF BuildInv, Typed, WorkerOK
<1> HIDE DEF permitted
<1>4. build' = build /\ wk'[w] = Release(w) => RowOK' /\ WorkerOK(w)'
  <2> SUFFICES ASSUME build' = build, wk'[w] = Release(w) PROVE RowOK' /\ WorkerOK(w)'
    OBVIOUS
  <2>1. RowOK' BY <1>2, <1>3 DEF RowOK, Over
  <2>2. WorkerOK(w)' BY <1>1, <1>3, Calm
  <2> QED BY <2>1, <2>2
<1> QED BY <1>1, <1>2, <1>3, <1>4, WriteStep

\* The build ends as what the worker inspected says, nobody having written the
\* row in between.
LEMMA FinishStep == ASSUME BuildInv, NEW w \in Workers, FinishBuild(w) PROVE BuildInv'
<1> DEFINE ok == wk[w].good /\ ~build.err
           row == [build EXCEPT !.st = IF ok THEN "completed" ELSE "completed_with_errors",
                                !.stage = "index", !.err = ~ok]
           permitted == build.st = "running" /\ build.stage \in Following
<1>1. /\ row \in RowType /\ row.list = build.list
      /\ row.st \in {"completed", "completed_with_errors"}
      /\ row.st = "completed" => wk[w].good
  BY DEF BuildInv, Typed, RowType, Statuses, EndedStatuses, Following
<1>2. /\ Release(w) \in WorkerType /\ Release(w).pc = "settle"
      /\ Ack(w) \in WorkerType /\ Ack(w).pc = "settle"
  BY ReleaseFacts DEF BuildInv
<1>3. /\ Write(w, permitted, row, Ack(w), Release(w)) /\ call' = call
      /\ wk[w].pc = "conclude" /\ ~wk[w].waits
      /\ UNCHANGED <<asset, indexed>> /\ permitted \in BOOLEAN
  BY DEF FinishBuild, At, Write
<1> HIDE DEF row, permitted, ok
<1>4. wk[w].fresh /\ build' = row /\ wk'[w] = Ack(w) => RowOK' /\ WorkerOK(w)'
  <2> SUFFICES ASSUME wk[w].fresh, build' = row, wk'[w] = Ack(w) PROVE RowOK' /\ WorkerOK(w)'
    OBVIOUS
  <2>1. /\ \A a \in build.list : Over(a)
        /\ wk[w].good => build.list # {} /\ build.list \subseteq indexed
    BY <1>3 DEF BuildInv, WorkerOK
  <2>2. RowOK' BY <1>1, <1>3, <2>1 DEF BuildInv, RowOK, Over
  <2>3. WorkerOK(w)' BY <1>1, <1>2, Calm
  <2> QED BY <2>2, <2>3
<1>5. row.st # "none" BY <1>1
<1> QED BY <1>1, <1>2, <1>3, <1>4, <1>5, WriteStep

\* A worker that is done, dies or loses its delivery.
LEMMA ReturnStep ==
  ASSUME BuildInv, NEW w \in Workers, wk' = [wk EXCEPT ![w] = IdleWorker] \/ wk' = wk,
         msg' \in MsgType, msg'.st # "none" => msg.st # "none",
         UNCHANGED <<build, call, known, asset, indexed>>
  PROVE  BuildInv'
<1>1. IdleWorker \in WorkerType /\ IdleWorker.pc = "idle"
  BY DEF IdleWorker, WorkerType, BuildPlaces
<1>2. MsgOK' BY DEF BuildInv, MsgOK
<1>3. CASE wk' = [wk EXCEPT ![w] = IdleWorker]
  <2>1. WorkerOK(w)' BY <1>1, <1>3, Calm DEF BuildInv, Typed
  <2> QED BY <1>1, <1>2, <1>3, <2>1, OneWorker
<1>4. CASE wk' = wk
  <2>1. Typed' BY <1>4 DEF BuildInv, Typed
  <2> QED BY <1>2, <1>4, <2>1, Preserved
      DEF RowMoves, AssetMoves, Known, CallMoves, WorkerMoves, Stays
<1> QED BY <1>3, <1>4

LEMMA SettleStep == ASSUME BuildInv, NEW w \in Workers, Settle(w) PROVE BuildInv'
<1>1. /\ wk' = [wk EXCEPT ![w] = IdleWorker]
      /\ msg' = IF ~HoldsMsg(w) THEN msg
                ELSE [st |-> IF wk[w].act = "ack" THEN "done" ELSE "ready", by |-> NoWorker]
      /\ UNCHANGED <<build, call, known, asset, indexed>>
  BY DEF Settle
<1>2. msg' \in MsgType /\ (msg'.st # "none" => msg.st # "none")
  BY <1>1 DEF BuildInv, Typed, MsgType, HoldsMsg
<1> QED BY <1>1, <1>2, ReturnStep

LEMMA CrashStep == ASSUME BuildInv, NEW w \in Workers, CrashWorker(w) \/ Lapse(w) PROVE BuildInv'
<1>1. /\ wk' = [wk EXCEPT ![w] = IdleWorker] \/ wk' = wk
      /\ msg' = msg \/ (HoldsMsg(w) /\ msg' = [st |-> "ready", by |-> NoWorker])
      /\ UNCHANGED <<build, call, known, asset, indexed>>
  BY DEF CrashWorker, Lapse
<1>2. msg' \in MsgType /\ (msg'.st # "none" => msg.st # "none")
  BY <1>1 DEF BuildInv, Typed, MsgType, HoldsMsg
<1> QED BY <1>1, <1>2, ReturnStep

LEMMA GiveUpStep == ASSUME BuildInv, NEW w \in Workers, GiveUp(w) PROVE BuildInv'
<1> DEFINE x == [Release(w) EXCEPT !.call = NoCall]
<1>1. x \in WorkerType /\ x.pc = "settle"
  BY ReleaseFacts DEF BuildInv, WorkerType
<1>2. /\ wk' = [wk EXCEPT ![w] = x] /\ UNCHANGED <<build, msg, call, known, asset, indexed>>
      /\ wk[w].pc = "wait"
  BY DEF GiveUp, At
<1> HIDE DEF x
<1>3. WorkerOK(w)'
  BY <1>1, <1>2, Calm DEF BuildInv, Typed, WorkerOK
<1>4. msg' \in MsgType /\ MsgOK'
  BY <1>2 DEF BuildInv, Typed, MsgOK
<1> QED BY <1>1, <1>2, <1>3, <1>4, OneWorker

-----------------------------------------------------------------------------
(* The acquisitions.                                                       *)

\* A step of one acquisition that no worker sees.
LEMMA OneCall ==
  ASSUME BuildInv, NEW c \in Calls, NEW x \in CallType, call' = [call EXCEPT ![c] = x],
         UNCHANGED <<build, msg, wk, indexed>>, known' \subseteq Urls,
         asset' \in [Assets -> AssetType], \A a \in Assets : AssetMoves(a), CallOK(c)'
  PROVE  BuildInv'
<1>1. Typed' /\ MsgOK'
  BY DEF BuildInv, Typed, MsgOK
<1>2. RowMoves /\ \A w \in Workers : WorkerMoves(w)
  BY DEF RowMoves, WorkerMoves, Stays
<1>3. \A d \in Calls : CallMoves(d)
  <2> TAKE d \in Calls
  <2>1. d # c => call'[d] = call[d] BY DEF BuildInv, Typed
  <2> QED BY <2>1 DEF CallMoves
<1> QED BY <1>1, <1>2, <1>3, Preserved

\* An acquisition that only moves on: what it has stays.
LEMMA CallGoesOn ==
  ASSUME BuildInv, NEW c \in Calls, NEW x \in CallType, call' = [call EXCEPT ![c] = x],
         UNCHANGED <<build, msg, wk, known, asset, indexed>>,
         x.got = call[c].got, x.jobs = call[c].jobs,
         x.pc \in {"upload", "ask", "retire"} => x.todo <= Len(Found),
         x.pc \in {"upload", "ask"} => Cardinality(x.got) < Budget,
         x.pc = "upload" => asset[Found[x.todo]].rev # 0,
         x.pc = "ask" => x.rev # 0, x.pc # "read"
  PROVE  BuildInv'
<1>1. call'[c] = x /\ CallOK(c) BY DEF BuildInv, Typed
<1>2. CallOK(c)' BY <1>1 DEF CallOK, Cand
<1>3. /\ known' \subseteq Urls /\ asset' \in [Assets -> AssetType]
      /\ \A a \in Assets : AssetMoves(a)
  BY DEF BuildInv, Typed, AssetMoves, Known
<1> QED BY <1>2, <1>3, OneCall

\* The acquisition is over, and the worker that waits for it goes on.
LEMMA AnswerStep ==
  ASSUME BuildInv, NEW c \in Calls, call' = [call EXCEPT ![c] = FreeCall],
         UNCHANGED <<build, msg, known, asset, indexed>>,
         wk' \in [Workers -> WorkerType],
         \A w \in Workers : wk'[w] = wk[w] \/ WorkerOK(w)'
  PROVE  BuildInv'
<1>1. FreeCall \in CallType /\ FreeCall.pc = "free"
      /\ FreeCall.got = {} /\ FreeCall.jobs = {}
  BY FreeCallFacts
<1>2. Typed' /\ MsgOK'
  BY <1>1 DEF BuildInv, Typed, MsgOK
<1>3. \A d \in Calls : CallMoves(d)
  <2> TAKE d \in Calls
  <2>1. d # c => call'[d] = call[d] BY DEF BuildInv, Typed
  <2>2. call'[c] = FreeCall BY DEF BuildInv, Typed
  <2>3. IsFiniteSet({}) /\ Cardinality({}) <= Budget
    BY FreeCallFacts
  <2>4. CallOK(c)' BY <1>1, <2>2, <2>3 DEF CallOK
  <2> QED BY <2>1, <2>4 DEF CallMoves
<1>4. RowMoves /\ (\A a \in Assets : AssetMoves(a)) /\ \A w \in Workers : WorkerMoves(w)
  BY DEF RowMoves, AssetMoves, Known, WorkerMoves, Stays
<1> QED BY <1>2, <1>3, <1>4, Preserved

LEMMA RequestStep == ASSUME BuildInv, NEW w \in Workers, Request(w) PROVE BuildInv'
<1>0. PICK c \in Calls : c = CHOOSE y \in Free : TRUE
  BY DEF Request, Free
<1> DEFINE x == [Goto(w, "wait") EXCEPT !.call = c]
           d == [FreeCall EXCEPT !.pc = "scan"]
<1>1. c \in Calls /\ call' = [call EXCEPT ![c] = d] /\ wk' = [wk EXCEPT ![w] = x]
      /\ wk[w].pc = "call" /\ UNCHANGED <<build, msg, known, asset, indexed>>
  BY <1>0 DEF Request, At
<1>2. x \in WorkerType /\ x.pc = "wait" /\ x.fresh = wk[w].fresh
  <2> DEFINE g == Goto(w, "wait")
  <2>1. g \in WorkerType /\ g.pc = "wait" /\ g.fresh = wk[w].fresh
    BY GotoFacts DEF BuildInv, BuildPlaces
  <2> HIDE DEF g
  <2>2. x = [g EXCEPT !.call = c] BY DEF g
  <2> QED BY <1>1, <2>1, <2>2 DEF WorkerType
<1>3. d \in CallType /\ d.pc = "scan" /\ d.got = {} /\ d.jobs = {}
  BY FreeCallFacts
<1> HIDE DEF x, d
<1>4. Typed' /\ MsgOK' BY <1>1, <1>2, <1>3 DEF BuildInv, Typed, MsgOK
<1>5. wk'[w] = x /\ call'[c] = d /\ \A v \in Workers : v # w => wk'[v] = wk[v]
  BY <1>1 DEF BuildInv, Typed
<1>6. WorkerOK(w)'
  <2>1. WorkerOK(w) BY DEF BuildInv
  <2> QED BY <1>1, <1>2, <1>5, <2>1 DEF WorkerOK
<1>7. CallOK(c)'
  <2>1. IsFiniteSet({}) /\ Cardinality({}) <= Budget
    BY FreeCallFacts
  <2>2. call'[c].got = {} /\ call'[c].jobs = {} /\ call'[c].pc = "scan"
    BY <1>3, <1>5
  <2> QED BY <2>1, <2>2 DEF CallOK
<1>8. \A e \in Calls : CallMoves(e)
  <2> TAKE e \in Calls
  <2>1. e # c => call'[e] = call[e] BY <1>1 DEF BuildInv, Typed
  <2> QED BY <1>7, <2>1 DEF CallMoves
<1>9. \A v \in Workers : WorkerMoves(v)
  BY <1>1, <1>5, <1>6 DEF WorkerMoves, Stays
<1>10. RowMoves /\ \A a \in Assets : AssetMoves(a)
  BY <1>1 DEF RowMoves, AssetMoves, Known
<1> QED BY <1>1, <1>4, <1>8, <1>9, <1>10, Preserved

LEMMA SourceFailsStep == ASSUME BuildInv, NEW c \in Calls, SourceFails(c) PROVE BuildInv'
<1>1. PICK again \in BOOLEAN :
        call' = [call EXCEPT ![c] = [Next1(c) EXCEPT !.errs = TRUE,
                                                   !.again = Next1(c).again \/ again]]
  BY DEF SourceFails
<1> DEFINE n == Next1(c)
           x == [n EXCEPT !.errs = TRUE, !.again = n.again \/ again]
<1>2. call[c].todo <= Len(Found) BY DEF SourceFails, Searching, BuildInv, CallOK
<1>3. n \in CallType /\ n.pc = "scan" /\ n.got = call[c].got /\ n.jobs = call[c].jobs
  BY <1>2, CandFacts
<1> HIDE DEF n
<1>4. x \in CallType /\ x.pc = "scan" /\ x.got = call[c].got /\ x.jobs = call[c].jobs
  BY <1>3 DEF CallType
<1>5. call' = [call EXCEPT ![c] = x] /\ UNCHANGED <<build, msg, wk, known, asset, indexed>>
  BY <1>1 DEF n, SourceFails
<1> HIDE DEF x
<1> QED BY <1>4, <1>5, CallGoesOn

LEMMA SkipFacts ==
  ASSUME BuildInv, NEW c \in Calls, call[c].todo <= Len(Found), Skip(c)
  PROVE  \E x \in CallType : /\ call' = [call EXCEPT ![c] = x] /\ x.pc = "scan"
                             /\ x.todo = call[c].todo + 1
                             /\ x.got = call[c].got /\ x.jobs = call[c].jobs
<1> DEFINE n == Next1(c)
           x == [n EXCEPT !.errs = TRUE]
<1>1. /\ n \in CallType /\ n.pc = "scan" /\ n.todo = call[c].todo + 1
      /\ n.got = call[c].got /\ n.jobs = call[c].jobs
  BY CandFacts
<1>2. call' = [call EXCEPT ![c] = x] BY DEF Skip
<1> HIDE DEF n
<1>3. /\ x \in CallType /\ x.pc = "scan" /\ x.todo = call[c].todo + 1
      /\ x.got = call[c].got /\ x.jobs = call[c].jobs
  BY <1>1 DEF CallType
<1> HIDE DEF x
<1> QED BY <1>2, <1>3

LEMMA AskFacts ==
  ASSUME BuildInv, NEW c \in Calls, NEW rev \in Nat
  PROVE  LET x == [call[c] EXCEPT !.pc = "ask", !.rev = rev] IN
         /\ x \in CallType /\ x.pc = "ask" /\ x.rev = rev /\ x.todo = call[c].todo
         /\ x.got = call[c].got /\ x.jobs = call[c].jobs
BY DEF BuildInv, Typed, CallType

\* The acquisition goes on in another place.
LEMMA PcFacts ==
  ASSUME Typed, NEW c \in Calls, NEW pc \in {"scan", "upload", "read", "send"}
  PROVE  LET x == [call[c] EXCEPT !.pc = pc] IN
         /\ x \in CallType /\ x.pc = pc /\ x.todo = call[c].todo
         /\ x.got = call[c].got /\ x.jobs = call[c].jobs
BY DEF Typed, CallType

\* An asset is created, taken over or uploaded: it is to be analysed, and what
\* was true of its analysis stays true.
LEMMA Restarted ==
  ASSUME BuildInv, NEW a \in Assets, NEW u \in BOOLEAN, NEW n \in Nat, n # 0,
         asset[a].rev <= n, indexed' = indexed, Restart(a, u, n)
  PROVE  /\ asset' \in [Assets -> AssetType] /\ asset'[a].rev = n
         /\ asset'[a].asked = asset[a].asked /\ AssetOK(a)'
         /\ \A b \in Assets : Kept(b) /\ (b # a => asset'[b] = asset[b])
<1> DEFINE r == asset[a]
           new == [r EXCEPT !.st = "processing", !.an = "pending", !.up = u, !.rev = n]
<1>1. asset[a] \in AssetType /\ AssetOK(a) /\ r \in AssetType
  BY DEF BuildInv, Typed
<1>2. asset' = [asset EXCEPT ![a] = new] BY DEF Restart, BuildInv, Typed
<1> HIDE DEF r
<1>3. /\ new \in AssetType /\ new.st = "processing" /\ new.an = "pending" /\ new.rev = n
      /\ new.asked = r.asked /\ new.sent = r.sent /\ new.done = r.done
  BY <1>1 DEF AssetType
<1> HIDE DEF new
<1> USE DEF r
<1>4. /\ asset'[a] = new /\ asset' \in [Assets -> AssetType]
      /\ \A b \in Assets : b # a => asset'[b] = asset[b]
  BY <1>2, <1>3 DEF BuildInv, Typed
<1>5. asset[a].asked < n
  <2>1. NoAsset.asked = 0 BY DEF NoAsset
  <2>2. asset[a].asked < asset[a].rev \/ asset[a].asked = 0 BY <1>1, <2>1 DEF AssetOK
  <2>3. asset[a].asked \in Nat /\ asset[a].rev \in Nat BY <1>1 DEF AssetType
  <2> QED BY <2>2, <2>3
<1>6. AssetOK(a)' BY <1>1, <1>3, <1>4, <1>5 DEF AssetOK, Over
<1>7. \A b \in Assets : Kept(b)
  <2> TAKE b \in Assets
  <2>1. CASE b = a BY <1>3, <1>4, <2>1 DEF Kept, Over
  <2>2. CASE b # a BY <1>4, <2>2 DEF Kept, Over
  <2> QED BY <2>1, <2>2
<1> QED BY <1>3, <1>4, <1>6, <1>7

\* The asset an acquisition works at, once it exists.
LEMMA KnownRev ==
  ASSUME BuildInv, NEW c \in Calls, call[c].todo <= Len(Found), call[c].todo \in known
  PROVE  asset[Cand(c)].rev # 0
<1>1. Cand(c) \in Assets BY CandFacts
<1>2. Known(Cand(c)) BY DEF Known, Cand
<1> QED BY <1>1, <1>2 DEF BuildInv, AssetOK

LEMMA ImportStep == ASSUME BuildInv, NEW c \in Calls, Import(c) PROVE BuildInv'
<1>1. call[c].todo <= Len(Found) /\ Cardinality(call[c].got) < Budget
  BY DEF Import, Fresh, Replayed, Searching
<1>2. PICK a \in Assets : a = Cand(c)
  BY <1>1, CandFacts
<1> DEFINE x == [call[c] EXCEPT !.pc = "upload"]
<1>3. call' = [call EXCEPT ![c] = x] /\ UNCHANGED <<build, msg, wk, indexed>>
  BY DEF Import, BuildInv, Typed
<1>4. /\ x \in CallType /\ x.pc = "upload" /\ x.todo = call[c].todo
      /\ x.got = call[c].got /\ x.jobs = call[c].jobs
  BY PcFacts DEF BuildInv
<1> HIDE DEF x
<1>5. CASE call[c].todo \in known /\ UNCHANGED <<asset, known>>
  <2>1. asset[Found[x.todo]].rev # 0 BY <1>1, <1>4, <1>5, KnownRev DEF Cand
  <2> QED BY <1>1, <1>3, <1>4, <1>5, <2>1, CallGoesOn
<1>6. CASE /\ Restart(a, FALSE, IF asset[a].rev = 0 THEN 1 ELSE asset[a].rev)
           /\ known' = known \union {call[c].todo}
  <2> DEFINE n == IF asset[a].rev = 0 THEN 1 ELSE asset[a].rev
  <2>1. n \in Nat /\ n # 0 /\ asset[a].rev <= n BY DEF BuildInv, Typed, AssetType
  <2>2. Restart(a, FALSE, n)
    BY <1>6 DEF BuildInv, Typed
  <2> HIDE DEF n
  <2>3. /\ asset' \in [Assets -> AssetType] /\ asset'[a].rev = n /\ AssetOK(a)'
        /\ \A b \in Assets : Kept(b) /\ (b # a => asset'[b] = asset[b])
    BY <1>3, <2>1, <2>2, Restarted
  <2>4. \A b \in Assets : AssetMoves(b)
    <3> TAKE b \in Assets
    <3>1. b # a => (Known(b)' => Known(b)) BY <1>2, <1>6 DEF Known, Cand
    <3> QED BY <2>3, <3>1 DEF AssetMoves
  <2>5. CallOK(c)'
    <3>1. call'[c] = x /\ CallOK(c) BY <1>3 DEF BuildInv, Typed
    <3>2. Cand(c)' = a BY <1>2, <1>4, <3>1 DEF Cand
    <3>3. \A b \in call[c].got : b \in Assets BY DEF BuildInv, Typed, CallType
    <3> QED BY <1>1, <1>4, <2>1, <2>3, <3>1, <3>2, <3>3 DEF CallOK, Kept
  <2>6. known' \subseteq Urls BY <1>1, <1>6, CandFacts DEF BuildInv, Typed, Urls
  <2> QED BY <1>3, <1>4, <2>3, <2>4, <2>5, <2>6, OneCall
<1> QED BY <1>2, <1>5, <1>6 DEF Import, Replayed

LEMMA UploadStep == ASSUME BuildInv, NEW c \in Calls, Upload(c) PROVE BuildInv'
<1>1. /\ call[c].todo <= Len(Found) /\ Cardinality(call[c].got) < Budget
      /\ asset[Cand(c)].rev # 0
  BY DEF Upload, BuildInv, CallOK
<1>2. PICK a \in Assets : a = Cand(c)
  BY <1>1, CandFacts
<1> DEFINE x == [call[c] EXCEPT !.pc = "read"]
<1>3. call' = [call EXCEPT ![c] = x] /\ UNCHANGED <<build, msg, wk, known, indexed>>
  BY DEF Upload, BuildInv, Typed
<1>4. /\ x \in CallType /\ x.pc = "read" /\ x.todo = call[c].todo
      /\ x.got = call[c].got /\ x.jobs = call[c].jobs
  BY PcFacts DEF BuildInv
<1> HIDE DEF x
<1>5. /\ asset' \in [Assets -> AssetType]
      /\ \A b \in Assets : AssetMoves(b) /\ Kept(b)
  <2>1. CASE UNCHANGED asset
    BY <1>3, <2>1 DEF BuildInv, Typed, AssetMoves, Known, Kept, Over
  <2>2. CASE Restart(a, TRUE, asset[a].rev + 1)
    <3> DEFINE n == asset[a].rev + 1
    <3>1. n \in Nat /\ n # 0 /\ asset[a].rev <= n BY DEF BuildInv, Typed, AssetType
    <3>2. Restart(a, TRUE, n)
      BY <2>2 DEF BuildInv, Typed
    <3> HIDE DEF n
    <3>3. /\ asset' \in [Assets -> AssetType] /\ AssetOK(a)'
          /\ \A b \in Assets : Kept(b) /\ (b # a => asset'[b] = asset[b])
      BY <1>3, <3>1, <3>2, Restarted
    <3> QED BY <1>3, <3>3 DEF AssetMoves, Known
  <2> QED BY <1>2, <2>1, <2>2 DEF Upload
<1>6. CallOK(c)'
  <2>1. call'[c] = x /\ CallOK(c) BY <1>3 DEF BuildInv, Typed
  <2>2. Cand(c)' = a BY <1>2, <1>4, <2>1 DEF Cand
  <2>3. \A b \in call[c].got : b \in Assets BY DEF BuildInv, Typed, CallType
  <2> QED BY <1>1, <1>2, <1>4, <1>5, <2>1, <2>2, <2>3 DEF CallOK, Kept
<1>7. known' \subseteq Urls BY <1>3 DEF BuildInv, Typed
<1> QED BY <1>3, <1>4, <1>5, <1>6, <1>7, OneCall

\* The acquisition read its imported asset, which exists.
LEMMA ImportedFacts ==
  ASSUME BuildInv, NEW c \in Calls, Imported(c)
  PROVE  /\ call[c].pc \in {"scan", "read"} /\ call[c].todo <= Len(Found)
         /\ Cardinality(call[c].got) < Budget /\ asset[Cand(c)].rev # 0
<1>1. CASE call[c].pc = "read"
  BY <1>1 DEF BuildInv, CallOK
<1>2. CASE Replayed(c)
  BY <1>2, KnownRev DEF Replayed, Searching
<1> QED BY <1>1, <1>2 DEF Imported

LEMMA ReplayStep == ASSUME BuildInv, NEW c \in Calls, Replay(c) PROVE BuildInv'
<1> DEFINE a == Cand(c)
           x == [call[c] EXCEPT !.pc = "ask", !.rev = asset[a].rev]
<1>1. /\ call[c].todo <= Len(Found) /\ Cardinality(call[c].got) < Budget
      /\ asset[a].rev # 0
  BY ImportedFacts DEF Replay
<1>2. asset[a].rev \in Nat
  <2>1. a \in Assets BY <1>1, CandFacts
  <2> QED BY <2>1 DEF BuildInv, Typed, AssetType
<1>3. call' = [call EXCEPT ![c] = x] /\ UNCHANGED <<build, msg, wk, known, asset, indexed>>
  BY DEF Replay
<1>4. x \in CallType /\ x.pc = "ask" /\ x.rev = asset[a].rev /\ x.todo = call[c].todo
      /\ x.got = call[c].got /\ x.jobs = call[c].jobs
  BY <1>2, AskFacts
<1> HIDE DEF x, a
<1> QED BY <1>1, <1>2, <1>3, <1>4, CallGoesOn

LEMMA SettledFacts ==
  ASSUME BuildInv, NEW c \in Calls, Settled(c)
  PROVE  call[c].pc \in {"scan", "read"} /\ call[c].todo <= Len(Found)
BY ImportedFacts DEF Settled, Fresh, Searching

LEMMA RejectStep == ASSUME BuildInv, NEW c \in Calls, Reject(c) PROVE BuildInv'
<1>1. call[c].todo <= Len(Found) /\ UNCHANGED <<build, msg, wk, known, asset, indexed>>
  BY SettledFacts DEF Reject
<1>2. CASE Skip(c)
  <2>1. PICK x \in CallType : /\ call' = [call EXCEPT ![c] = x] /\ x.pc = "scan"
                             /\ x.got = call[c].got /\ x.jobs = call[c].jobs
    BY <1>1, <1>2, SkipFacts
  <2> QED BY <1>1, <2>1, CallGoesOn
<1>3. CASE call' = [call EXCEPT ![c].pc = "retire", ![c].rev = asset[Cand(c)].rev]
  <2> DEFINE x == [call[c] EXCEPT !.pc = "retire", !.rev = asset[Cand(c)].rev]
  <2>1. asset[Cand(c)].rev \in Nat BY <1>1, CandFacts DEF BuildInv, Typed, AssetType
  <2>2. /\ x \in CallType /\ x.pc = "retire" /\ x.todo = call[c].todo
        /\ x.got = call[c].got /\ x.jobs = call[c].jobs
    BY <2>1 DEF BuildInv, Typed, CallType
  <2>3. call' = [call EXCEPT ![c] = x] BY <1>3 DEF BuildInv, Typed
  <2> HIDE DEF x
  <2> QED BY <1>1, <2>2, <2>3, CallGoesOn
<1> QED BY <1>2, <1>3 DEF Reject

\* One asset's row is written, and what was true of its analysis stays true.
LEMMA AssetWritten ==
  ASSUME BuildInv, NEW a \in Assets, NEW new \in AssetType, asset' = [asset EXCEPT ![a] = new],
         known' = known, AssetOK(a)', Kept(a)
  PROVE  /\ asset' \in [Assets -> AssetType] /\ known' \subseteq Urls /\ asset'[a] = new
         /\ \A b \in Assets : AssetMoves(b) /\ Kept(b)
<1>1. asset' \in [Assets -> AssetType] /\ known' \subseteq Urls /\ asset'[a] = new
  BY DEF BuildInv, Typed
<1>2. \A b \in Assets : AssetMoves(b) /\ Kept(b)
  <2> TAKE b \in Assets
  <2>1. b # a => asset'[b] = asset[b] /\ (Known(b)' => Known(b))
    BY DEF BuildInv, Typed, Known
  <2>2. b # a => Kept(b) BY <2>1 DEF Kept, Over
  <2> QED BY <2>1, <2>2 DEF AssetMoves
<1> QED BY <1>1, <1>2

LEMMA DeletedRecord ==
  ASSUME NEW r \in AssetType, NEW n \in Nat
  PROVE  LET y == [r EXCEPT !.st = "deleted", !.rev = n] IN
         /\ y \in AssetType /\ y.st = "deleted" /\ y.rev = n /\ y.an = r.an
         /\ y.asked = r.asked /\ y.sent = r.sent /\ y.done = r.done
BY DEF AssetType

\* A deleted asset keeps what its analysis came to.
LEMMA Deleted ==
  ASSUME BuildInv, NEW a \in Assets, known' = known, indexed' = indexed,
         asset' = [asset EXCEPT ![a].st = "deleted", ![a].rev = @ + 1]
  PROVE  /\ asset' \in [Assets -> AssetType] /\ known' \subseteq Urls
         /\ asset'[a].st = "deleted" /\ asset'[a].rev = asset[a].rev + 1
         /\ asset'[a].asked = asset[a].asked
         /\ \A b \in Assets : AssetMoves(b) /\ Kept(b)
<1> DEFINE n == asset[a].rev + 1
           new == [asset[a] EXCEPT !.st = "deleted", !.rev = n]
<1>1. asset[a] \in AssetType /\ AssetOK(a)
  BY DEF BuildInv, Typed
<1>2. asset[a].rev \in Nat /\ asset[a].asked \in Nat /\ n \in Nat
  BY <1>1 DEF AssetType
<1>3. asset' = [asset EXCEPT ![a] = new]
  BY DEF BuildInv, Typed
<1>4. n = asset[a].rev + 1 /\ n \in Nat BY <1>2
<1> HIDE DEF n
<1>5. /\ new \in AssetType /\ new.st = "deleted" /\ new.rev = n /\ new.an = asset[a].an
      /\ new.asked = asset[a].asked /\ new.sent = asset[a].sent /\ new.done = asset[a].done
  BY <1>1, <1>4, DeletedRecord
<1> HIDE DEF new
<1>6. asset'[a] = new BY <1>3 DEF BuildInv, Typed
<1>7. asset[a].asked < n
  <2>1. NoAsset.asked = 0 BY DEF NoAsset
  <2>2. asset[a].asked < asset[a].rev \/ asset[a].asked = 0 BY <1>1, <2>1 DEF AssetOK
  <2> QED BY <1>2, <1>4, <2>2
<1>8. AssetOK(a)'
  <2>1. n # 0 BY <1>2, <1>4
  <2>2. new.st \notin {"none", "processing", "ready"} BY <1>5
  <2> QED BY <1>1, <1>5, <1>6, <1>7, <2>1, <2>2 DEF AssetOK, Over
<1>9. Kept(a)
  <2>1. n # 0 BY <1>2, <1>4
  <2> QED BY <1>5, <1>6, <2>1 DEF Kept, Over
<1> QED BY <1>3, <1>4, <1>5, <1>6, <1>8, <1>9, AssetWritten

LEMMA RetireStep == ASSUME BuildInv, NEW c \in Calls, Retire(c) PROVE BuildInv'
<1>1. /\ call[c].pc = "retire" /\ UNCHANGED <<build, msg, wk, known, indexed>> /\ Skip(c)
      /\ asset' = [asset EXCEPT ![Cand(c)].st = "deleted", ![Cand(c)].rev = @ + 1]
  BY DEF Retire
<1>2. call[c].todo <= Len(Found) BY <1>1 DEF BuildInv, CallOK
<1>3. PICK a \in Assets : a = Cand(c) BY <1>2, CandFacts
<1>4. asset' = [asset EXCEPT ![a].st = "deleted", ![a].rev = @ + 1] BY <1>1, <1>3
<1>5. /\ asset' \in [Assets -> AssetType] /\ known' \subseteq Urls
      /\ \A b \in Assets : AssetMoves(b) /\ Kept(b)
  BY <1>1, <1>4, Deleted
<1>6. PICK x \in CallType : /\ call' = [call EXCEPT ![c] = x] /\ x.pc = "scan"
                           /\ x.got = call[c].got /\ x.jobs = call[c].jobs
  BY <1>1, <1>2, SkipFacts
<1>7. call'[c] = x BY <1>6 DEF BuildInv, Typed
<1>8. CallOK(c)'
  <2>1. CallOK(c) /\ \A b \in call[c].got : b \in Assets BY DEF BuildInv, Typed, CallType
  <2> QED BY <1>5, <1>6, <1>7, <2>1 DEF CallOK, Kept
<1> QED BY <1>1, <1>5, <1>6, <1>8, OneCall

LEMMA WithdrawStep == ASSUME BuildInv, NEW a \in Assets, Withdraw(a) PROVE BuildInv'
<1>1. /\ asset' = [asset EXCEPT ![a].st = "deleted", ![a].rev = @ + 1]
      /\ UNCHANGED <<build, msg, wk, call, known, indexed>>
  BY DEF Withdraw
<1>2. /\ asset' \in [Assets -> AssetType] /\ \A b \in Assets : AssetMoves(b)
  BY <1>1, Deleted
<1>3. Typed' /\ MsgOK' BY <1>1, <1>2 DEF BuildInv, Typed, MsgOK
<1> QED BY <1>1, <1>2, <1>3, Preserved DEF RowMoves, CallMoves, WorkerMoves, Stays

LEMMA TakenRecord ==
  ASSUME NEW r \in CallType, NEW a \in Assets
  PROVE  LET y == [r EXCEPT !.got = r.got \union {a}, !.jobs = r.jobs \union {a}] IN
         /\ y \in CallType /\ y.pc = r.pc /\ y.todo = r.todo /\ y.got = r.got \union {a}
         /\ y.jobs = r.jobs \union {a}
<1> DEFINE y == [r EXCEPT !.got = r.got \union {a}, !.jobs = r.jobs \union {a}]
<1>1. y.pc = r.pc /\ y.todo = r.todo /\ y.got = r.got \union {a} /\ y.jobs = r.jobs \union {a}
  BY DEF CallType
<1>2. y \in CallType BY DEF CallType
<1> QED BY <1>1, <1>2

LEMMA TakenFacts ==
  ASSUME BuildInv, NEW c \in Calls, Asks(c), NEW a \in Assets, a = Cand(c)
  PROVE  /\ Taken(c) \in CallType /\ Taken(c).pc = "scan"
         /\ Taken(c).todo = call[c].todo + 1
         /\ Taken(c).got = call[c].got \union {a} /\ Taken(c).jobs = call[c].jobs \union {a}
         /\ IsFiniteSet(Taken(c).got) /\ Cardinality(Taken(c).got) <= Budget
<1>1. /\ call[c].todo <= Len(Found) /\ Cardinality(call[c].got) < Budget
      /\ IsFiniteSet(call[c].got)
  BY DEF BuildInv, Asks, CallOK
<1> DEFINE n == Next1(c)
           y == [n EXCEPT !.got = n.got \union {a}, !.jobs = n.jobs \union {a}]
<1>2. /\ n \in CallType /\ n.pc = "scan" /\ n.todo = call[c].todo + 1
      /\ n.got = call[c].got /\ n.jobs = call[c].jobs
  BY <1>1, CandFacts
<1>3. Taken(c) = y BY DEF Taken
<1> HIDE DEF n
<1>4. /\ y \in CallType /\ y.pc = n.pc /\ y.todo = n.todo /\ y.got = n.got \union {a}
      /\ y.jobs = n.jobs \union {a}
  BY <1>2, TakenRecord
<1> HIDE DEF y
<1>5. /\ IsFiniteSet(call[c].got \union {a})
      /\ Cardinality(call[c].got \union {a}) <= Budget
  <2>1. Budget \in Nat BY FoundAssumption
  <2>2. Cardinality(call[c].got) \in Nat BY <1>1, FS_CardinalityType
  <2>3. /\ IsFiniteSet(call[c].got \union {a})
        /\ Cardinality(call[c].got \union {a}) =
             IF a \in call[c].got THEN Cardinality(call[c].got) ELSE Cardinality(call[c].got) + 1
    BY <1>1, FS_AddElement
  <2> QED BY <1>1, <2>1, <2>2, <2>3
<1> QED BY <1>2, <1>3, <1>4, <1>5

\* Whether the analysis is requested or was requested before, it has been asked
\* for afterwards.
LEMMA AskFor ==
  ASSUME BuildInv, NEW c \in Calls, NEW a \in Assets, a = Cand(c), AskAnalysis(c)
  PROVE  /\ asset' \in [Assets -> AssetType] /\ asset'[a].asked # 0
         /\ \A b \in Assets : AssetMoves(b) /\ Kept(b)
         /\ \A b \in Assets : b # a => asset'[b] = asset[b]
<1>1. /\ call[c].rev # 0 /\ call[c].rev \in Nat /\ asset[a] \in AssetType /\ AssetOK(a)
      /\ known' = known /\ indexed' = indexed
  BY DEF BuildInv, Typed, CallOK, AskAnalysis, Asks, CallType
<1>2. CASE /\ asset[a].asked = 0 /\ asset[a].rev = call[c].rev
           /\ asset' = [asset EXCEPT ![a] = [@ EXCEPT !.st = "processing", !.an = "pending",
                               !.asked = call[c].rev, !.rev = asset[a].rev + 1]]
  <2> DEFINE m == call[c].rev
             n == asset[a].rev + 1
             new == [asset[a] EXCEPT !.st = "processing", !.an = "pending",
                                     !.asked = m, !.rev = n]
  <2>1. asset' = [asset EXCEPT ![a] = new] BY <1>2 DEF BuildInv, Typed
  <2>2. n \in Nat /\ m \in Nat /\ m < n /\ m # 0 /\ n # 0
    BY <1>1, <1>2 DEF AssetType
  <2> HIDE DEF m, n
  <2>3. /\ new \in AssetType /\ new.st = "processing" /\ new.rev = n /\ new.an = "pending"
        /\ new.asked = m /\ new.sent = asset[a].sent /\ new.done = asset[a].done
    <3>1. asset[a] \in AssetType /\ n \in Nat /\ m \in Nat BY <1>1, <2>2
    <3> DEFINE r == asset[a]
    <3>2. r \in AssetType BY <3>1
    <3> HIDE DEF r
    <3>3. new = [r EXCEPT !.st = "processing", !.an = "pending", !.asked = m, !.rev = n]
      BY DEF r
    <3> HIDE DEF new
    <3>4. /\ new.st = "processing" /\ new.rev = n /\ new.an = "pending"
          /\ new.asked = m /\ new.sent = r.sent /\ new.done = r.done
      BY <3>2, <3>3 DEF AssetType
    <3>5. new \in AssetType BY <3>1, <3>2, <3>3 DEF AssetType
    <3> QED BY <3>4, <3>5 DEF r
  <2> HIDE DEF new
  <2>4. asset'[a] = new BY <2>1 DEF BuildInv, Typed
  <2>5. ~asset[a].sent /\ ~Over(a) BY <1>1, <1>2 DEF AssetOK, Over
  <2>6. AssetOK(a)' BY <1>1, <2>2, <2>3, <2>4, <2>5 DEF AssetOK, Over
  <2>7. Kept(a) BY <1>2, <2>2, <2>3, <2>4, <2>5 DEF Kept
  <2>8. \A b \in Assets : b # a => asset'[b] = asset[b] BY <2>1 DEF BuildInv, Typed
  <2> QED BY <1>1, <2>1, <2>2, <2>3, <2>4, <2>6, <2>7, <2>8, AssetWritten
<1>3. CASE asset[a].asked = call[c].rev /\ UNCHANGED asset
  BY <1>1, <1>3 DEF BuildInv, Typed, AssetMoves, Known, Kept, Over
<1> QED BY <1>2, <1>3 DEF AskAnalysis

LEMMA AskAnalysisStep == ASSUME BuildInv, NEW c \in Calls, AskAnalysis(c) PROVE BuildInv'
<1>1. Asks(c) /\ UNCHANGED <<build, msg, wk, known, indexed>>
  BY DEF AskAnalysis
<1>2. PICK a \in Assets : a = Cand(c)
  BY <1>1, CandFacts DEF BuildInv, CallOK, Asks
<1>3. /\ asset' \in [Assets -> AssetType] /\ asset'[a].asked # 0
      /\ \A b \in Assets : AssetMoves(b) /\ Kept(b)
  BY <1>2, AskFor
<1> DEFINE x == Taken(c)
<1>4. /\ x \in CallType /\ x.pc = "scan"
      /\ x.got = call[c].got \union {a} /\ x.jobs = call[c].jobs \union {a}
      /\ IsFiniteSet(x.got) /\ Cardinality(x.got) <= Budget
  BY <1>1, <1>2, TakenFacts
<1>5. call' = [call EXCEPT ![c] = x] BY DEF AskAnalysis
<1> HIDE DEF x
<1>6. call'[c] = x BY <1>5 DEF BuildInv, Typed
<1>7. CallOK(c)'
  <2>1. CallOK(c) /\ \A b \in call[c].got : b \in Assets BY DEF BuildInv, Typed, CallType
  <2>2. \A b \in call'[c].got :
          asset'[b].asked # 0 /\ (b \notin call'[c].jobs => asset'[b].sent)
    BY <1>3, <1>4, <1>6, <2>1 DEF CallOK, Kept
  <2> QED BY <1>4, <1>6, <2>1, <2>2 DEF CallOK
<1>8. known' \subseteq Urls BY <1>1 DEF BuildInv, Typed
<1> QED BY <1>1, <1>3, <1>4, <1>5, <1>7, <1>8, OneCall

-----------------------------------------------------------------------------
(* The answers.                                                            *)

Resumed(c, x) ==
  [w \in Workers |-> IF At(w, "wait") /\ wk[w].call = c
                     THEN [x[w] EXCEPT !.call = NoCall] ELSE wk[w]]

Knows(c, x) ==
  \A w \in Workers : wk[w].pc = "wait" /\ wk[w].call = c =>
    /\ x[w].pc \in {"settle", "fail", "save"} /\ x[w].fresh = wk[w].fresh
    /\ x[w].pc = "save" =>
         /\ IsFiniteSet(x[w].got) /\ Cardinality(x[w].got) <= Budget
         /\ \A a \in x[w].got : asset[a].sent

\* The worker that waits for c goes on as x, which knows what it has to.
LEMMA AnswerTo ==
  ASSUME BuildInv, NEW c \in Calls, UNCHANGED <<build, msg, known, asset, indexed>>,
         call' = [call EXCEPT ![c] = FreeCall], NEW x, x \in [Workers -> WorkerType],
         wk' = Resumed(c, x), Knows(c, x)
  PROVE  BuildInv'
<1>1. \A w \in Workers :
        LET y == [x[w] EXCEPT !.call = NoCall] IN
        /\ y \in WorkerType /\ y.pc = x[w].pc /\ y.fresh = x[w].fresh /\ y.got = x[w].got
        /\ y.waits = x[w].waits /\ y.good = x[w].good
  <2> TAKE w \in Workers
  <2>1. x[w] \in WorkerType OBVIOUS
  <2> QED BY <2>1 DEF WorkerType
<1>2. wk' \in [Workers -> WorkerType]
  BY <1>1 DEF BuildInv, Typed, Resumed
<1>3. \A w \in Workers : wk'[w] = wk[w] \/ WorkerOK(w)'
  <2> TAKE w \in Workers
  <2>1. CASE wk[w].pc = "wait" /\ wk[w].call = c
    <3> DEFINE y == [x[w] EXCEPT !.call = NoCall]
    <3>1. wk'[w] = y BY <2>1 DEF At, Resumed
    <3>2. y.pc = x[w].pc /\ y.fresh = x[w].fresh /\ y.got = x[w].got
      BY <1>1
    <3> HIDE DEF y
    <3>3. WorkerOK(w) BY DEF BuildInv
    <3> QED BY <2>1, <3>1, <3>2, <3>3 DEF WorkerOK, Knows
  <2>2. CASE ~(wk[w].pc = "wait" /\ wk[w].call = c)
    BY <2>2 DEF At, Resumed
  <2> QED BY <2>1, <2>2
<1> QED BY <1>2, <1>3, AnswerStep

LEMMA Released ==
  ASSUME BuildInv, NEW c \in Calls, Answer(c, Release),
         UNCHANGED <<build, msg, known, asset, indexed>>
  PROVE  BuildInv'
<1> DEFINE x == [w \in Workers |-> Release(w)]
<1>1. x \in [Workers -> WorkerType]
      /\ \A w \in Workers : x[w].pc = "settle" /\ x[w].fresh = wk[w].fresh
  BY ReleaseFacts DEF BuildInv
<1>2. /\ call' = [call EXCEPT ![c] = FreeCall]
      /\ wk' = Resumed(c, x)
  BY DEF Answer, Resumed
<1> HIDE DEF x
<1>3. Knows(c, x) BY <1>1 DEF Knows
<1> QED BY <1>1, <1>2, <1>3, AnswerTo

LEMMA ToldToFail ==
  ASSUME BuildInv, NEW c \in Calls, Answer(c, ToFail),
         UNCHANGED <<build, msg, known, asset, indexed>>
  PROVE  BuildInv'
<1> DEFINE x == [w \in Workers |-> ToFail(w)]
<1>1. x \in [Workers -> WorkerType]
      /\ \A w \in Workers : x[w].pc = "fail" /\ x[w].fresh = wk[w].fresh
  BY GotoFacts DEF BuildInv, ToFail, BuildPlaces
<1>2. /\ call' = [call EXCEPT ![c] = FreeCall]
      /\ wk' = Resumed(c, x)
  BY DEF Answer, Resumed
<1> HIDE DEF x
<1>3. Knows(c, x) BY <1>1 DEF Knows
<1> QED BY <1>1, <1>2, <1>3, AnswerTo

LEMMA AskConflictsStep == ASSUME BuildInv, NEW c \in Calls, AskConflicts(c) PROVE BuildInv'
BY Released DEF AskConflicts

LEMMA StaleStep == ASSUME BuildInv, NEW c \in Calls, Stale(c) PROVE BuildInv'
BY ToldToFail DEF Stale

LEMMA RejectedStep == ASSUME BuildInv, NEW c \in Calls, CommandRejected(c) PROVE BuildInv'
BY ToldToFail DEF CommandRejected

LEMMA EnqueueFailsStep == ASSUME BuildInv, NEW c \in Calls, EnqueueFails(c) PROVE BuildInv'
BY Released DEF EnqueueFails

LEMMA SearchedStep == ASSUME BuildInv, NEW c \in Calls, Searched(c) PROVE BuildInv'
<1>1. UNCHANGED <<build, msg, known, asset, indexed>> BY DEF Searched
<1>2. CASE Answer(c, Release) BY <1>1, <1>2, Released
<1>3. CASE call' = [call EXCEPT ![c].pc = "send"] /\ UNCHANGED wk
  <2> DEFINE x == [call[c] EXCEPT !.pc = "send"]
  <2>1. x \in CallType /\ x.pc = "send" /\ x.got = call[c].got /\ x.jobs = call[c].jobs
    BY PcFacts DEF BuildInv
  <2>2. call' = [call EXCEPT ![c] = x] BY <1>3 DEF BuildInv, Typed
  <2> HIDE DEF x
  <2> QED BY <1>1, <1>3, <2>1, <2>2, CallGoesOn
<1> QED BY <1>2, <1>3 DEF Searched

LEMMA EnqueueStep == ASSUME BuildInv, NEW c \in Calls, Enqueue(c) PROVE BuildInv'
<1>1. PICK a \in call[c].jobs :
        /\ asset' = [asset EXCEPT ![a].sent = TRUE]
        /\ call' = [call EXCEPT ![c].jobs = call[c].jobs \ {a}]
        /\ UNCHANGED <<build, msg, wk, known, indexed>> /\ call[c].pc = "send"
  BY DEF Enqueue, BuildInv, Typed
<1>2. call[c] \in CallType /\ CallOK(c) BY DEF BuildInv, Typed
<1>3. a \in Assets /\ asset[a].asked # 0 /\ a \in call[c].got
  BY <1>2 DEF CallOK, CallType
<1>4. asset[a] \in AssetType /\ AssetOK(a) BY <1>3 DEF BuildInv, Typed
<1> DEFINE new == [asset[a] EXCEPT !.sent = TRUE]
           x == [call[c] EXCEPT !.jobs = call[c].jobs \ {a}]
<1>5. /\ new \in AssetType /\ new.st = asset[a].st /\ new.an = asset[a].an
      /\ new.rev = asset[a].rev /\ new.asked = asset[a].asked /\ new.sent = TRUE
      /\ new.done = asset[a].done
  BY <1>4 DEF AssetType
<1>6. /\ x \in CallType /\ x.pc = "send" /\ x.got = call[c].got
      /\ x.jobs = call[c].jobs \ {a}
  BY <1>1, <1>2 DEF CallType
<1>7. asset' = [asset EXCEPT ![a] = new] /\ call' = [call EXCEPT ![c] = x]
  BY <1>1 DEF BuildInv, Typed
<1> HIDE DEF new, x
<1>8. asset'[a] = new /\ call'[c] = x BY <1>3, <1>7 DEF BuildInv, Typed
<1>9. AssetOK(a)'
  <2>1. NoAsset.asked = 0 BY DEF NoAsset
  <2>2. asset[a].asked < asset[a].rev BY <1>3, <1>4, <2>1 DEF AssetOK
  <2> QED BY <1>1, <1>3, <1>4, <1>5, <1>8, <2>2 DEF AssetOK, Over, Known
<1>10. Kept(a) BY <1>5, <1>8 DEF Kept, Over
<1>11. /\ asset' \in [Assets -> AssetType] /\ known' \subseteq Urls
       /\ \A b \in Assets : AssetMoves(b) /\ Kept(b)
  BY <1>1, <1>3, <1>5, <1>7, <1>9, <1>10, AssetWritten
<1>12. CallOK(c)'
  <2>1. \A b \in call[c].got : b \in Assets BY <1>2 DEF CallType
  <2>2. \A b \in call'[c].got :
          asset'[b].asked # 0 /\ (b \notin call'[c].jobs => asset'[b].sent)
    BY <1>2, <1>5, <1>6, <1>8, <1>11, <2>1 DEF CallOK, Kept
  <2> QED BY <1>2, <1>6, <1>8, <2>2 DEF CallOK
<1> QED BY <1>1, <1>6, <1>7, <1>11, <1>12, OneCall

LEMMA RespondStep == ASSUME BuildInv, NEW c \in Calls, Respond(c) PROVE BuildInv'
<1> DEFINE e == call[c].errs \/ Cardinality(call[c].got) < Budget
           x == [w \in Workers |-> [Goto(w, "save") EXCEPT !.got = call[c].got, !.err = e]]
<1>1. /\ call[c].jobs = {} /\ UNCHANGED <<build, msg, known, asset, indexed>>
      /\ call' = [call EXCEPT ![c] = FreeCall]
      /\ wk' = Resumed(c, x)
  BY DEF Respond, Answer, Resumed
<1>2. CallOK(c) /\ call[c].got \subseteq Assets /\ e \in BOOLEAN
  BY DEF BuildInv, Typed, CallType
<1> HIDE DEF e
<1>3. \A w \in Workers : /\ x[w] \in WorkerType /\ x[w].pc = "save"
                         /\ x[w].fresh = wk[w].fresh /\ x[w].got = call[c].got
  <2> TAKE w \in Workers
  <2> DEFINE g == Goto(w, "save")
             y == [g EXCEPT !.got = call[c].got, !.err = e]
  <2>1. g \in WorkerType /\ g.pc = "save" /\ g.fresh = wk[w].fresh
    BY GotoFacts DEF BuildInv, BuildPlaces
  <2>2. x[w] = y OBVIOUS
  <2> HIDE DEF g, x
  <2>3. /\ y \in WorkerType /\ y.pc = "save" /\ y.fresh = g.fresh /\ y.got = call[c].got
    BY <1>2, <2>1 DEF WorkerType
  <2> QED BY <2>1, <2>2, <2>3
<1>4. x \in [Workers -> WorkerType] BY <1>3
<1> HIDE DEF x
<1>5. \A a \in call[c].got : asset[a].sent BY <1>1, <1>2 DEF CallOK
<1>6. IsFiniteSet(call[c].got) /\ Cardinality(call[c].got) <= Budget BY <1>2 DEF CallOK
<1>7. Knows(c, x) BY <1>3, <1>5, <1>6 DEF Knows
<1> QED BY <1>1, <1>4, <1>7, AnswerTo

LEMMA ApiRestartStep == ASSUME BuildInv, ApiRestart PROVE BuildInv'
<1>1. /\ known' = {} /\ call' = [c \in Calls |-> FreeCall]
      /\ wk' = [w \in Workers |-> IF At(w, "wait") THEN [Release(w) EXCEPT !.call = NoCall]
                                  ELSE wk[w]]
      /\ UNCHANGED <<build, msg, asset, indexed>>
  BY DEF ApiRestart
<1>2. \A w \in Workers : LET y == [Release(w) EXCEPT !.call = NoCall] IN
        y \in WorkerType /\ y.pc = "settle"
  <2> TAKE w \in Workers
  <2> DEFINE r == Release(w)
  <2>1. r \in WorkerType /\ r.pc = "settle" BY ReleaseFacts DEF BuildInv
  <2> HIDE DEF r
  <2>2. LET y == [r EXCEPT !.call = NoCall] IN y \in WorkerType /\ y.pc = "settle"
    BY <2>1 DEF WorkerType
  <2> QED BY <2>2 DEF r
<1>3. wk' \in [Workers -> WorkerType]
  BY <1>1, <1>2 DEF BuildInv, Typed
<1>4. Typed' /\ MsgOK'
  BY <1>1, <1>3, FreeCallFacts DEF BuildInv, Typed, MsgOK
<1>5. \A c \in Calls : CallMoves(c)
  <2> TAKE c \in Calls
  <2>1. call'[c] = FreeCall BY <1>1
  <2> QED BY <2>1, FreeCallFacts DEF BuildInv, CallMoves, CallOK
<1>6. \A w \in Workers : WorkerMoves(w)
  <2> TAKE w \in Workers
  <2>1. CASE wk[w].pc = "wait"
    <3>1. wk'[w].pc = "settle" BY <1>1, <1>2, <2>1 DEF At
    <3>2. build'.st # "none" BY <1>1, <2>1 DEF BuildInv, WorkerOK
    <3> QED BY <3>1, <3>2, Calm DEF WorkerMoves
  <2>2. CASE wk[w].pc # "wait"
    <3>1. wk'[w] = wk[w] BY <1>1, <2>2 DEF At
    <3> QED BY <1>1, <3>1 DEF WorkerMoves, Stays
  <2> QED BY <2>1, <2>2
<1>7. RowMoves /\ \A a \in Assets : AssetMoves(a)
  BY <1>1 DEF RowMoves, AssetMoves, Known
<1> QED BY <1>1, <1>4, <1>5, <1>6, <1>7, Preserved

\* What the analysis leaves in the row of its asset.
LEMMA Judged ==
  ASSUME BuildInv, NEW a \in Assets, Analysed(a)
  PROVE  \E new \in AssetType :
           /\ asset' = [asset EXCEPT ![a] = new]
           /\ new.rev = asset[a].rev /\ new.asked = asset[a].asked /\ new.sent = asset[a].sent
           /\ new.done \in {"over", "lost"} /\ (new.done = "over" \/ new.an = asset[a].an)
           /\ new.an # "none" /\ (new.st = "ready" => a \in indexed')
           /\ indexed \subseteq indexed' /\ indexed' \subseteq Assets
<1> DEFINE r == asset[a]
<1>1. asset \in [Assets -> AssetType] /\ r \in AssetType /\ r.an # "none"
      /\ indexed \subseteq Assets
  <2>1. NoAsset.sent = FALSE BY DEF NoAsset
  <2> QED BY <2>1 DEF BuildInv, Typed, AssetOK, Analysed
<1>2. CASE asset[a].st = "processing"
  <2>1. PICK o \in {"ready", "awaiting_review", "quarantined"}, scan \in BOOLEAN :
          /\ asset' = [asset EXCEPT ![a] = [@ EXCEPT !.st = o, !.done = "over",
                         !.an = IF o = "quarantined" THEN "failed" ELSE "completed",
                         !.scanned = scan]]
          /\ indexed' = IF o = "ready" THEN indexed \union {a} ELSE indexed
    BY <1>2 DEF Analysed
  <2> DEFINE z == IF o = "quarantined" THEN "failed" ELSE "completed"
             new == [r EXCEPT !.st = o, !.done = "over", !.an = z, !.scanned = scan]
  <2>2. asset' = [asset EXCEPT ![a] = new] BY <1>1, <2>1
  <2>3. z \in {"completed", "failed"} OBVIOUS
  <2> HIDE DEF r, z
  <2>4. /\ new \in AssetType /\ new.st = o /\ new.done = "over" /\ new.an = z
        /\ new.rev = r.rev /\ new.asked = r.asked /\ new.sent = r.sent
    BY <1>1, <2>3 DEF AssetType
  <2> HIDE DEF new
  <2> QED BY <1>1, <2>1, <2>2, <2>3, <2>4 DEF r
<1>3. CASE asset[a].st = "deleted"
  <2>1. indexed' = indexed BY <1>3 DEF Analysed
  <2>2. CASE asset' = [asset EXCEPT ![a].done = "lost"]
    <3> DEFINE new == [r EXCEPT !.done = "lost"]
    <3>1. asset' = [asset EXCEPT ![a] = new] BY <1>1, <2>2
    <3>2. r.st = "deleted" BY <1>3
    <3> HIDE DEF r
    <3>3. /\ new \in AssetType /\ new.st = "deleted" /\ new.done = "lost" /\ new.an = r.an
          /\ new.rev = r.rev /\ new.asked = r.asked /\ new.sent = r.sent
      BY <1>1, <3>2 DEF AssetType
    <3> HIDE DEF new
    <3> QED BY <1>1, <2>1, <3>1, <3>3 DEF r
  <2>3. CASE asset' = [asset EXCEPT ![a] = [@ EXCEPT !.st = "quarantined", !.done = "over",
                                                   !.an = "failed"]]
    <3> DEFINE new == [r EXCEPT !.st = "quarantined", !.done = "over", !.an = "failed"]
    <3>1. asset' = [asset EXCEPT ![a] = new] BY <1>1, <2>3
    <3> HIDE DEF r
    <3>2. /\ new \in AssetType /\ new.st = "quarantined" /\ new.done = "over"
          /\ new.an = "failed" /\ new.rev = r.rev /\ new.asked = r.asked /\ new.sent = r.sent
      BY <1>1 DEF AssetType
    <3> HIDE DEF new
    <3> QED BY <1>1, <2>1, <3>1, <3>2 DEF r
  <2> QED BY <1>3, <2>2, <2>3 DEF Analysed
<1> QED BY <1>2, <1>3 DEF Analysed

LEMMA AnalysedStep == ASSUME BuildInv, NEW a \in Assets, Analysed(a) PROVE BuildInv'
<1>1. PICK new \in AssetType :
        /\ asset' = [asset EXCEPT ![a] = new]
        /\ new.rev = asset[a].rev /\ new.asked = asset[a].asked /\ new.sent = asset[a].sent
        /\ new.done \in {"over", "lost"} /\ (new.done = "over" \/ new.an = asset[a].an)
        /\ new.an # "none" /\ (new.st = "ready" => a \in indexed')
        /\ indexed \subseteq indexed' /\ indexed' \subseteq Assets
  BY Judged
<1>2. /\ asset[a].sent /\ asset[a].done = "no" /\ UNCHANGED <<build, msg, wk, call, known>>
      /\ asset[a] \in AssetType /\ AssetOK(a)
  BY DEF Analysed, BuildInv, Typed
<1>3. asset'[a] = new BY <1>1 DEF BuildInv, Typed
<1>4. asset[a].asked < asset[a].rev /\ asset[a].asked # 0
  <2>1. NoAsset.asked = 0 BY DEF NoAsset
  <2> QED BY <1>2, <2>1 DEF AssetOK
<1>5. AssetOK(a)'
  <2>1. new.an \in {"completed", "failed"} => new.done = "over"
    BY <1>1, <1>2 DEF AssetOK, Over
  <2> QED BY <1>1, <1>2, <1>3, <1>4, <2>1 DEF AssetOK, Over, Known
<1>6. Kept(a) BY <1>1, <1>2, <1>3 DEF Kept, Over
<1>7. /\ asset' \in [Assets -> AssetType] /\ known' \subseteq Urls
      /\ \A b \in Assets : AssetMoves(b)
  BY <1>1, <1>2, <1>5, <1>6, AssetWritten
<1>8. Typed' /\ MsgOK' BY <1>1, <1>2, <1>7 DEF BuildInv, Typed, MsgOK
<1> QED BY <1>1, <1>2, <1>7, <1>8, Preserved DEF RowMoves, CallMoves, WorkerMoves, Stays

LEMMA NextBuildInv == BuildInv /\ [BuildNext]_(buildVars) => BuildInv'
<1> SUFFICES ASSUME BuildInv, [BuildNext]_(buildVars) PROVE BuildInv'
  OBVIOUS
<1>1. CASE UNCHANGED buildVars
  <2>1. Typed' /\ MsgOK' BY <1>1 DEF buildVars, BuildInv, Typed, MsgOK
  <2> QED BY <1>1, <2>1, Preserved
      DEF buildVars, RowMoves, AssetMoves, Known, CallMoves, WorkerMoves, Stays
<1>2. CASE CreateBuild \/ PublishBuild
  BY <1>2, CreateStep, PublishStep
<1>3. CASE Disturb
  BY <1>3, CancelStep, ApiRestartStep, UnusableStep, CrashStep, GiveUpStep, SourceFailsStep,
     RejectedStep, EnqueueFailsStep, WithdrawStep DEF Disturb
<1>4. CASE \E w \in Workers : WorkerStep(w)
  BY <1>4, ReserveStep, LoadStep, MarkTransferStep, RequestStep, SaveAcquisitionStep, FailStep,
     InspectStep, SaveProgressStep, FinishStep, SettleStep DEF WorkerStep
<1>5. CASE \E c \in Calls : CallStep(c)
  BY <1>5, ImportStep, UploadStep, ReplayStep, RejectStep, RetireStep, AskAnalysisStep, AskConflictsStep,
     StaleStep, SearchedStep, EnqueueStep, RespondStep DEF CallStep
<1>6. CASE \E a \in Assets : Analysed(a)
  BY <1>6, AnalysedStep
<1> QED BY <1>1, <1>2, <1>3, <1>4, <1>5, <1>6 DEF BuildNext

\* The invariant of a build holds of every behaviour of its workers, its
\* acquisitions and its assets.
THEOREM BuildInvariance == BuildSpec => []BuildInv
BY InitBuildInv, NextBuildInv, PTL DEF BuildSpec

-----------------------------------------------------------------------------
(* As long as no acquisition stopped half way.                             *)

\* One worker is at work.
LEMMA OnlyOne ==
  ASSUME Alone, NEW v \in Workers, NEW w \in Workers, wk[v].pc # "idle", wk[w].pc # "idle"
  PROVE  v = w
BY DEF Alone, At, HoldsMsg

LEMMA NoCalls ==
  ASSUME Alone, \A w \in Workers : wk[w].pc # "wait"
  PROVE  \A c \in Calls : call[c].pc = "free"
BY DEF Alone, At

LEMMA InitFollows == BuildInit => Uncut
<1> SUFFICES ASSUME BuildInit PROVE Follows BY DEF Uncut
<1>1. /\ \A w \in Workers : wk[w].pc = "idle"
      /\ \A c \in Calls : call[c].pc = "free"
  BY DEF BuildInit, IdleWorker, FreeCall
<1>2. Untouched /\ build.stage = "discover"
  BY DEF BuildInit, Untouched, Asked, NoAsset
<1>3. RowFollows BY <1>2 DEF RowFollows, Following
<1> QED BY <1>1, <1>3 DEF Follows, Alone, At, WorkerFollows, CallFollows

\* The worker at work does something on its own.
LEMMA WorkerAct ==
  ASSUME BuildInv, Follows, NEW w \in Workers, wk[w].pc \notin {"idle", "wait"},
         UNCHANGED <<msg, call, known, asset>>, wk'[w].pc \notin {"idle", "wait"},
         \A v \in Workers : v # w => wk'[v].pc = wk[v].pc,
         WorkerFollows(w)', RowFollows'
  PROVE  Follows'
<1>1. HoldsMsg(w) /\ \A v \in Workers : v # w => wk[v].pc = "idle"
  BY OnlyOne DEF Follows, Alone, At
<1>2. \A c \in Calls : call[c].pc = "free"
  BY <1>1, NoCalls DEF Follows
<1>3. Alone'
  BY <1>1, <1>2 DEF Alone, At, HoldsMsg
<1>4. \A v \in Workers : WorkerFollows(v)'
  <2> TAKE v \in Workers
  <2>1. CASE v = w BY <2>1
  <2>2. CASE v # w
    <3>1. wk'[v].pc = "idle" BY <1>1, <2>2
    <3> QED BY <3>1 DEF WorkerFollows
  <2> QED BY <2>1, <2>2
<1>5. \A c \in Calls : CallFollows(c)'
  BY <1>2 DEF CallFollows
<1> QED BY <1>3, <1>4, <1>5 DEF Follows

\* Nobody is at work, before or after.
LEMMA Quiet ==
  ASSUME \A v \in Workers : wk'[v].pc = "idle", \A c \in Calls : call'[c].pc = "free", RowFollows'
  PROVE  Follows'
BY DEF Follows, Alone, At, WorkerFollows, CallFollows

\* The one acquisition goes on.
LEMMA CallAct ==
  ASSUME BuildInv, Follows, NEW c \in Calls, call[c].pc # "free", UNCHANGED <<build, msg, wk>>,
         NEW x, call' = [call EXCEPT ![c] = x], CallFollows(c)'
  PROVE  Follows'
<1>1. PICK w \in Workers : wk[w].pc = "wait" /\ wk[w].call = c
  BY DEF Follows, Alone, At
<1>2. \A v \in Workers : v # w => wk[v].pc = "idle"
  BY <1>1, OnlyOne DEF Follows
<1>3. \A d \in Calls : d # c => call'[d] = call[d] /\ call[d].pc = "free"
  BY <1>1, <1>2 DEF Follows, Alone, At, BuildInv, Typed
<1>4. Alone'
  <2>1. \A v \in Workers : ~At(v, "idle")' => HoldsMsg(v)'
    BY DEF Follows, Alone, At, HoldsMsg
  <2>2. \A d \in Calls : call'[d].pc # "free" =>
          \E v \in Workers : At(v, "wait")' /\ wk'[v].call = d
    BY <1>1, <1>3 DEF At
  <2> QED BY <2>1, <2>2 DEF Alone, At, HoldsMsg
<1>5. build.stage \in Acquiring /\ build.stage \notin Following
  BY <1>1 DEF Follows, WorkerFollows, Acquiring, Following
<1>6. RowFollows'
  BY <1>1, <1>5 DEF RowFollows
<1>7. \A v \in Workers : WorkerFollows(v)'
  <2> TAKE v \in Workers
  <2>1. WorkerFollows(v) /\ wk'[v].pc \in {"idle", "wait"} /\ wk' = wk
    BY <1>1, <1>2 DEF Follows
  <2> QED BY <2>1 DEF WorkerFollows
<1>8. \A d \in Calls : CallFollows(d)'
  BY <1>3 DEF CallFollows
<1> QED BY <1>4, <1>6, <1>7, <1>8 DEF Follows

\* The one acquisition is answered.
LEMMA AnswerAct ==
  ASSUME BuildInv, Follows, NEW c \in Calls, call[c].pc # "free",
         UNCHANGED <<build, msg, known, asset>>, call' = [call EXCEPT ![c] = FreeCall],
         NEW x, x \in [Workers -> WorkerType], wk' = Resumed(c, x), Knows(c, x),
         \A w \in Workers : /\ x[w].pc = "save" => Asked \subseteq x[w].got
                            /\ x[w].pc = "settle" => Untouched
  PROVE  Follows'
<1>1. PICK w \in Workers : wk[w].pc = "wait" /\ wk[w].call = c
  BY DEF Follows, Alone, At
<1>2. \A v \in Workers : v # w => wk[v].pc = "idle" /\ wk'[v].pc = "idle"
  <2>1. \A v \in Workers : v # w => wk[v].pc = "idle" BY <1>1, OnlyOne DEF Follows
  <2> QED BY <2>1 DEF Resumed, At
<1>3. \A d \in Calls : call'[d].pc = "free"
  BY <1>1, <1>2, FreeCallFacts DEF Follows, Alone, At, BuildInv, Typed
<1>4. /\ wk'[w].pc = x[w].pc /\ wk'[w].fresh = wk[w].fresh /\ wk'[w].got = x[w].got
      /\ wk'[w].pc \in {"settle", "fail", "save"}
  <2> DEFINE y == [x[w] EXCEPT !.call = NoCall]
  <2>1. wk'[w] = y BY <1>1 DEF Resumed, At
  <2>2. y.pc = x[w].pc /\ y.fresh = x[w].fresh /\ y.got = x[w].got BY DEF WorkerType
  <2> HIDE DEF y
  <2> QED BY <1>1, <2>1, <2>2 DEF Knows
<1>5. HoldsMsg(w) /\ WorkerFollows(w)
  BY <1>1 DEF Follows, Alone, At
<1>6. Alone'
  BY <1>2, <1>3, <1>5 DEF Alone, At, HoldsMsg
<1>7. Asked' = Asked /\ (Untouched' <=> Untouched)
  BY DEF Asked, Untouched
<1>8. WorkerFollows(w)'
  BY <1>1, <1>4, <1>5, <1>7 DEF WorkerFollows
<1>9. \A v \in Workers : WorkerFollows(v)'
  <2> TAKE v \in Workers
  <2>1. v # w => wk'[v].pc = "idle" BY <1>2
  <2>2. v # w => WorkerFollows(v)' BY <2>1 DEF WorkerFollows
  <2> QED BY <1>8, <2>2
<1>10. build.stage \in Acquiring /\ build.stage \notin Following
  BY <1>1, <1>5 DEF WorkerFollows, Acquiring, Following
<1>11. RowFollows'
  BY <1>4, <1>7, <1>10 DEF RowFollows
<1> QED BY <1>3, <1>6, <1>9, <1>11 DEF Follows, CallFollows

\* An asset changes behind the acquisition's back.
LEMMA AssetAct ==
  ASSUME Follows, UNCHANGED <<build, msg, wk, call, known>>,
         \A b \in Assets : asset'[b].asked = asset[b].asked
  PROVE  Follows'
<1>1. Asked' = Asked /\ (Untouched' <=> Untouched)
  BY DEF Asked, Untouched
<1>2. Alone' /\ RowFollows' /\ \A w \in Workers : WorkerFollows(w)'
  BY <1>1 DEF Follows, Alone, At, HoldsMsg, RowFollows, WorkerFollows
<1>3. \A c \in Calls : CallFollows(c)'
  BY <1>1 DEF Follows, CallFollows
<1> QED BY <1>2, <1>3 DEF Follows

-----------------------------------------------------------------------------
(* The row and the worker.                                                 *)

LEMMA CreateFollows == ASSUME BuildInv, Follows, CreateBuild PROVE Follows'
<1>1. /\ build.st = "none" /\ build' = [build EXCEPT !.st = "queued"]
      /\ UNCHANGED <<msg, wk, call, known, asset>>
  BY DEF CreateBuild
<1>2. \A v \in Workers : wk'[v].pc = "idle" BY <1>1 DEF BuildInv, WorkerOK
<1>3. \A c \in Calls : call'[c].pc = "free" BY <1>1, <1>2, NoCalls DEF Follows
<1>4. build'.stage = build.stage /\ build'.list = build.list /\ build.st \notin EndedStatuses
  BY <1>1 DEF BuildInv, Typed, RowType, EndedStatuses
<1>5. RowFollows'
  BY <1>1, <1>4 DEF Follows, RowFollows, Untouched, Asked
<1> QED BY <1>2, <1>3, <1>5, Quiet

LEMMA PublishFollows == ASSUME BuildInv, Follows, PublishBuild PROVE Follows'
<1>1. msg.st = "none" /\ UNCHANGED <<build, wk, call, known, asset>>
  BY DEF PublishBuild
<1>2. \A v \in Workers : wk'[v].pc = "idle" BY <1>1 DEF Follows, Alone, At, HoldsMsg
<1>3. \A c \in Calls : call'[c].pc = "free" BY <1>1, <1>2, NoCalls DEF Follows
<1>4. RowFollows' BY <1>1 DEF Follows, RowFollows, Untouched, Asked
<1> QED BY <1>2, <1>3, <1>4, Quiet

LEMMA CancelFollows == ASSUME BuildInv, Follows, CancelBuild PROVE Follows'
<1>1. /\ build' = [build EXCEPT !.st = "cancelled"] /\ wk' = Outdated
      /\ UNCHANGED <<msg, call, known, asset>>
  BY DEF CancelBuild
<1>2. /\ build'.st \in EndedStatuses /\ build'.stage = build.stage /\ build'.list = build.list
  BY <1>1 DEF BuildInv, Typed, RowType, EndedStatuses
<1>3. \A v \in Workers : /\ wk'[v].pc = wk[v].pc /\ wk'[v].got = wk[v].got
                         /\ wk'[v].call = wk[v].call
  BY <1>1, OutdatedFacts DEF BuildInv
<1>4. Asked' = Asked /\ (Untouched' <=> Untouched)
  BY <1>1 DEF Asked, Untouched
<1>5. Alone'
  BY <1>1, <1>3 DEF Follows, Alone, At, HoldsMsg
<1>6. RowFollows' BY <1>2, <1>4 DEF Follows, RowFollows
<1>7. \A v \in Workers : WorkerFollows(v)'
  BY <1>2, <1>3, <1>4 DEF Follows, WorkerFollows
<1>8. \A c \in Calls : CallFollows(c)'
  BY <1>1, <1>4 DEF Follows, CallFollows
<1> QED BY <1>5, <1>6, <1>7, <1>8 DEF Follows

LEMMA ReserveFollows == ASSUME BuildInv, Follows, NEW w \in Workers, Reserve(w) PROVE Follows'
<1> DEFINE x == [IdleWorker EXCEPT !.pc = "load"]
<1>1. /\ msg.st = "ready" /\ msg' = [st |-> "leased", by |-> w] /\ wk' = [wk EXCEPT ![w] = x]
      /\ UNCHANGED <<build, call, known, asset>>
  BY DEF Reserve
<1>2. x.pc = "load" BY DEF IdleWorker
<1> HIDE DEF x
<1>3. \A v \in Workers : wk[v].pc = "idle" BY <1>1 DEF Follows, Alone, At, HoldsMsg
<1>4. wk'[w].pc = "load" /\ \A v \in Workers : v # w => wk'[v].pc = "idle"
  BY <1>1, <1>2, <1>3 DEF BuildInv, Typed
<1>5. \A c \in Calls : call'[c].pc = "free" BY <1>1, <1>3, NoCalls DEF Follows
<1>6. Alone' BY <1>1, <1>4, <1>5 DEF Alone, At, HoldsMsg
<1>7. RowFollows' BY <1>1, <1>3, <1>4 DEF Follows, RowFollows, Untouched, Asked
<1>8. \A v \in Workers : WorkerFollows(v)'
  <2> TAKE v \in Workers
  <2>1. wk'[v].pc \in {"load", "idle"} BY <1>4
  <2> QED BY <2>1 DEF WorkerFollows
<1> QED BY <1>5, <1>6, <1>7, <1>8 DEF Follows, CallFollows

LEMMA LoadFollows == ASSUME BuildInv, Follows, NEW w \in Workers, Load(w) PROVE Follows'
<1> DEFINE x == [wk[w] EXCEPT !.fresh = TRUE]
           y == IF build.st \in EndedStatuses THEN Ack(w)
                ELSE IF build.stage \in Acquiring THEN [x EXCEPT !.pc = "mark"]
                ELSE [x EXCEPT !.pc = "inspect"]
<1>1. wk[w] \in WorkerType /\ wk[w].pc = "load"
  BY DEF BuildInv, Typed, Load, At
<1>2. x \in WorkerType /\ x.fresh = TRUE
  BY <1>1 DEF WorkerType
<1>3. /\ y.pc \in {"settle", "mark", "inspect"}
      /\ y.pc \in {"mark", "inspect"} => y.fresh
      /\ y.pc = "mark" => build.st \notin EndedStatuses /\ build.stage \in Acquiring
  <2>1. Ack(w).pc = "settle" BY ReleaseFacts DEF BuildInv
  <2> HIDE DEF x
  <2>2. /\ [x EXCEPT !.pc = "mark"].pc = "mark" /\ [x EXCEPT !.pc = "mark"].fresh = TRUE
        /\ [x EXCEPT !.pc = "inspect"].pc = "inspect" /\ [x EXCEPT !.pc = "inspect"].fresh = TRUE
    BY <1>2 DEF WorkerType
  <2> QED BY <2>1, <2>2
<1>4. wk' = [wk EXCEPT ![w] = y] /\ UNCHANGED <<build, msg, call, known, asset>>
  BY DEF Load, LocalStep
<1> HIDE DEF y
<1>5. wk'[w] = y /\ \A v \in Workers : v # w => wk'[v] = wk[v]
  BY <1>4 DEF BuildInv, Typed
<1>6. \A v \in Workers : v # w => wk[v].pc = "idle"
  BY <1>1, OnlyOne DEF Follows
<1>7. build.stage \in Acquiring /\ build.st \notin EndedStatuses => Untouched
  <2>1. \A v \in Workers : wk[v].pc \notin {"wait", "save", "fail"} BY <1>1, <1>6
  <2> QED BY <2>1 DEF Follows, RowFollows
<1>8. Asked' = Asked /\ (Untouched' <=> Untouched)
  BY <1>4 DEF Asked, Untouched
<1>9. WorkerFollows(w)' BY <1>3, <1>4, <1>5, <1>7, <1>8 DEF WorkerFollows
<1>10. RowFollows' BY <1>4, <1>7, <1>8 DEF Follows, RowFollows
<1> QED BY <1>1, <1>3, <1>4, <1>5, <1>9, <1>10, WorkerAct

\* A worker that only moves on.
LEMMA GoesOn ==
  ASSUME BuildInv, Follows, NEW w \in Workers, NEW x, wk' = [wk EXCEPT ![w] = x],
         UNCHANGED <<build, msg, call, known, asset>>, x.fresh = wk[w].fresh,
         \/ wk[w].pc = "mark" /\ x.pc = "fail"
         \/ wk[w].pc = "inspect" /\ x.pc = "conclude"
  PROVE  Follows'
<1>1. wk'[w] = x /\ \A v \in Workers : v # w => wk'[v] = wk[v]
  BY DEF BuildInv, Typed
<1>2. \A v \in Workers : v # w => wk[v].pc = "idle"
  BY OnlyOne DEF Follows
<1>3. Asked' = Asked /\ (Untouched' <=> Untouched)
  BY DEF Asked, Untouched
<1>4. WorkerFollows(w) BY DEF Follows
<1>5. WorkerFollows(w)' BY <1>1, <1>4 DEF WorkerFollows
<1>6. RowFollows'
  <2>1. CASE x.pc = "fail"
    BY <1>1, <1>3, <2>1 DEF Follows, RowFollows
  <2>2. CASE wk[w].pc = "inspect"
    <3>1. \A v \in Workers : wk[v].pc \notin {"wait", "save", "fail"} BY <1>2, <2>2
    <3> QED BY <1>3, <3>1 DEF Follows, RowFollows
  <2> QED BY <2>1, <2>2
<1> QED BY <1>1, <1>5, <1>6, WorkerAct

LEMMA UnusableFollows == ASSUME BuildInv, Follows, NEW w \in Workers, UnusableRequest(w) PROVE Follows'
<1> DEFINE x == Goto(w, "fail")
<1>1. x.pc = "fail" /\ x.fresh = wk[w].fresh BY GotoFacts DEF BuildInv, BuildPlaces
<1>2. /\ wk' = [wk EXCEPT ![w] = x] /\ UNCHANGED <<build, msg, call, known, asset>>
      /\ wk[w].pc = "mark"
  BY DEF UnusableRequest, At
<1> HIDE DEF x
<1> QED BY <1>1, <1>2, GoesOn

LEMMA InspectFollows == ASSUME BuildInv, Follows, NEW w \in Workers, Inspect(w) PROVE Follows'
<1> DEFINE g == Goto(w, "conclude")
           x == [g EXCEPT !.waits = Waiting # {},
                          !.good = build.list # {} /\ Indexed = build.list]
<1>1. g \in WorkerType /\ g.pc = "conclude" /\ g.fresh = wk[w].fresh
  BY GotoFacts DEF BuildInv, BuildPlaces
<1>2. /\ wk' = [wk EXCEPT ![w] = x] /\ UNCHANGED <<build, msg, call, known, asset>>
      /\ wk[w].pc = "inspect"
  BY DEF Inspect, LocalStep, At
<1> HIDE DEF g
<1>3. x.pc = "conclude" /\ x.fresh = wk[w].fresh BY <1>1 DEF WorkerType
<1> HIDE DEF x
<1> QED BY <1>2, <1>3, GoesOn

\* A worker writes the row, or finds that it was written since.
LEMMA WriteFollows ==
  ASSUME BuildInv, Follows, NEW w \in Workers, wk[w].pc \in {"mark", "save", "fail", "conclude"},
         NEW permitted \in BOOLEAN, NEW row, NEW won, NEW lost,
         Write(w, permitted, row, won, lost), call' = call, lost.pc = "settle",
         won.pc \in {"settle", "call"},
         wk[w].pc \in {"save", "fail"} /\ wk[w].fresh => permitted,
         wk[w].fresh /\ permitted /\ build' = row /\ wk'[w] = won =>
           WorkerFollows(w)' /\ RowFollows'
  PROVE  Follows'
<1>1. UNCHANGED <<msg, call, known, asset>> BY DEF Write
<1>2. \A v \in Workers : v # w => wk[v].pc = "idle"
  BY OnlyOne DEF Follows
<1>3. CASE wk[w].fresh /\ permitted
  <2>1. build' = row /\ wk' = [Outdated EXCEPT ![w] = won]
    BY <1>3 DEF Write
  <2>2. wk'[w] = won /\ \A v \in Workers : v # w => wk'[v].pc = wk[v].pc
    BY <2>1, OutdatedFacts DEF BuildInv
  <2>3. WorkerFollows(w)' /\ RowFollows' BY <1>3, <2>1, <2>2
  <2> QED BY <1>1, <2>2, <2>3, WorkerAct
<1>4. CASE ~(wk[w].fresh /\ permitted)
  <2>1. build' = build /\ wk' = [wk EXCEPT ![w] = lost]
    BY <1>4 DEF Write
  <2>2. wk'[w] = lost /\ \A v \in Workers : v # w => wk'[v] = wk[v]
    BY <2>1 DEF BuildInv, Typed
  <2>3. WorkerFollows(w)' BY <2>2 DEF WorkerFollows
  <2>4. Asked' = Asked /\ (Untouched' <=> Untouched)
    BY <1>1 DEF Asked, Untouched
  <2>5. build.stage \in Acquiring /\ build.st \notin EndedStatuses => Untouched
    <3>1. CASE wk[w].pc \in {"save", "fail"}
      BY <1>4, <3>1 DEF Follows, WorkerFollows
    <3>2. CASE wk[w].pc = "mark"
      BY <3>2 DEF Follows, WorkerFollows
    <3>3. CASE wk[w].pc = "conclude"
      <4>1. \A v \in Workers : wk[v].pc \notin {"wait", "save", "fail"} BY <1>2, <3>3
      <4> QED BY <4>1 DEF Follows, RowFollows
    <3> QED BY <3>1, <3>2, <3>3
  <2>6. RowFollows' BY <2>1, <2>4, <2>5 DEF Follows, RowFollows
  <2> QED BY <1>1, <2>2, <2>3, <2>6, WorkerAct
<1> QED BY <1>3, <1>4

LEMMA MarkTransferFollows ==
  ASSUME BuildInv, Follows, NEW w \in Workers, MarkTransfer(w) PROVE Follows'
<1> DEFINE row == [build EXCEPT !.st = "running", !.stage = "transfer"]
           won == Goto(w, "call")
           permitted == build.st \in {"queued", "running"} /\ build.stage \in Acquiring
<1>1. row.st = "running" /\ row.stage = "transfer" /\ row.list = build.list
  BY DEF BuildInv, Typed, RowType
<1>2. won.pc = "call" /\ won.fresh = wk[w].fresh /\ Release(w).pc = "settle"
  BY GotoFacts, ReleaseFacts DEF BuildInv, BuildPlaces
<1>3. /\ Write(w, permitted, row, won, Release(w)) /\ call' = call /\ wk[w].pc = "mark"
      /\ UNCHANGED <<asset, known>> /\ permitted \in BOOLEAN
  BY DEF MarkTransfer, At, Write
<1> HIDE DEF row, won, permitted
<1>4. Untouched /\ (Untouched' <=> Untouched) /\ Asked' = Asked
  BY <1>3 DEF Follows, WorkerFollows, Untouched, Asked
<1>5. wk[w].fresh /\ build' = row /\ wk'[w] = won => WorkerFollows(w)' /\ RowFollows'
  BY <1>1, <1>2, <1>4 DEF WorkerFollows, RowFollows, Acquiring, Following
<1> QED BY <1>2, <1>3, <1>5, WriteFollows

LEMMA SaveAcquisitionFollows ==
  ASSUME BuildInv, Follows, NEW w \in Workers, SaveAcquisition(w) PROVE Follows'
<1> DEFINE row == [build EXCEPT !.stage = "analyze", !.list = wk[w].got, !.err = wk[w].err]
           permitted == build.st = "running" /\ build.stage = "transfer"
<1>1. row.stage = "analyze" /\ row.list = wk[w].got
  BY DEF BuildInv, Typed, RowType
<1>2. Release(w).pc = "settle" BY ReleaseFacts DEF BuildInv
<1>3. /\ Write(w, permitted, row, Release(w), Release(w)) /\ call' = call /\ wk[w].pc = "save"
      /\ UNCHANGED <<asset, known>> /\ permitted \in BOOLEAN
  BY DEF SaveAcquisition, At, Write
<1>4. wk[w].fresh => permitted BY <1>3 DEF BuildInv, WorkerOK
<1> HIDE DEF row, permitted
<1>5. Asked \subseteq wk[w].got /\ Asked' = Asked
  BY <1>3 DEF Follows, WorkerFollows, Asked
<1>6. build' = row /\ wk'[w] = Release(w) => WorkerFollows(w)' /\ RowFollows'
  BY <1>1, <1>2, <1>5 DEF WorkerFollows, RowFollows, Acquiring, Following
<1> QED BY <1>2, <1>3, <1>4, <1>6, WriteFollows

LEMMA FailFollows == ASSUME BuildInv, Follows, NEW w \in Workers, Fail(w) PROVE Follows'
<1> DEFINE row == [build EXCEPT !.st = "failed", !.err = TRUE]
           permitted == build.st \in {"queued", "running"}
<1>1. row.st \in EndedStatuses /\ row.stage = build.stage /\ row.list = build.list
  BY DEF BuildInv, Typed, RowType, EndedStatuses
<1>2. Release(w).pc = "settle" /\ Ack(w).pc = "settle" BY ReleaseFacts DEF BuildInv
<1>3. /\ Write(w, permitted, row, Ack(w), Release(w)) /\ call' = call /\ wk[w].pc = "fail"
      /\ UNCHANGED <<asset, known>> /\ permitted \in BOOLEAN
  BY DEF Fail, At, Write
<1>4. wk[w].fresh => permitted BY <1>3 DEF BuildInv, WorkerOK
<1> HIDE DEF row, permitted
<1>5. Asked' = Asked BY <1>3 DEF Asked
<1>6. build' = row /\ wk'[w] = Ack(w) => WorkerFollows(w)' /\ RowFollows'
  BY <1>1, <1>2, <1>5 DEF Follows, WorkerFollows, RowFollows
<1> QED BY <1>2, <1>3, <1>4, <1>6, WriteFollows

LEMMA SaveProgressFollows ==
  ASSUME BuildInv, Follows, NEW w \in Workers, SaveProgress(w) PROVE Follows'
<1> DEFINE permitted == build.st = "running" /\ build.stage = "analyze"
<1>1. Release(w).pc = "settle" BY ReleaseFacts DEF BuildInv
<1>2. /\ Write(w, permitted, build, Release(w), Release(w)) /\ call' = call
      /\ wk[w].pc = "conclude" /\ UNCHANGED <<asset, known>> /\ permitted \in BOOLEAN
  BY DEF SaveProgress, At, Write
<1>3. permitted => build.stage \notin Acquiring BY DEF Acquiring
<1> HIDE DEF permitted
<1>4. Asked' = Asked BY <1>2 DEF Asked
<1>5. permitted /\ build' = build /\ wk'[w] = Release(w) => WorkerFollows(w)' /\ RowFollows'
  BY <1>1, <1>3, <1>4 DEF Follows, WorkerFollows, RowFollows
<1> QED BY <1>1, <1>2, <1>5, WriteFollows

LEMMA FinishFollows == ASSUME BuildInv, Follows, NEW w \in Workers, FinishBuild(w) PROVE Follows'
<1> DEFINE ok == wk[w].good /\ ~build.err
           row == [build EXCEPT !.st = IF ok THEN "completed" ELSE "completed_with_errors",
                                !.stage = "index", !.err = ~ok]
           permitted == build.st = "running" /\ build.stage \in Following
<1>1. row.stage = "index" /\ row.list = build.list
  BY DEF BuildInv, Typed, RowType
<1>2. Release(w).pc = "settle" /\ Ack(w).pc = "settle" BY ReleaseFacts DEF BuildInv
<1>3. /\ Write(w, permitted, row, Ack(w), Release(w)) /\ call' = call /\ wk[w].pc = "conclude"
      /\ UNCHANGED <<asset, known>> /\ permitted \in BOOLEAN
  BY DEF FinishBuild, At, Write
<1>4. permitted => build.stage \in Following OBVIOUS
<1> HIDE DEF row, permitted
<1>5. Asked' = Asked BY <1>3 DEF Asked
<1>6. permitted /\ build' = row /\ wk'[w] = Ack(w) => WorkerFollows(w)' /\ RowFollows'
  BY <1>1, <1>2, <1>4, <1>5 DEF Follows, WorkerFollows, RowFollows, Acquiring
<1> QED BY <1>2, <1>3, <1>6, WriteFollows

LEMMA SettleFollows == ASSUME BuildInv, Follows, NEW w \in Workers, Settle(w) PROVE Follows'
<1>1. /\ wk[w].pc = "settle" /\ wk' = [wk EXCEPT ![w] = IdleWorker]
      /\ UNCHANGED <<build, call, known, asset>>
  BY DEF Settle, At
<1>2. \A v \in Workers : v # w => wk[v].pc = "idle"
  BY <1>1, OnlyOne DEF Follows
<1>3. \A v \in Workers : wk'[v].pc = "idle"
  BY <1>1, <1>2 DEF BuildInv, Typed, IdleWorker
<1>4. \A c \in Calls : call'[c].pc = "free"
  BY <1>1, <1>2, NoCalls DEF Follows
<1>5. RowFollows'
  <2>1. \A v \in Workers : wk[v].pc \notin {"wait", "save", "fail"} BY <1>1, <1>2
  <2> QED BY <1>1, <2>1 DEF Follows, RowFollows, Untouched, Asked
<1> QED BY <1>3, <1>4, <1>5, Quiet

LEMMA RequestFollows == ASSUME BuildInv, Follows, NEW w \in Workers, Request(w) PROVE Follows'
<1>0. PICK c \in Calls : c = CHOOSE y \in Free : TRUE
  BY DEF Request, Free
<1> DEFINE g == Goto(w, "wait")
           x == [g EXCEPT !.call = c]
           d == [FreeCall EXCEPT !.pc = "scan"]
<1>1. /\ call' = [call EXCEPT ![c] = d] /\ wk' = [wk EXCEPT ![w] = x] /\ wk[w].pc = "call"
      /\ UNCHANGED <<build, msg, known, asset>>
  BY <1>0 DEF Request, At
<1>2. g \in WorkerType /\ g.pc = "wait" /\ g.fresh = wk[w].fresh
  BY GotoFacts DEF BuildInv, BuildPlaces
<1>3. d.pc = "scan" /\ d.got = {} BY FreeCallFacts
<1> HIDE DEF g, d
<1>4. x.pc = "wait" /\ x.fresh = wk[w].fresh /\ x.call = c
  BY <1>2 DEF WorkerType
<1> HIDE DEF x
<1>5. /\ wk'[w] = x /\ (\A v \in Workers : v # w => wk'[v] = wk[v])
      /\ call'[c] = d /\ (\A e \in Calls : e # c => call'[e] = call[e])
  BY <1>1 DEF BuildInv, Typed
<1>6. HoldsMsg(w) /\ \A v \in Workers : v # w => wk[v].pc = "idle"
  BY <1>1, OnlyOne DEF Follows, Alone, At
<1>7. \A e \in Calls : call[e].pc = "free"
  BY <1>1, <1>6, NoCalls DEF Follows
<1>8. Asked' = {} /\ WorkerFollows(w)
  BY <1>1 DEF Follows, WorkerFollows, Untouched, Asked
<1>9. Alone'
  <2>1. \A v \in Workers : ~At(v, "idle")' => HoldsMsg(v)'
    BY <1>1, <1>5, <1>6 DEF At, HoldsMsg
  <2>2. \A e \in Calls : call'[e].pc # "free" => At(w, "wait")' /\ wk'[w].call = e
    BY <1>4, <1>5, <1>7 DEF At
  <2> QED BY <2>1, <2>2 DEF Alone, At, HoldsMsg
<1>10. RowFollows'
  <2>1. build.stage \in Acquiring BY <1>1, <1>8 DEF WorkerFollows
  <2> QED BY <1>1, <1>4, <1>5, <2>1 DEF RowFollows, Acquiring, Following
<1>11. \A v \in Workers : WorkerFollows(v)'
  <2> TAKE v \in Workers
  <2>1. CASE v = w BY <1>1, <1>4, <1>5, <1>8, <2>1 DEF WorkerFollows
  <2>2. CASE v # w
    <3>1. wk'[v].pc = "idle" BY <1>5, <1>6, <2>2
    <3> QED BY <3>1 DEF WorkerFollows
  <2> QED BY <2>1, <2>2
<1>12. \A e \in Calls : CallFollows(e)'
  <2> TAKE e \in Calls
  <2>1. CASE e = c BY <1>3, <1>5, <1>8, <2>1 DEF CallFollows
  <2>2. CASE e # c BY <1>5, <1>7, <2>2 DEF CallFollows
  <2> QED BY <2>1, <2>2
<1> QED BY <1>9, <1>10, <1>11, <1>12 DEF Follows

-----------------------------------------------------------------------------
(* The acquisition.                                                        *)

\* The acquisition goes on, and asks for nothing.
LEMMA SearchAct ==
  ASSUME BuildInv, Follows, NEW c \in Calls, call[c].pc # "free",
         NEW x \in CallType, call' = [call EXCEPT ![c] = x], x.got = call[c].got,
         UNCHANGED <<build, msg, wk>>,
         \A b \in Assets : asset'[b].asked = asset[b].asked
  PROVE  Follows'
<1>1. call'[c] = x /\ CallFollows(c) BY DEF Follows, BuildInv, Typed
<1>2. Asked' = Asked BY DEF Asked
<1>3. CallFollows(c)'
  BY <1>1, <1>2 DEF CallFollows
<1> QED BY <1>3, CallAct

LEMMA SourceFailsFollows ==
  ASSUME BuildInv, Follows, NEW c \in Calls, SourceFails(c) PROVE Follows'
<1>1. PICK again \in BOOLEAN :
        call' = [call EXCEPT ![c] = [Next1(c) EXCEPT !.errs = TRUE,
                                                   !.again = Next1(c).again \/ again]]
  BY DEF SourceFails
<1> DEFINE n == Next1(c)
           x == [n EXCEPT !.errs = TRUE, !.again = n.again \/ again]
<1>2. call[c].todo <= Len(Found) /\ call[c].pc # "free"
  BY DEF SourceFails, Searching, BuildInv, CallOK
<1>3. /\ n \in CallType /\ n.got = call[c].got
  BY <1>2, CandFacts
<1>4. call' = [call EXCEPT ![c] = x] /\ UNCHANGED <<build, msg, wk, known, asset>>
  BY <1>1 DEF SourceFails
<1> HIDE DEF n
<1>5. x \in CallType /\ x.got = call[c].got
  BY <1>3 DEF CallType
<1> HIDE DEF x
<1> QED BY <1>2, <1>4, <1>5, SearchAct

LEMMA ReplayFollows == ASSUME BuildInv, Follows, NEW c \in Calls, Replay(c) PROVE Follows'
<1> DEFINE n == asset[Cand(c)].rev
           x == [call[c] EXCEPT !.pc = "ask", !.rev = n]
<1>1. call[c].pc \in {"scan", "read"} /\ call[c].todo <= Len(Found)
  BY ImportedFacts DEF Replay
<1>2. n \in Nat BY <1>1, CandFacts DEF BuildInv, Typed, AssetType
<1>3. call' = [call EXCEPT ![c] = x] /\ UNCHANGED <<build, msg, wk, asset>> BY DEF Replay
<1> HIDE DEF n
<1>4. x \in CallType /\ x.got = call[c].got BY <1>2, AskFacts
<1> HIDE DEF x
<1> QED BY <1>1, <1>3, <1>4, SearchAct

LEMMA RejectFollows == ASSUME BuildInv, Follows, NEW c \in Calls, Reject(c) PROVE Follows'
<1>1. /\ call[c].todo <= Len(Found) /\ call[c].pc # "free"
      /\ UNCHANGED <<build, msg, wk, known, asset>>
  BY SettledFacts DEF Reject
<1>2. CASE Skip(c)
  <2>1. PICK x \in CallType : /\ call' = [call EXCEPT ![c] = x] /\ x.pc = "scan"
                             /\ x.todo = call[c].todo + 1 /\ x.got = call[c].got
    BY <1>1, <1>2, SkipFacts
  <2> QED BY <1>1, <2>1, SearchAct
<1>3. CASE call' = [call EXCEPT ![c].pc = "retire", ![c].rev = asset[Cand(c)].rev]
  <2> DEFINE x == [call[c] EXCEPT !.pc = "retire", !.rev = asset[Cand(c)].rev]
  <2>1. asset[Cand(c)].rev \in Nat BY <1>1, CandFacts DEF BuildInv, Typed, AssetType
  <2>2. x \in CallType /\ x.pc = "retire" /\ x.todo = call[c].todo /\ x.got = call[c].got
    BY <2>1 DEF BuildInv, Typed, CallType
  <2>3. call' = [call EXCEPT ![c] = x] BY <1>3 DEF BuildInv, Typed
  <2> HIDE DEF x
  <2> QED BY <1>1, <2>2, <2>3, SearchAct
<1> QED BY <1>2, <1>3 DEF Reject

LEMMA RetireFollows == ASSUME BuildInv, Follows, NEW c \in Calls, Retire(c) PROVE Follows'
<1>1. /\ call[c].pc = "retire" /\ UNCHANGED <<build, msg, wk, known, indexed>> /\ Skip(c)
      /\ asset' = [asset EXCEPT ![Cand(c)].st = "deleted", ![Cand(c)].rev = @ + 1]
  BY DEF Retire
<1>2. call[c].todo <= Len(Found) BY <1>1 DEF BuildInv, CallOK
<1>3. PICK a \in Assets : a = Cand(c) BY <1>2, CandFacts
<1>4. asset' = [asset EXCEPT ![a].st = "deleted", ![a].rev = @ + 1] BY <1>1, <1>3
<1>5. asset'[a].asked = asset[a].asked BY <1>1, <1>4, Deleted
<1>6. \A b \in Assets : asset'[b].asked = asset[b].asked
  BY <1>4, <1>5 DEF BuildInv, Typed
<1>7. PICK x \in CallType : /\ call' = [call EXCEPT ![c] = x] /\ x.pc = "scan"
                           /\ x.todo = call[c].todo + 1 /\ x.got = call[c].got
  BY <1>1, <1>2, SkipFacts
<1> QED BY <1>1, <1>6, <1>7, SearchAct

LEMMA WithdrawFollows ==
  ASSUME BuildInv, Follows, NEW a \in Assets, Withdraw(a) PROVE Follows'
<1>1. /\ asset' = [asset EXCEPT ![a].st = "deleted", ![a].rev = @ + 1]
      /\ UNCHANGED <<build, msg, wk, call, known, indexed>>
  BY DEF Withdraw
<1>2. asset'[a].asked = asset[a].asked
  BY <1>1, Deleted
<1>3. \A b \in Assets : b # a => asset'[b] = asset[b] BY <1>1 DEF BuildInv, Typed
<1>4. \A b \in Assets : asset'[b].asked = asset[b].asked
  BY <1>2, <1>3
<1> QED BY <1>1, <1>4, AssetAct

LEMMA AnalysedFollows ==
  ASSUME BuildInv, Follows, NEW a \in Assets, Analysed(a) PROVE Follows'
<1>1. PICK new \in AssetType :
        asset' = [asset EXCEPT ![a] = new] /\ new.asked = asset[a].asked
  BY Judged
<1>2. \A b \in Assets : asset'[b].asked = asset[b].asked
  BY <1>1 DEF BuildInv, Typed
<1>3. UNCHANGED <<build, msg, wk, call, known>> BY DEF Analysed
<1> QED BY <1>2, <1>3, AssetAct

LEMMA ImportFollows == ASSUME BuildInv, Follows, NEW c \in Calls, Import(c) PROVE Follows'
<1> DEFINE x == [call[c] EXCEPT !.pc = "upload"]
<1>1. call[c].pc = "scan" /\ call[c].todo <= Len(Found)
  BY DEF Import, Fresh, Replayed, Searching
<1>2. PICK a \in Assets : a = Cand(c)
  BY <1>1, CandFacts
<1>3. call' = [call EXCEPT ![c] = x] /\ UNCHANGED <<build, msg, wk, indexed>>
  BY DEF Import, BuildInv, Typed
<1>4. x \in CallType /\ x.got = call[c].got
  BY PcFacts DEF BuildInv
<1> HIDE DEF x
<1>5. \A b \in Assets : asset'[b].asked = asset[b].asked
  <2>1. CASE UNCHANGED asset BY <2>1
  <2>2. CASE Restart(a, FALSE, IF asset[a].rev = 0 THEN 1 ELSE asset[a].rev)
    <3> DEFINE n == IF asset[a].rev = 0 THEN 1 ELSE asset[a].rev
    <3>1. n \in Nat /\ n # 0 /\ asset[a].rev <= n BY DEF BuildInv, Typed, AssetType
    <3>2. Restart(a, FALSE, n)
      BY <2>2 DEF BuildInv, Typed
    <3> HIDE DEF n
    <3> QED BY <1>3, <3>1, <3>2, Restarted
  <2> QED BY <1>2, <2>1, <2>2 DEF Import
<1> QED BY <1>1, <1>3, <1>4, <1>5, SearchAct

LEMMA UploadFollows == ASSUME BuildInv, Follows, NEW c \in Calls, Upload(c) PROVE Follows'
<1> DEFINE x == [call[c] EXCEPT !.pc = "read"]
<1>1. call[c].pc = "upload" /\ call[c].todo <= Len(Found)
  BY DEF Upload, BuildInv, CallOK
<1>2. PICK a \in Assets : a = Cand(c)
  BY <1>1, CandFacts
<1>3. call' = [call EXCEPT ![c] = x] /\ UNCHANGED <<build, msg, wk, known, indexed>>
  BY DEF Upload, BuildInv, Typed
<1>4. x \in CallType /\ x.got = call[c].got
  BY PcFacts DEF BuildInv
<1> HIDE DEF x
<1>5. \A b \in Assets : asset'[b].asked = asset[b].asked
  <2>1. CASE UNCHANGED asset BY <2>1
  <2>2. CASE Restart(a, TRUE, asset[a].rev + 1)
    <3> DEFINE n == asset[a].rev + 1
    <3>1. n \in Nat /\ n # 0 /\ asset[a].rev <= n BY DEF BuildInv, Typed, AssetType
    <3>2. Restart(a, TRUE, n)
      BY <2>2 DEF BuildInv, Typed
    <3> HIDE DEF n
    <3> QED BY <1>3, <3>1, <3>2, Restarted
  <2> QED BY <1>2, <2>1, <2>2 DEF Upload
<1> QED BY <1>1, <1>3, <1>4, <1>5, SearchAct

LEMMA AskAnalysisFollows ==
  ASSUME BuildInv, Follows, NEW c \in Calls, AskAnalysis(c) PROVE Follows'
<1>1. call[c].pc = "ask" /\ UNCHANGED <<build, msg, wk, known>> /\ CallFollows(c) /\ Asks(c)
  BY DEF AskAnalysis, Asks, Follows
<1>2. call[c].todo <= Len(Found) BY <1>1 DEF BuildInv, CallOK
<1>3. PICK a \in Assets : a = Cand(c) BY <1>2, CandFacts
<1>4. /\ asset'[a].asked # 0 /\ \A b \in Assets : b # a => asset'[b] = asset[b]
  BY <1>3, AskFor
<1>5. Asked' = Asked \union {a}
  BY <1>4 DEF Asked
<1> DEFINE x == Taken(c)
<1>6. x.pc = "scan" /\ x.got = call[c].got \union {a} /\ x.todo = call[c].todo + 1
  BY <1>1, <1>3, TakenFacts
<1>7. call' = [call EXCEPT ![c] = x] BY DEF AskAnalysis
<1> HIDE DEF x
<1>8. call'[c] = x BY <1>7 DEF BuildInv, Typed
<1>9. CallFollows(c)'
  BY <1>1, <1>5, <1>6, <1>8 DEF CallFollows
<1> QED BY <1>1, <1>7, <1>9, CallAct

LEMMA FailAnswered ==
  ASSUME BuildInv, Follows, NEW c \in Calls, call[c].pc # "free", Answer(c, ToFail),
         UNCHANGED <<build, msg, known, asset>>
  PROVE  Follows'
<1> DEFINE x == [w \in Workers |-> ToFail(w)]
<1>1. x \in [Workers -> WorkerType]
      /\ \A w \in Workers : x[w].pc = "fail" /\ x[w].fresh = wk[w].fresh
  BY GotoFacts DEF BuildInv, ToFail, BuildPlaces
<1>2. call' = [call EXCEPT ![c] = FreeCall] /\ wk' = Resumed(c, x)
  BY DEF Answer, Resumed
<1> HIDE DEF x
<1>3. Knows(c, x) BY <1>1 DEF Knows
<1>4. \A w \in Workers : /\ x[w].pc = "save" => Asked \subseteq x[w].got
                         /\ x[w].pc = "settle" => Untouched
  BY <1>1
<1> QED BY <1>1, <1>2, <1>3, <1>4, AnswerAct

LEMMA StaleFollows == ASSUME BuildInv, Follows, NEW c \in Calls, Stale(c) PROVE Follows'
<1>1. call[c].pc # "free" /\ Answer(c, ToFail) /\ UNCHANGED <<build, msg, known, asset>>
  BY DEF Stale, Asks
<1> QED BY <1>1, FailAnswered

LEMMA RejectedFollows == ASSUME BuildInv, Follows, NEW c \in Calls, CommandRejected(c) PROVE Follows'
<1>1. call[c].pc # "free" /\ Answer(c, ToFail) /\ UNCHANGED <<build, msg, known, asset>>
  BY DEF CommandRejected
<1> QED BY <1>1, FailAnswered

LEMMA SearchedFollows == ASSUME BuildInv, Follows, NEW c \in Calls, Searched(c) PROVE Follows'
<1>1. /\ call[c].pc = "scan" /\ UNCHANGED <<build, msg, known, asset>> /\ CallFollows(c)
  BY DEF Searched, Follows
<1>2. CASE call[c].got = {} /\ Answer(c, Release)
  <2> DEFINE x == [w \in Workers |-> Release(w)]
  <2>1. x \in [Workers -> WorkerType]
        /\ \A w \in Workers : x[w].pc = "settle" /\ x[w].fresh = wk[w].fresh
    BY ReleaseFacts DEF BuildInv
  <2>2. call' = [call EXCEPT ![c] = FreeCall] /\ wk' = Resumed(c, x)
    BY <1>2 DEF Answer, Resumed
  <2> HIDE DEF x
  <2>3. Knows(c, x) BY <2>1 DEF Knows
  <2>4. Untouched BY <1>1, <1>2 DEF CallFollows, Untouched
  <2>5. \A w \in Workers : /\ x[w].pc = "save" => Asked \subseteq x[w].got
                           /\ x[w].pc = "settle" => Untouched
    BY <2>1, <2>4
  <2> QED BY <1>1, <2>1, <2>2, <2>3, <2>5, AnswerAct
<1>3. CASE call' = [call EXCEPT ![c].pc = "send"] /\ UNCHANGED wk
  <2> DEFINE x == [call[c] EXCEPT !.pc = "send"]
  <2>1. x \in CallType /\ x.pc = "send" /\ x.got = call[c].got /\ x.todo = call[c].todo
    BY PcFacts DEF BuildInv
  <2>2. call' = [call EXCEPT ![c] = x] BY <1>3 DEF BuildInv, Typed
  <2> HIDE DEF x
  <2> QED BY <1>1, <1>3, <2>1, <2>2, SearchAct
<1> QED BY <1>2, <1>3 DEF Searched

LEMMA EnqueueFollows == ASSUME BuildInv, Follows, NEW c \in Calls, Enqueue(c) PROVE Follows'
<1>1. PICK a \in call[c].jobs :
        /\ asset' = [asset EXCEPT ![a].sent = TRUE]
        /\ call' = [call EXCEPT ![c].jobs = call[c].jobs \ {a}]
        /\ UNCHANGED <<build, msg, wk, known>> /\ call[c].pc = "send"
  BY DEF Enqueue, BuildInv, Typed
<1> DEFINE x == [call[c] EXCEPT !.jobs = call[c].jobs \ {a}]
<1>2. x \in CallType /\ x.pc = "send" /\ x.got = call[c].got /\ x.todo = call[c].todo
  BY <1>1 DEF BuildInv, Typed, CallType
<1>3. call' = [call EXCEPT ![c] = x] BY <1>1 DEF BuildInv, Typed
<1>4. \A b \in Assets : asset'[b].asked = asset[b].asked
  BY <1>1 DEF BuildInv, Typed, AssetType
<1> HIDE DEF x
<1> QED BY <1>1, <1>2, <1>3, <1>4, SearchAct

LEMMA RespondFollows == ASSUME BuildInv, Follows, NEW c \in Calls, Respond(c) PROVE Follows'
<1> DEFINE e == call[c].errs \/ Cardinality(call[c].got) < Budget
           x == [w \in Workers |-> [Goto(w, "save") EXCEPT !.got = call[c].got, !.err = e]]
<1>1. /\ call[c].pc = "send" /\ call[c].jobs = {} /\ UNCHANGED <<build, msg, known, asset>>
      /\ call' = [call EXCEPT ![c] = FreeCall] /\ wk' = Resumed(c, x)
  BY DEF Respond, Answer, Resumed
<1>2. CallOK(c) /\ CallFollows(c) /\ call[c].got \subseteq Assets /\ e \in BOOLEAN
  BY DEF BuildInv, Follows, Typed, CallType
<1> HIDE DEF e
<1>3. \A w \in Workers : /\ x[w] \in WorkerType /\ x[w].pc = "save"
                         /\ x[w].fresh = wk[w].fresh /\ x[w].got = call[c].got
  <2> TAKE w \in Workers
  <2> DEFINE g == Goto(w, "save")
             y == [g EXCEPT !.got = call[c].got, !.err = e]
  <2>1. g \in WorkerType /\ g.pc = "save" /\ g.fresh = wk[w].fresh
    BY GotoFacts DEF BuildInv, BuildPlaces
  <2>2. x[w] = y OBVIOUS
  <2> HIDE DEF g, x
  <2>3. /\ y \in WorkerType /\ y.pc = "save" /\ y.fresh = g.fresh /\ y.got = call[c].got
    BY <1>2, <2>1 DEF WorkerType
  <2> QED BY <2>1, <2>2, <2>3
<1>4. x \in [Workers -> WorkerType] BY <1>3
<1> HIDE DEF x
<1>5. \A a \in call[c].got : asset[a].sent BY <1>1, <1>2 DEF CallOK
<1>6. IsFiniteSet(call[c].got) /\ Cardinality(call[c].got) <= Budget BY <1>2 DEF CallOK
<1>7. Knows(c, x) BY <1>3, <1>5, <1>6 DEF Knows
<1>8. Asked \subseteq call[c].got BY <1>1, <1>2 DEF CallFollows
<1>9. \A w \in Workers : /\ x[w].pc = "save" => Asked \subseteq x[w].got
                         /\ x[w].pc = "settle" => Untouched
  BY <1>3, <1>8
<1> QED BY <1>1, <1>4, <1>7, <1>9, AnswerAct

LEMMA NextUncut == BuildInv /\ Uncut /\ [BuildNext]_(buildVars) => Uncut'
<1> SUFFICES ASSUME BuildInv, Uncut, [BuildNext]_(buildVars), ~cut' PROVE Follows'
  BY DEF Uncut
<1>1. BuildInv' BY NextBuildInv
<1>2. CASE UNCHANGED buildVars
  BY <1>2 DEF buildVars, Uncut, Follows, Alone, At, HoldsMsg, RowFollows, WorkerFollows,
     CallFollows, Untouched, Asked
<1>3. CASE CreateBuild \/ PublishBuild
  <2>1. Follows BY <1>3 DEF CreateBuild, PublishBuild, Uncut
  <2> QED BY <1>3, <2>1, CreateFollows, PublishFollows
<1>4. CASE Disturb
  <2>1. \/ CancelBuild \/ (\E w \in Workers : UnusableRequest(w))
        \/ (\E c \in Calls : SourceFails(c) \/ CommandRejected(c)) \/ (\E a \in Assets : Withdraw(a))
    BY <1>4 DEF Disturb, ApiRestart, CrashWorker, Lapse, GiveUp, EnqueueFails, Interrupt
  <2>2. Follows
    BY <2>1 DEF CancelBuild, UnusableRequest, SourceFails, CommandRejected, Withdraw, Event, Uncut
  <2> QED BY <1>1, <2>1, <2>2, CancelFollows, UnusableFollows, SourceFailsFollows,
          RejectedFollows, WithdrawFollows
<1>5. CASE \E w \in Workers : WorkerStep(w)
  <2>1. PICK w \in Workers : WorkerStep(w) BY <1>5
  <2>2. Follows
    BY <2>1 DEF WorkerStep, Reserve, Load, LocalStep, MarkTransfer, Request,
       SaveAcquisition, Fail, Inspect, SaveProgress, FinishBuild, Settle, Uncut
  <2> QED BY <2>1, <2>2, ReserveFollows, LoadFollows, MarkTransferFollows, RequestFollows,
          SaveAcquisitionFollows, FailFollows, InspectFollows, SaveProgressFollows,
          FinishFollows, SettleFollows DEF WorkerStep
<1>6. CASE \E c \in Calls : CallStep(c)
  <2>1. PICK c \in Calls : CallStep(c) BY <1>6
  <2>2. Follows /\ ~AskConflicts(c)
    BY <2>1 DEF CallStep, Import, Upload, Replay, Reject, Retire, AskAnalysis, AskConflicts,
       Stale, Searched, Enqueue, Respond, Uncut
  <2> QED BY <2>1, <2>2, ImportFollows, UploadFollows, ReplayFollows, RejectFollows, RetireFollows,
          AskAnalysisFollows, StaleFollows, SearchedFollows,
          EnqueueFollows, RespondFollows DEF CallStep
<1>7. CASE \E a \in Assets : Analysed(a)
  <2>1. PICK a \in Assets : Analysed(a) BY <1>7
  <2>2. Follows BY <2>1 DEF Analysed, Uncut
  <2> QED BY <1>1, <2>1, <2>2, AnalysedFollows
<1> QED BY <1>2, <1>3, <1>4, <1>5, <1>6, <1>7 DEF BuildNext

-----------------------------------------------------------------------------
(* The delivery stays until the build has ended.                           *)

Acks(x) == x.pc = "settle" /\ x.act = "ack"

\* A delivery is acknowledged, or about to be, for a build that has ended.
Acked ==
  /\ DeliveredUntilEnded
  /\ \A w \in Workers : Acks(wk[w]) => build.st \in EndedStatuses

\* What a step may do: the end stands, and nobody else comes to acknowledge.
LEMMA StaysAcked ==
  ASSUME Acked, build.st \in EndedStatuses => build'.st \in EndedStatuses,
         msg'.st = "done" => msg.st = "done" \/ build'.st \in EndedStatuses,
         \A w \in Workers : Acks(wk'[w]) => Acks(wk[w]) \/ build'.st \in EndedStatuses
  PROVE  Acked'
BY DEF Acked, DeliveredUntilEnded

LEMMA RowsThatAck ==
  ASSUME Typed, NEW w \in Workers
  PROVE  /\ ~Acks(IdleWorker) /\ ~Acks(Release(w))
         /\ \A pc \in BuildPlaces : pc # "settle" => ~Acks(Goto(w, pc))
         /\ \A x \in WorkerType : Acks([x EXCEPT !.fresh = FALSE]) <=> Acks(x)
         /\ \A x \in WorkerType, c \in Calls \union {NoCall} :
              Acks([x EXCEPT !.call = c]) <=> Acks(x)
<1>1. ~Acks(IdleWorker) BY DEF IdleWorker, Acks
<1>2. \A pc \in BuildPlaces : Goto(w, pc) \in WorkerType /\ Goto(w, pc).pc = pc
  BY GotoFacts
<1>3. "settle" \in BuildPlaces BY DEF BuildPlaces
<1>4. Release(w).act = "release"
  <2> DEFINE x == Goto(w, "settle")
  <2>1. x \in WorkerType BY <1>2, <1>3
  <2>2. Release(w) = [x EXCEPT !.act = "release"] BY DEF Release
  <2> HIDE DEF x
  <2> QED BY <2>1, <2>2 DEF WorkerType
<1>5. \A x \in WorkerType : Acks([x EXCEPT !.fresh = FALSE]) <=> Acks(x)
  BY DEF WorkerType, Acks
<1>6. \A x \in WorkerType, c \in Calls \union {NoCall} :
        Acks([x EXCEPT !.call = c]) <=> Acks(x)
  BY DEF WorkerType, Acks
<1> QED BY <1>1, <1>2, <1>4, <1>5, <1>6 DEF Acks

\* A step of one worker that leaves the build alone.
LEMMA OneAcks ==
  ASSUME Typed, Acked, NEW w \in Workers, NEW x, wk' = [wk EXCEPT ![w] = x],
         UNCHANGED <<build, msg>>, Acks(x) => build.st \in EndedStatuses
  PROVE  Acked'
<1>1. \A v \in Workers : Acks(wk'[v]) => Acks(wk[v]) \/ build'.st \in EndedStatuses
  BY DEF Typed
<1> QED BY <1>1, StaysAcked

\* Only a write that ends the build makes its writer acknowledge.
LEMMA WriteAcks ==
  ASSUME Typed, Acked, NEW w \in Workers, NEW permitted \in BOOLEAN, NEW row, NEW won, NEW lost,
         Write(w, permitted, row, won, lost), permitted => build.st \notin EndedStatuses,
         ~Acks(lost), Acks(won) => row.st \in EndedStatuses
  PROVE  Acked'
<1>1. CASE wk[w].fresh /\ permitted
  <2>1. build' = row /\ wk' = [Outdated EXCEPT ![w] = won] /\ msg' = msg
    BY <1>1 DEF Write
  <2>2. \A v \in Workers : Acks(Outdated[v]) <=> Acks(wk[v])
    BY RowsThatAck DEF Outdated, Typed
  <2>3. \A v \in Workers : Acks(wk'[v]) => Acks(wk[v]) \/ build'.st \in EndedStatuses
    BY <2>1, <2>2, OutdatedFacts
  <2>4. msg'.st = "done" => msg.st = "done" BY <2>1
  <2>5. build.st \notin EndedStatuses BY <1>1
  <2> QED BY <2>3, <2>4, <2>5, StaysAcked
<1>2. CASE ~(wk[w].fresh /\ permitted)
  <2>1. build' = build /\ wk' = [wk EXCEPT ![w] = lost] /\ msg' = msg
    BY <1>2 DEF Write
  <2> QED BY <2>1, OneAcks
<1> QED BY <1>1, <1>2

\* An answer makes no worker acknowledge.
LEMMA AnswerAcks ==
  ASSUME Typed, Acked, NEW c, NEW x, x \in [Workers -> WorkerType], wk' = Resumed(c, x),
         UNCHANGED <<build, msg>>, \A w \in Workers : ~Acks(x[w])
  PROVE  Acked'
<1>1. \A w \in Workers : Acks(wk'[w]) => Acks(wk[w])
  BY RowsThatAck DEF Resumed
<1> QED BY <1>1, StaysAcked

LEMMA AnsweredAcks ==
  ASSUME Typed, Acked, NEW c, Answer(c, Release) \/ Answer(c, ToFail), UNCHANGED <<build, msg>>
  PROVE  Acked'
<1> DEFINE x == [w \in Workers |-> Release(w)]
           y == [w \in Workers |-> ToFail(w)]
<1>1. "fail" \in BuildPlaces BY DEF BuildPlaces
<1>2. \A w \in Workers : ToFail(w) \in WorkerType /\ ~Acks(ToFail(w))
  BY <1>1, GotoFacts, RowsThatAck DEF ToFail
<1>3. \A w \in Workers : Release(w) \in WorkerType /\ ~Acks(Release(w))
  BY ReleaseFacts, RowsThatAck
<1>4. CASE Answer(c, Release)
  <2>1. wk' = Resumed(c, x) BY <1>4 DEF Answer, Resumed
  <2>2. x \in [Workers -> WorkerType] /\ \A w \in Workers : ~Acks(x[w]) BY <1>3
  <2> HIDE DEF x
  <2> QED BY <2>1, <2>2, AnswerAcks
<1>5. CASE Answer(c, ToFail)
  <2>1. wk' = Resumed(c, y) BY <1>5 DEF Answer, Resumed
  <2>2. y \in [Workers -> WorkerType] /\ \A w \in Workers : ~Acks(y[w]) BY <1>2
  <2> HIDE DEF y
  <2> QED BY <2>1, <2>2, AnswerAcks
<1> QED BY <1>4, <1>5

LEMMA RespondAcks == ASSUME Typed, Acked, NEW c \in Calls, Respond(c) PROVE Acked'
<1> DEFINE x == [w \in Workers |-> [Goto(w, "save") EXCEPT !.got = call[c].got,
                   !.err = call[c].errs \/ Cardinality(call[c].got) < Budget]]
<1>1. wk' = Resumed(c, x) /\ UNCHANGED <<build, msg>>
  BY DEF Respond, Answer, Resumed
<1>2. \A w \in Workers : Acks(wk'[w]) => Acks(wk[w])
  <2> SUFFICES ASSUME NEW w \in Workers, wk[w].pc = "wait", wk[w].call = c
               PROVE  ~Acks(wk'[w])
    BY <1>1 DEF Resumed, At
  <2> DEFINE g == Goto(w, "save")
             e == call[c].errs \/ Cardinality(call[c].got) < Budget
  <2>1. g \in WorkerType /\ g.pc = "save" BY GotoFacts DEF BuildPlaces
  <2>2. wk'[w] = [[g EXCEPT !.got = call[c].got, !.err = e] EXCEPT !.call = NoCall]
    BY <1>1 DEF Resumed, At
  <2> HIDE DEF g, e
  <2> QED BY <2>1, <2>2 DEF WorkerType, Acks
<1> QED BY <1>1, <1>2, StaysAcked

LEMMA RestartAcks == ASSUME Typed, Acked, ApiRestart PROVE Acked'
<1>1. \A w \in Workers : Acks(wk'[w]) => Acks(wk[w])
  <2>1. \A w \in Workers : ~Acks([Release(w) EXCEPT !.call = NoCall])
    BY ReleaseFacts, RowsThatAck
  <2> QED BY <2>1 DEF ApiRestart
<1> QED BY <1>1, StaysAcked DEF ApiRestart

LEMMA WorkerAcks == ASSUME Typed, Acked, NEW w \in Workers, WorkerStep(w) PROVE Acked'
<1>1. /\ ~Acks(IdleWorker) /\ ~Acks(Release(w))
      /\ \A pc \in BuildPlaces : pc # "settle" => ~Acks(Goto(w, pc))
  BY RowsThatAck
<1>2. /\ \A pc \in BuildPlaces : pc # "settle" =>
            /\ Goto(w, pc) \in WorkerType /\ Goto(w, pc).pc = pc
      /\ {"load", "mark", "inspect", "call", "wait", "conclude"} \subseteq BuildPlaces
  BY GotoFacts DEF BuildPlaces
<1>3. CASE Reserve(w)
  <2>1. ~Acks([IdleWorker EXCEPT !.pc = "load"]) BY DEF IdleWorker, Acks
  <2>2. \A v \in Workers : Acks(wk'[v]) => Acks(wk[v]) BY <1>3, <2>1 DEF Reserve, Typed
  <2> QED BY <1>3, <2>2, StaysAcked DEF Reserve
<1>4. CASE Load(w)
  <2> DEFINE x == [wk[w] EXCEPT !.fresh = TRUE]
  <2>1. x \in WorkerType BY DEF Typed, WorkerType
  <2> HIDE DEF x
  <2>2. ~Acks([x EXCEPT !.pc = "mark"]) /\ ~Acks([x EXCEPT !.pc = "inspect"])
    BY <2>1 DEF WorkerType, Acks
  <2> QED BY <1>4, <2>2, OneAcks DEF Load, LocalStep, x
<1>5. CASE MarkTransfer(w)
  BY <1>1, <1>2, <1>5, WriteAcks DEF MarkTransfer, EndedStatuses
<1>6. CASE Request(w)
  <2>1. PICK c : wk' = [wk EXCEPT ![w] = [Goto(w, "wait") EXCEPT !.call = c]]
    BY <1>6 DEF Request
  <2> DEFINE g == Goto(w, "wait")
  <2>2. g \in WorkerType /\ g.pc = "wait" BY <1>2
  <2> HIDE DEF g
  <2>3. ~Acks([g EXCEPT !.call = c]) BY <2>2 DEF WorkerType, Acks
  <2> QED BY <1>6, <2>1, <2>3, OneAcks DEF Request, g
<1>7. CASE SaveAcquisition(w)
  BY <1>1, <1>7, WriteAcks DEF SaveAcquisition, EndedStatuses
<1>8. CASE Fail(w)
  <2> DEFINE row == [build EXCEPT !.st = "failed", !.err = TRUE]
  <2>1. row.st \in EndedStatuses BY DEF Typed, RowType, EndedStatuses
  <2>2. Write(w, build.st \in {"queued", "running"}, row, Ack(w), Release(w))
    BY <1>8 DEF Fail
  <2> DEFINE open == build.st \in {"queued", "running"}
  <2>3. open \in BOOLEAN /\ (open => build.st \notin EndedStatuses) BY DEF EndedStatuses
  <2> HIDE DEF row, open
  <2>4. Write(w, open, row, Ack(w), Release(w)) BY <2>2 DEF open
  <2> QED BY <1>1, <2>1, <2>3, <2>4, WriteAcks
<1>9. CASE Inspect(w)
  <2> DEFINE g == Goto(w, "conclude")
  <2>1. g \in WorkerType /\ g.pc = "conclude" BY <1>2
  <2> HIDE DEF g
  <2>2. \A a, b \in BOOLEAN : ~Acks([g EXCEPT !.waits = a, !.good = b])
    BY <2>1 DEF WorkerType, Acks
  <2>3. PICK a, b \in BOOLEAN : wk' = [wk EXCEPT ![w] = [g EXCEPT !.waits = a, !.good = b]]
    BY <1>9 DEF Inspect, LocalStep, g
  <2> QED BY <1>9, <2>2, <2>3, OneAcks DEF Inspect, LocalStep
<1>10. CASE SaveProgress(w)
  BY <1>1, <1>10, WriteAcks DEF SaveProgress, EndedStatuses
<1>11. CASE FinishBuild(w)
  <2> DEFINE ok == wk[w].good /\ ~build.err
             row == [build EXCEPT !.st = IF ok THEN "completed" ELSE "completed_with_errors",
                       !.stage = "index", !.err = ~ok]
  <2>1. row.st \in EndedStatuses BY DEF Typed, RowType, EndedStatuses
  <2>2. Write(w, build.st = "running" /\ build.stage \in Following, row, Ack(w), Release(w))
    BY <1>11 DEF FinishBuild
  <2> HIDE DEF row
  <2> QED BY <1>1, <2>1, <2>2, WriteAcks DEF EndedStatuses
<1>12. CASE Settle(w)
  <2>1. \A v \in Workers : Acks(wk'[v]) => Acks(wk[v])
    BY <1>1, <1>12 DEF Settle, Typed
  <2>2. msg'.st = "done" => msg.st = "done" \/ Acks(wk[w])
    BY <1>12 DEF Settle, At, Acks
  <2> QED BY <1>12, <2>1, <2>2, StaysAcked DEF Settle, Acked
<1> QED BY <1>3, <1>4, <1>5, <1>6, <1>7, <1>8, <1>9, <1>10, <1>11, <1>12 DEF WorkerStep

LEMMA DisturbAcks == ASSUME Typed, Acked, Disturb PROVE Acked'
<1>1. CASE CancelBuild
  <2>1. \A v \in Workers : Acks(Outdated[v]) <=> Acks(wk[v])
    BY RowsThatAck DEF Outdated, Typed
  <2>2. build'.st \in EndedStatuses
    BY <1>1 DEF CancelBuild, Typed, RowType, EndedStatuses
  <2> QED BY <1>1, <2>1, <2>2, StaysAcked DEF CancelBuild
<1>2. CASE ApiRestart BY <1>2, RestartAcks
<1>3. ASSUME NEW w \in Workers, UnusableRequest(w) \/ CrashWorker(w) \/ Lapse(w) \/ GiveUp(w)
      PROVE  Acked'
  <2>1. /\ ~Acks(IdleWorker) /\ ~Acks(Release(w)) /\ Release(w) \in WorkerType
        /\ ~Acks(Goto(w, "fail"))
    BY RowsThatAck, ReleaseFacts DEF BuildPlaces
  <2>2. ~Acks([Release(w) EXCEPT !.call = NoCall]) BY <2>1, RowsThatAck
  <2>3. \A v \in Workers : Acks(wk'[v]) => Acks(wk[v])
    BY <1>3, <2>1, <2>2 DEF UnusableRequest, CrashWorker, Lapse, GiveUp, Typed
  <2>4. build' = build /\ (msg'.st = "done" => msg.st = "done")
    BY <1>3 DEF UnusableRequest, CrashWorker, Lapse, GiveUp
  <2> QED BY <2>3, <2>4, StaysAcked
<1>4. ASSUME NEW c \in Calls, SourceFails(c) \/ CommandRejected(c) \/ EnqueueFails(c)
      PROVE  Acked'
  <2>1. CASE SourceFails(c) BY <2>1, StaysAcked DEF SourceFails
  <2> QED BY <1>4, <2>1, AnsweredAcks DEF CommandRejected, EnqueueFails
<1>5. ASSUME NEW a \in Assets, Withdraw(a) PROVE Acked'
  BY <1>5, StaysAcked DEF Withdraw
<1> QED BY <1>1, <1>2, <1>3, <1>4, <1>5 DEF Disturb

LEMMA NextAcked == BuildInv /\ Acked /\ [BuildNext]_(buildVars) => Acked'
<1> SUFFICES ASSUME BuildInv, Acked, [BuildNext]_(buildVars) PROVE Acked'
  OBVIOUS
<1>1. Typed BY DEF BuildInv
<1>2. CASE UNCHANGED buildVars
  BY <1>2, StaysAcked DEF buildVars
<1>3. CASE CreateBuild \/ PublishBuild
  <2>1. build'.st \in EndedStatuses \/ (build.st \notin EndedStatuses /\ UNCHANGED <<wk>>)
    BY <1>3 DEF CreateBuild, PublishBuild, EndedStatuses
  <2>2. msg'.st = "done" => msg.st = "done"
    BY <1>1, <1>3 DEF CreateBuild, PublishBuild, Typed, MsgType
  <2> QED BY <1>3, <2>1, <2>2, StaysAcked DEF CreateBuild, PublishBuild
<1>4. CASE Disturb BY <1>1, <1>4, DisturbAcks
<1>5. CASE \E w \in Workers : WorkerStep(w) BY <1>1, <1>5, WorkerAcks
<1>6. CASE \E c \in Calls : CallStep(c)
  <2>1. PICK c \in Calls : CallStep(c) BY <1>6
  <2>2. CASE UNCHANGED <<build, msg, wk>> BY <2>2, StaysAcked
  <2>3. CASE Respond(c) BY <1>1, <2>3, RespondAcks
  <2>4. CASE (Answer(c, Release) \/ Answer(c, ToFail)) /\ UNCHANGED <<build, msg>>
    BY <1>1, <2>4, AnsweredAcks
  <2> QED BY <2>1, <2>2, <2>3, <2>4 DEF CallStep, Import, Upload, Replay, Reject, Retire, AskAnalysis,
          AskConflicts, Stale, Searched, Enqueue, Respond
<1>7. CASE \E a \in Assets : Analysed(a)
  BY <1>7, StaysAcked DEF Analysed
<1> QED BY <1>2, <1>3, <1>4, <1>5, <1>6, <1>7 DEF BuildNext

-----------------------------------------------------------------------------
(* The results.                                                            *)

\* The rows, the delivery, the workers and the acquisitions keep their shape.
THEOREM BuildTypeCorrect == BuildSpec => []BuildTypeOK
<1>1. BuildInv => BuildTypeOK
  <2> SUFFICES ASSUME BuildInv PROVE BuildTypeOK OBVIOUS
  <2>1. \A c \in Calls :
          /\ call[c].pc \in {"free", "scan", "upload", "read", "ask", "retire", "send"}
          /\ call[c].todo \in 1 .. Len(Found) + 1 /\ call[c].jobs \subseteq call[c].got
    BY DEF BuildInv, Typed, CallType, CallOK, Positions
  <2> QED BY <2>1 DEF BuildInv, Typed, BuildTypeOK, RowType, MsgType, WorkerType, BuildPlaces,
      AssetOK, Urls
<1> QED BY <1>1, BuildInvariance, PTL

\* A build completes only when the analysis of every asset it follows has
\* ended, and without errors only when each of them was ready at its end.
THEOREM CompletedOnlyAfterAnalysis == BuildSpec => []CompletedAfterAnalysis
<1>1. BuildInv => CompletedAfterAnalysis
  BY DEF BuildInv, RowOK, Over, CompletedAfterAnalysis
<1> QED BY <1>1, BuildInvariance, PTL

\* The build follows only assets whose analysis was enqueued and, as long as
\* no acquisition stopped half way, every asset that was asked to be analysed,
\* within its budget.
THEOREM AcquiredIsFollowed == BuildSpec => []FollowsWhatItAcquired
<1>1. BuildInv /\ Uncut => FollowsWhatItAcquired
  <2> SUFFICES ASSUME BuildInv, Uncut PROVE FollowsWhatItAcquired OBVIOUS
  <2>1. \A a \in build.list : asset[a].sent BY DEF BuildInv, RowOK
  <2>2. Cardinality(build.list) <= Budget BY DEF BuildInv, RowOK
  <2>3. build.stage \in Following /\ ~cut =>
          \A a \in Assets : asset[a].asked # 0 => a \in build.list
    BY DEF Uncut, Follows, RowFollows, Asked
  <2> QED BY <2>1, <2>2, <2>3 DEF FollowsWhatItAcquired
<1>2. BuildSpec => [](BuildInv /\ Uncut)
  BY InitBuildInv, InitFollows, NextBuildInv, NextUncut, PTL DEF BuildSpec
<1> QED BY <1>1, <1>2, PTL

\* The delivery of a build is not acknowledged before the build has ended,
\* whichever worker lost it or the row meanwhile.
THEOREM DeliveryOutlivesBuild == BuildSpec => []DeliveredUntilEnded
<1>1. BuildInit => Acked
  BY DEF BuildInit, Acked, Acks, DeliveredUntilEnded, IdleWorker
<1>2. Acked => DeliveredUntilEnded BY DEF Acked
<1>3. BuildSpec => [](BuildInv /\ Acked)
  BY <1>1, InitBuildInv, NextBuildInv, NextAcked, PTL DEF BuildSpec
<1> QED BY <1>2, <1>3, PTL
=============================================================================
