---------------------------- MODULE BenchmarkJobs ----------------------------
(***************************************************************************)
(* The local benchmark jobs of the API: rows in SQLite, a directory for    *)
(* each attempt, and one lane (the task `_run`) which executes the oldest  *)
(* pending job: a thread acquires the media, then a child process analyses *)
(* them.  API calls and lane share one event loop, so a step lasts from    *)
(* one await to the next and needs no lock; whatever the lane knew before  *)
(* an await may be false after it.                                         *)
(*                                                                         *)
(* Times are left out: a deadline, the storage check and the retention may *)
(* strike whenever the lane looks at them.  Jobs are numbered in the order *)
(* of their creation.                                                      *)
(***************************************************************************)
EXTENDS Naturals, FiniteSets

CONSTANTS
    Notes,       \* notes that may be analysed
    MaxJobs,     \* bound on the jobs ever created
    MaxAttempts, \* 3 in the code
    Capacity,    \* max_outstanding
    MaxFaults,   \* bound on crashes, stops, dead lanes, failed cleanups, expiries
    NoNote

ASSUME BenchmarkAssumption ==
    /\ MaxJobs \in Nat \ {0}
    /\ MaxAttempts \in Nat \ {0}
    /\ Capacity \in Nat \ {0}
    /\ MaxFaults \in Nat
    /\ NoNote \notin Notes

VARIABLES
    service, \* "down", "up" or "closing"
    job,     \* the row of each job
    files,   \* the attempts whose frames and audio are on disk
    lane,    \* where `_run` stands, and the row as it read it
    faults,  \* how many of them have happened
    child    \* the acquisition thread or the worker process of the lane

vars == <<service, job, files, lane, faults, child>>

Fault == faults < MaxFaults /\ faults' = faults + 1

Jobs == 1 .. MaxJobs
Attempts == 1 .. MaxAttempts

Live == {"pending", "collecting", "analyzing"}
Retryable == {"failed", "cancelled", "interrupted"}
Published == {"ready", "partial"}

\* "none": not created yet; "gone": deleted by the retention.  `artifacts` is
\* the attempt whose files the report names; `swept` says that the retention
\* has begun to delete the files but not come as far as the row.
NoRow == [status |-> "none", note |-> NoNote, attempt |-> 1, artifacts |-> 0,
          swept |-> FALSE]

IdleLane == [pc |-> "idle", job |-> 0, attempt |-> 0]

Active(j) == job[j].status \in Live

Running == service = "up" /\ lane.pc # "dead"

-----------------------------------------------------------------------------
(* Helpers of the lane.                                                    *)

\* _finish_error on a row; the reason is left out.
Ended(row, status) == [row EXCEPT !.status = status]

\* The row as the lane writes it back: its own copy with a new status.
LaneRow(status) ==
    [job[lane.job] EXCEPT !.status = status, !.attempt = lane.attempt]

\* _finish_if_active
FailIfActive == IF Active(lane.job) THEN LaneRow("failed") ELSE job[lane.job]

\* _cleanup_temporary_source, given the row as it is stored now: an attempt
\* that failed loses its directory, any other only what was temporary.
Cleaned(row) ==
    [files EXCEPT ![lane.job] = IF row.status \in Retryable THEN @ \ {lane.attempt} ELSE @]

\* A cleanup that failed turns a complete report into a partial one.
Downgraded(row) == IF row.status \in Published THEN [row EXCEPT !.status = "partial"] ELSE row

\* The execution of the lane's job ends with its row being `row`: the
\* `finally` of _run.  Files may be held open by a reader and stay.
Finish(row) ==
    /\ \/ /\ job' = [job EXCEPT ![lane.job] = row]
          /\ files' = Cleaned(row)
          /\ UNCHANGED faults
       \/ /\ job' = [job EXCEPT ![lane.job] = Downgraded(row)]
          /\ Fault
          /\ UNCHANGED files
    /\ lane' = IdleLane
    /\ child' = "none"
    /\ UNCHANGED service

-----------------------------------------------------------------------------
(* The API.                                                                *)

LiveJobs == {j \in Jobs : Active(j)}

\* create: a key seen before and a note under analysis are answered from the
\* job there is; otherwise a new row, if the queue has room.
Create(note, j) ==
    /\ Running
    /\ \A i \in LiveJobs : job[i].note # note
    /\ Cardinality(LiveJobs) < Capacity
    /\ job[j].status = "none"
    /\ \A i \in Jobs : i < j => job[i].status # "none"
    /\ job' = [job EXCEPT ![j] = [NoRow EXCEPT !.status = "pending", !.note = note]]
    /\ UNCHANGED <<service, files, lane, child, faults>>

\* _stop_process: only a worker is killed, an acquisition is asked to stop.
Killed(c) == IF c = "working" THEN "killed" ELSE c

\* Faulty: cancel deletes the attempt's files itself.
CancelCleaning(j) ==
    /\ Running
    /\ Active(j)
    /\ job' = [job EXCEPT ![j] = Ended(@, "cancelled")]
    /\ child' = IF lane.job = j THEN Killed(child) ELSE child
    /\ files' = [files EXCEPT ![j] = @ \ {job[j].attempt}]
    /\ UNCHANGED <<service, lane, faults>>

Cancel(j) ==
    /\ Running
    /\ Active(j)
    /\ job' = [job EXCEPT ![j] = Ended(@, "cancelled")]
    /\ child' = IF lane.job = j THEN Killed(child) ELSE child
    /\ UNCHANGED <<service, files, lane, faults>>

\* Faulty: retry does not look whether the lane still has the job.
RetryWhileStopping(j) ==
    /\ Running
    /\ job[j].status \in Retryable
    /\ job[j].attempt < MaxAttempts
    /\ \A i \in LiveJobs : job[i].note # job[j].note
    /\ Cardinality(LiveJobs) < Capacity
    /\ job' = [job EXCEPT ![j].status = "pending", ![j].attempt = @ + 1,
                        ![j].artifacts = 0, ![j].swept = FALSE]
    /\ UNCHANGED <<service, files, lane, child, faults>>

\* Faulty: retry does not look for another job on the same note.
RetryBesideAnother(j) ==
    /\ Running
    /\ job[j].status \in Retryable
    /\ job[j].attempt < MaxAttempts
    /\ lane.job # j
    /\ Cardinality(LiveJobs) < Capacity
    /\ job' = [job EXCEPT ![j].status = "pending", ![j].attempt = @ + 1,
                        ![j].artifacts = 0, ![j].swept = FALSE]
    /\ UNCHANGED <<service, files, lane, child, faults>>

Retry(j) ==
    /\ Running
    /\ job[j].status \in Retryable
    /\ job[j].attempt < MaxAttempts
    /\ lane.job # j
    /\ \A i \in LiveJobs : job[i].note # job[j].note
    /\ Cardinality(LiveJobs) < Capacity
    /\ job' = [job EXCEPT ![j].status = "pending", ![j].attempt = @ + 1,
                        ![j].artifacts = 0, ![j].swept = FALSE]
    /\ UNCHANGED <<service, files, lane, child, faults>>

-----------------------------------------------------------------------------
(* The lane.                                                               *)

\* The oldest pending job.  Without room it fails at once, and no directory
\* is made; otherwise its acquisition starts.
Pick(j) ==
    /\ service = "up"
    /\ lane.pc = "idle"
    /\ job[j].status = "pending"
    /\ \A i \in Jobs : i < j => job[i].status # "pending"
    /\ \/ /\ job' = [job EXCEPT ![j] = Ended(@, "failed")]
          /\ UNCHANGED <<lane, child>>
       \/ /\ job' = [job EXCEPT ![j].status = "collecting"]
          /\ lane' = [pc |-> "acquire", job |-> j, attempt |-> job[j].attempt]
          /\ child' = "fetching"
    /\ UNCHANGED <<service, files, faults>>

\* The acquisition thread ends well or not; asked to stop, it may do either.
Fetch ==
    /\ child = "fetching"
    /\ child' \in {"fetched", "failed"}
    /\ UNCHANGED <<service, job, files, lane, faults>>

\* Out of time: the job fails now, the lane waits for the thread to end.
AcquireTimeout ==
    /\ lane.pc = "acquire"
    /\ child = "fetching"
    /\ job' = [job EXCEPT ![lane.job] = FailIfActive]
    /\ lane' = [lane EXCEPT !.pc = "drain"]
    /\ UNCHANGED <<service, files, child, faults>>

\* Over the storage budget: the thread is stopped first, then the job fails.
AcquireOverBudget ==
    /\ lane.pc = "acquire"
    /\ lane' = [lane EXCEPT !.pc = "drain"]
    /\ UNCHANGED <<service, job, files, faults, child>>

Drained ==
    /\ lane.pc = "drain"
    /\ child # "fetching"
    /\ Finish(FailIfActive)

\* The thread failed, or the lane's own look at the storage did: then the thread
\* goes on, watched by nobody, in the directory of an attempt that has failed.
AcquireFailed ==
    /\ lane.pc = "acquire"
    /\ child \in {"failed", "fetching"}
    /\ Finish(FailIfActive)

\* Media are there; the storage is checked once more, which is an await.
Acquired ==
    /\ lane.pc = "acquire"
    /\ child = "fetched"
    /\ lane' = [lane EXCEPT !.pc = "acquired"]
    /\ UNCHANGED <<service, job, files, faults, child>>

\* Too large, not a file, or evidence of another note; or the job has ended.
Unusable ==
    /\ lane.pc = "acquired"
    /\ Finish(FailIfActive)

StartAnalysis ==
    /\ lane.pc = "acquired"
    /\ Active(lane.job)
    /\ job' = [job EXCEPT ![lane.job] = LaneRow("analyzing")]
    /\ lane' = [lane EXCEPT !.pc = "spawn"]
    /\ UNCHANGED <<service, files, child, faults>>

\* create_subprocess_exec has returned: the job may have ended meanwhile.
Spawned ==
    /\ lane.pc = "spawn"
    /\ Active(lane.job)
    /\ service = "up"
    /\ child' = "working"
    /\ lane' = [lane EXCEPT !.pc = "watch"]
    /\ UNCHANGED <<service, job, files, faults>>

NotSpawned ==
    /\ lane.pc = "spawn"
    /\ Finish(FailIfActive)

\* The worker process writes frames and audio, and exits.
Work ==
    /\ child = "working"
    /\ \/ /\ child' = "worked"
          /\ files' = [files EXCEPT ![lane.job] = @ \cup {lane.attempt}]
       \/ /\ child' = "broken"
          /\ UNCHANGED files
    /\ UNCHANGED <<service, job, lane, faults>>

\* Out of time or over budget: kill, and wait for the end of the process.
Overrun ==
    /\ lane.pc = "watch"
    /\ child' = Killed(child)
    /\ lane' = [lane EXCEPT !.pc = "report"]
    /\ UNCHANGED <<service, job, files, faults>>

Report ==
    /\ lane.pc = "report"
    /\ Finish(FailIfActive)

\* The job was ended by a call or by the stopping service.
Abandon ==
    /\ lane.pc = "watch"
    /\ ~Active(lane.job) \/ service = "closing"
    /\ Finish(job[lane.job])

\* The process has exited and the job is active; the storage is checked once
\* more, which is an await.
Exited ==
    /\ lane.pc = "watch"
    /\ child \in {"worked", "broken"}
    /\ Active(lane.job)
    /\ lane' = [lane EXCEPT !.pc = "verify"]
    /\ UNCHANGED <<service, job, files, faults, child>>

\* Over budget, a failed worker, or an analysis that is missing or too long.
Rejected ==
    /\ lane.pc = "verify"
    /\ Finish(FailIfActive)

\* The report is published.  Nobody looks any more whether the job is active.
Publish ==
    /\ lane.pc = "verify"
    /\ child = "worked"
    /\ \E status \in Published :
          Finish([LaneRow(status) EXCEPT !.artifacts = lane.attempt])

\* Looking for the next job or deleting expired ones failed, or writing the
\* failure of an execution failed as well: the exception leaves _run, and every
\* later call is answered 503.
LaneDies ==
    /\ Fault
    /\ service # "down"
    /\ lane.pc # "dead"
    /\ lane' = [IdleLane EXCEPT !.pc = "dead"]
    /\ child' = "none"
    /\ UNCHANGED <<service, job, files>>

\* _cleanup_expired, which the lane runs between two executions.  A file held
\* open by a reader, or a crash, leaves the row for the next time.
Expire(j) ==
    /\ Fault
    /\ service = "up"
    /\ lane.pc = "idle"
    /\ job[j].status \in Retryable \cup Published
    /\ \/ job' = [job EXCEPT ![j] = [NoRow EXCEPT !.status = "gone"]]
       \/ job' = [job EXCEPT ![j].swept = (job[j].status \in Published)]
    /\ files' = [files EXCEPT ![j] = {}]
    /\ UNCHANGED <<service, lane, child>>

-----------------------------------------------------------------------------
(* The service.                                                            *)

\* Faulty: jobs of the process that died are left as they are.
StartForgetting ==
    /\ service = "down"
    /\ service' = "up"
    /\ UNCHANGED <<job, files, lane, child, faults>>

\* start: whatever was active is interrupted and its attempt cleaned.
Start ==
    /\ service = "down"
    /\ service' = "up"
    /\ job' = [j \in Jobs |-> IF Active(j) THEN Ended(job[j], "interrupted") ELSE job[j]]
    /\ files' = [j \in Jobs |-> IF Active(j) THEN files[j] \ {job[j].attempt} ELSE files[j]]
    /\ UNCHANGED <<lane, child, faults>>

\* close: the job in execution is interrupted, the lane is left to end.
Close ==
    /\ Fault
    /\ service = "up"
    /\ service' = "closing"
    /\ job' = [j \in Jobs |->
                 IF j = lane.job /\ Active(j) THEN Ended(job[j], "interrupted") ELSE job[j]]
    /\ child' = Killed(child)
    /\ UNCHANGED <<files, lane>>

\* The lane leaves its loop and the lock is given back; a dead lane raises.
Closed ==
    /\ service = "closing"
    /\ lane.pc \in {"idle", "dead"}
    /\ service' = "down"
    /\ lane' = IdleLane
    /\ UNCHANGED <<job, files, child, faults>>

\* A hard crash takes both children with it; files and rows stay.
Crash ==
    /\ Fault
    /\ service # "down"
    /\ service' = "down"
    /\ lane' = IdleLane
    /\ child' = "none"
    /\ UNCHANGED <<job, files>>

-----------------------------------------------------------------------------
Init ==
    /\ service = "down"
    /\ job = [j \in Jobs |-> NoRow]
    /\ files = [j \in Jobs |-> {}]
    /\ lane = IdleLane
    /\ child = "none"
    /\ faults = 0

Clients ==
    \/ \E note \in Notes, j \in Jobs : Create(note, j)
    \/ \E j \in Jobs : Cancel(j) \/ Retry(j)

LaneStep ==
    \/ \E j \in Jobs : Pick(j)
    \/ AcquireTimeout \/ AcquireOverBudget \/ Drained \/ AcquireFailed
    \/ Acquired \/ Unusable \/ StartAnalysis
    \/ Spawned \/ NotSpawned \/ Overrun \/ Report \/ Abandon
    \/ Exited \/ Rejected \/ Publish

Children == Fetch \/ Work

Operator ==
    \/ Start \/ Close \/ Closed \/ Crash \/ LaneDies
    \/ \E j \in Jobs : Expire(j)

Next == Clients \/ LaneStep \/ Children \/ Operator

-----------------------------------------------------------------------------
(* What must hold.                                                         *)

Row == [status : {"none", "gone"} \cup Live \cup Retryable \cup Published,
        note : Notes \cup {NoNote}, attempt : Attempts, artifacts : 0 .. MaxAttempts,
        swept : BOOLEAN]

Places == {"idle", "acquire", "drain", "acquired", "spawn", "watch", "report", "verify", "dead"}

TypeOK ==
    /\ service \in {"down", "up", "closing"}
    /\ job \in [Jobs -> Row]
    /\ files \in [Jobs -> SUBSET Attempts]
    /\ lane \in [pc : Places, job : 0 .. MaxJobs, attempt : 0 .. MaxAttempts]
    /\ lane.pc \notin {"idle", "dead"} => lane.job \in Jobs /\ lane.attempt \in Attempts
    /\ child \in {"none", "fetching", "fetched", "failed", "working", "worked", "broken", "killed"}
    /\ faults \in 0 .. MaxFaults

\* Repeated clicks with fresh keys, retries and restarts never put two active
\* jobs on one note, nor more jobs in the queue than it may hold.
SpentOnce ==
    /\ \A i, j \in LiveJobs : job[i].note = job[j].note => i = j
    /\ Cardinality(LiveJobs) <= Capacity

\* A published report names the files of its own attempt and they are there,
\* whatever calls came in while they were checked, until the retention.
PublishedHasFiles ==
    \A j \in Jobs :
        job[j].status \in Published /\ ~job[j].swept =>
            /\ job[j].artifacts = job[j].attempt
            /\ job[j].artifacts \in files[j]

\* The lane writes the whole row from the copy it read when it took the job;
\* never does this put back an earlier attempt, or end a later one.
OldAttemptIsSilent ==
    [][\A j \in Jobs : job'[j].status = "gone" \/ job'[j].attempt >= job[j].attempt]_vars

\* Every job that was accepted ends, unless the lane has died.
JobsEnd == \A j \in Jobs : Active(j) ~> (~Active(j) \/ lane.pc = "dead")

-----------------------------------------------------------------------------
Spec == Init /\ [][Next]_vars

\* The lane goes on, the thread and the process have deadlines, and a service
\* that was stopped is started again.
FairSpec ==
    /\ Spec
    /\ WF_vars(LaneStep)
    /\ WF_vars(Children)
    /\ WF_vars(Start)
    /\ WF_vars(Closed)
=============================================================================
