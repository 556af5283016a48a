------------------------- MODULE AdmissionContract -------------------------
(***************************************************************************)
(* What the repository port promises about the commands that create runs,  *)
(* as the in-memory repository keeps the promise: every command is one     *)
(* step under one lock.  No request is ever under way, nothing is          *)
(* published, no worker exists.  RunAdmission, with its transactions,      *)
(* waiting insertions, queues and crashes, is shown to implement it.       *)
(***************************************************************************)
EXTENDS Naturals, FiniteSets

CONSTANTS
    Keys,
    Kinds,    \* the uses of the keys to consider
    Prints,   \* fingerprints of request bodies
    MaxRuns,
    Limit,    \* active webpage videos of a workspace
    None

VARIABLES
    kind,     \* what each key is used for
    record,   \* _idempotency: the fingerprint and the runs of the response
    born,     \* runs created so far
    row,      \* _runs: status, the key that created the run, manual retry
    answers   \* history: the successful answers given

cvars == <<kind, record, born, row, answers>>

Runs == 1 .. MaxRuns
Active == {"queued", "running"}
Absent == [status |-> "none", key |-> None, reopened |-> FALSE]
Created(k) == [status |-> "queued", key |-> k, reopened |-> FALSE]

Recorded(k) == record[k].runs # {}

Answered(k, print, runs) == answers' = answers \cup {[key |-> k, print |-> print, runs |-> runs]}

\* _idempotent_replay: the recorded response, to the recorded request only.
Replay(k, print) ==
    /\ Recorded(k) /\ record[k].print = print
    /\ Answered(k, print, record[k].runs)
    /\ UNCHANGED <<kind, record, born, row>>

\* The runs, what they belong to and the response are there at once.
Persist(k, print, n) ==
    LET new == born + 1 .. born + n IN
    /\ ~Recorded(k)
    /\ born' = born + n /\ born' <= MaxRuns
    /\ row' = [r \in Runs |-> IF r \in new THEN Created(k) ELSE row[r]]
    /\ record' = [record EXCEPT ![k] = [print |-> print, runs |-> new]]
    /\ Answered(k, print, new)
    /\ UNCHANGED kind

CreateRun(k, print) == kind[k] = "run" /\ Persist(k, print, 1)

CreateFullAi(k, print) == kind[k] = "full_ai" /\ Persist(k, print, 1)

\* A batch has as many runs as items, at least one.
CreateBatch(k, print) ==
    kind[k] \in {"batch", "retry"} /\ \E n \in Runs : Persist(k, print, n)

\* The active videos that count against the limit.  A video that a manual
\* retry reopens while another is being admitted may be missed.
Counted == {r \in Runs : /\ row[r].key # None /\ kind[row[r].key] = "webpage"
                         /\ row[r].status \in Active /\ ~row[r].reopened}

CreateWebpage(k, print) ==
    kind[k] = "webpage" /\ Cardinality(Counted) < Limit /\ Persist(k, print, 1)

\* A run's status follows its steps, or its initialization fails.
Follows(r) ==
    \/ row'[r] = row[r]
    \/ /\ row[r].status \in Active
       /\ row'[r] = [row[r] EXCEPT !.status = row'[r].status]
       /\ row'[r].status \in {"running", "failed", "over"}

Progress ==
    /\ \A r \in Runs : Follows(r)
    /\ row' = [r \in Runs |-> row'[r]]
    /\ UNCHANGED <<kind, record, born, answers>>

\* retry_run_step_idempotently reopens a run that has failed.
Reopen(r) ==
    /\ row[r].status = "failed"
    /\ row' = [row EXCEPT ![r].status = "running", ![r].reopened = TRUE]
    /\ UNCHANGED <<kind, record, born, answers>>

CInit ==
    /\ kind \in Kinds
    /\ record = [k \in Keys |-> [print |-> None, runs |-> {}]]
    /\ born = 0
    /\ row = [r \in Runs |-> Absent]
    /\ answers = {}

Command(k, print) ==
    \/ Replay(k, print) \/ CreateRun(k, print) \/ CreateFullAi(k, print)
    \/ CreateBatch(k, print) \/ CreateWebpage(k, print)

CNext ==
    \/ \E k \in Keys, print \in Prints : Command(k, print)
    \/ Progress
    \/ \E r \in Runs : Reopen(r)

CSpec == CInit /\ [][CNext]_cvars
=============================================================================
