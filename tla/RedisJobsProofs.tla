---------------------------- MODULE RedisJobsProofs ----------------------------
(***************************************************************************)
(* Machine-checked facts about RedisJobs, for any number of jobs, clients  *)
(* and queues and any limits.  Each step is first reduced to what becomes  *)
(* of one job (Evolves) and of one delivery (HeldKept and its              *)
(* alternatives); the invariants and the contract follow from that alone.  *)
(***************************************************************************)
EXTENDS RedisJobs, TLAPS

Holder(c, j) == /\ held[c].job = j /\ job[j].status = "running"
                /\ held[c].token = job[j].token

\* A waiting job, or one whose lease has ended: what a claim may touch.
Loose(h) == h.status \in Waiting \/ (h.status = "running" /\ h.expires <= 0)

\* One job between its hash and the two sorted sets, with its attempts.
SoundJob(j) ==
  /\ job[j] \in JobHashes
  /\ ready[j] = IF job[j].status \in Waiting THEN job[j].available ELSE Out
  /\ leases[j] = job[j].expires
  /\ job[j].status = "running" <=> job[j].expires # Out
  /\ job[j].attempts <= MaxAttempts[j]
  /\ job[j].status = "failed" => job[j].attempts = MaxAttempts[j]
  /\ job[j].status = "running" => job[j].attempts > 0 /\ job[j].token = job[j].attempts
JobsSound == \A j \in Jobs : SoundJob(j)

\* What a fresh transaction read and checked is still so.
TxnSound(c) ==
  txn[c].op # "none" =>
    /\ txn[c].job \in Jobs
    /\ (txn[c].fresh /\ txn[c].op = "cancel")
         => job[txn[c].job].status \in Waiting \union {"running"}
    /\ (txn[c].fresh /\ txn[c].op # "cancel") => Holder(c, txn[c].job)
TxnsSound == \A c \in Clients : TxnSound(c)

HeldSound == \A c \in Clients : held[c] = Idle \/ held[c].job \in Jobs

Core == TypeOK /\ JobsSound /\ HeldSound /\ TxnsSound

---------------------------------------------------------------------------
(* Constants and types. *)

LEMMA Constants ==
  /\ Lease \in Nat /\ Lease > 0 /\ TTL \in Nat /\ TTL > 0 /\ RetryBase \in Nat
  /\ RetryMax \in Nat /\ MaxDelay \in Nat /\ Horizon \in Nat /\ TTL <= Horizon
  /\ Out \notin Int /\ NoJob \notin Jobs
  /\ MaxAttempts \in [Jobs -> Nat] /\ \A j \in Jobs : MaxAttempts[j] > 0
BY JobAssumption, TimeAssumption

LEMMA FurthestIsMax ==
  Furthest \in Nat /\ Lease <= Furthest /\ RetryMax <= Furthest /\ MaxDelay <= Furthest
<1> DEFINE S == {Lease, RetryMax, MaxDelay}
<1>1. \E t \in S : \A u \in S : t >= u
  BY Constants
<1>2. Furthest \in S /\ \A u \in S : Furthest >= u
  BY <1>1 DEF Furthest, Max
<1> QED BY <1>2, Constants

LEMMA TimesFacts ==
  /\ Times \subseteq Int /\ Past \in Int /\ Past <= 0 /\ 0 \in Times
  /\ Lease \in Times /\ Delays \subseteq Times /\ Out \notin Times
  /\ Lease \in Scores /\ Out \in Scores /\ Delays \subseteq 0..Furthest
BY Constants, FurthestIsMax DEF Times, Past, Scores, Delays

LEMMA ScoreTime == \A t \in Scores : t # Out => t \in Times /\ t \in Int
BY TimesFacts DEF Scores

LEMMA ClampTyped ==
  ASSUME NEW t \in Int, t <= Furthest PROVE Clamp(t) \in Times
BY Constants, FurthestIsMax DEF Clamp, Times, Past

LEMMA OlderTyped ==
  /\ \A t \in Times : Older(t) \in Times /\ Older(t) <= t
  /\ \A t \in Past..0 : Older(t) \in Past..0
  /\ \A t \in Scores : Older(t) \in Scores /\ (Older(t) = Out <=> t = Out)
  /\ \A t, u \in Times : t <= u => Older(t) <= Older(u)
BY Constants, FurthestIsMax DEF Older, Times, Past, Scores

---------------------------------------------------------------------------
(* The operators on hashes. *)

LEMMA NoHashTyped == NoHash \in JobHashes
BY TimesFacts, Constants DEF NoHash, JobHashes, Statuses, Tokens, Past

LEMMA QueuedFacts ==
  ASSUME NEW d \in Delays
  PROVE  /\ Queued(d) \in JobHashes
         /\ Queued(d).status = "queued"
         /\ Queued(d).attempts = 0
         /\ Queued(d).available = d
         /\ Queued(d).created = 0
         /\ Queued(d).token = 0
         /\ Queued(d).expires = Out
<1>1. /\ NoHash \in JobHashes /\ NoHash.attempts = 0 /\ NoHash.created = 0
      /\ NoHash.token = 0 /\ NoHash.expires = Out
  BY NoHashTyped DEF NoHash
<1>2. d \in Times /\ "queued" \in Statuses
  BY TimesFacts DEF Statuses, Waiting
<1> QED BY <1>1, <1>2 DEF Queued, JobHashes

LEMMA UnleasedFacts ==
  ASSUME NEW h \in JobHashes, NEW status \in Statuses
  PROVE  /\ Unleased(h, status) \in JobHashes
         /\ Unleased(h, status).status = status
         /\ Unleased(h, status).attempts = h.attempts
         /\ Unleased(h, status).available = h.available
         /\ Unleased(h, status).created = h.created
         /\ Unleased(h, status).token = 0
         /\ Unleased(h, status).expires = Out
BY TimesFacts DEF Unleased, JobHashes, Tokens

LEMMA PostponedFacts ==
  ASSUME NEW h \in JobHashes, NEW at \in Times
  PROVE  /\ Postponed(h, at) \in JobHashes
         /\ Postponed(h, at).status = "retrying"
         /\ Postponed(h, at).attempts = h.attempts
         /\ Postponed(h, at).available = at
         /\ Postponed(h, at).created = h.created
         /\ Postponed(h, at).token = 0
         /\ Postponed(h, at).expires = Out
BY TimesFacts DEF Postponed, JobHashes, Statuses, Waiting, Tokens

LEMMA ExtendedFacts ==
  ASSUME NEW h \in JobHashes, NEW until \in Times
  PROVE  /\ Extended(h, until) \in JobHashes
         /\ Extended(h, until).status = h.status
         /\ Extended(h, until).attempts = h.attempts
         /\ Extended(h, until).available = h.available
         /\ Extended(h, until).created = h.created
         /\ Extended(h, until).token = h.token
         /\ Extended(h, until).expires = until
BY TimesFacts DEF Extended, JobHashes, Scores

LEMMA LeasedFacts ==
  ASSUME NEW h \in JobHashes
  PROVE  /\ Leased(h) \in JobHashes
         /\ Leased(h).status = "running"
         /\ Leased(h).attempts = h.attempts + 1
         /\ Leased(h).available = h.available
         /\ Leased(h).created = h.created
         /\ Leased(h).token = h.attempts + 1
         /\ Leased(h).expires = Lease
<1>1. "running" \in Statuses /\ Lease \in Scores
  BY TimesFacts DEF Statuses
<1>2. h.attempts \in Nat /\ h.attempts + 1 \in Nat /\ h.attempts + 1 \in Tokens
  BY DEF JobHashes, Tokens
<1> QED BY <1>1, <1>2 DEF Leased, JobHashes

LEMMA AgedFacts ==
  ASSUME NEW h \in JobHashes
  PROVE  /\ Aged(h) \in JobHashes
         /\ Aged(h).status = h.status
         /\ Aged(h).attempts = h.attempts
         /\ Aged(h).available = Older(h.available)
         /\ Aged(h).created = Older(h.created)
         /\ Aged(h).token = h.token
         /\ Aged(h).expires = Older(h.expires)
BY OlderTyped DEF Aged, JobHashes
---------------------------------------------------------------------------
(* What a step makes of a job and of the acting client's delivery. *)

\* Job j leaves the set of leases (if it was there) with a new status.
Moves(j, status) ==
  /\ job'[j] \in JobHashes /\ job'[j].status = status
  /\ job'[j].attempts = job[j].attempts /\ job'[j].created = job[j].created
  /\ job'[j].expires = Out /\ leases'[j] = Out
  /\ ready'[j] = IF status \in Waiting THEN job'[j].available ELSE Out

Kept(j) == job'[j] = job[j] /\ ready'[j] = ready[j] /\ leases'[j] = leases[j]
Added(j) ==
  /\ job[j].status = "absent"
  /\ job'[j] \in JobHashes /\ job'[j].status = "queued" /\ job'[j].attempts = 0
  /\ job'[j].created = 0 /\ job'[j].expires = Out
  /\ ready'[j] = job'[j].available /\ leases'[j] = Out
  /\ idem[Key[j]].job = NoJob /\ idem'[Key[j]] = [job |-> j, ttl |-> TTL]
GivenUp(j)   == Loose(job[j]) /\ job[j].attempts >= MaxAttempts[j] /\ Moves(j, "failed")
TakenBack(j) == job[j].status = "running" /\ job[j].expires <= 0 /\ Moves(j, "retrying")
Cancelled(j) == job[j].status \in Waiting \union {"running"} /\ Moves(j, "cancelled")
Taken(c, j) ==
  /\ Loose(job[j]) /\ job[j].attempts < MaxAttempts[j]
  /\ job'[j] \in JobHashes /\ job'[j].status = "running"
  /\ job'[j].attempts = job[j].attempts + 1 /\ job'[j].token = job[j].attempts + 1
  /\ job'[j].created = job[j].created /\ job'[j].expires = Lease
  /\ ready'[j] = Out /\ leases'[j] = Lease
  /\ c \in Clients
  /\ held'[c].job = j /\ held'[c].token = job'[j].token /\ held'[c].until = Lease
Prolonged(c, j) ==
  /\ c \in Clients /\ Holder(c, j)
  /\ job'[j] \in JobHashes /\ job'[j].status = "running"
  /\ job'[j].attempts = job[j].attempts /\ job'[j].token = job[j].token
  /\ job'[j].created = job[j].created /\ job'[j].expires \in Times
  /\ ready'[j] = ready[j] /\ leases'[j] = job'[j].expires
  /\ held'[c].job = j /\ held'[c].token = held[c].token
  /\ held'[c].until = job'[j].expires
Settled(c, j) ==
  /\ c \in Clients /\ Holder(c, j)
  /\ \/ Moves(j, "succeeded") \/ Moves(j, "retrying")
     \/ job[j].attempts >= MaxAttempts[j] /\ Moves(j, "failed")
  /\ \/ held'[c] = Idle
     \/ held'[c].job = j /\ held'[c].token = held[c].token /\ held'[c].until = Out

Swept(j) == Kept(j) \/ GivenUp(j) \/ TakenBack(j)
Evolves(c, j) ==
  \/ Swept(j) \/ Added(j) \/ Cancelled(j)
  \/ Taken(c, j) \/ Prolonged(c, j) \/ Settled(c, j)

\* Only c's delivery changes, and only together with the job it is of.
HeldEvolves(c) ==
  /\ \A d \in Clients \ {c} : held'[d] = held[d]
  /\ c \in Clients =>
       \/ held'[c] = held[c] \/ held'[c] = Idle
       \/ \E j \in Jobs : Taken(c, j) \/ Prolonged(c, j) \/ Settled(c, j)

\* Nothing but the sweep and the scan comes with a claim; keys come with jobs.
Step(c) ==
  /\ \A j \in Jobs : Evolves(c, j)
  /\ \A j, k \in Jobs : Taken(c, k) /\ j # k => Swept(j)
  /\ HeldEvolves(c)
  /\ \A k \in Keys : idem'[k] = idem[k] \/ \E j \in Jobs : Added(j) /\ Key[j] = k

\* The next state is made of functions with the right domains, and of typed
\* deliveries, keys and transactions; what is left of TypeOK follows from Step.
NextTyped ==
  /\ job' = [j \in Jobs |-> job'[j]]
  /\ ready' = [j \in Jobs |-> ready'[j]] /\ leases' = [j \in Jobs |-> leases'[j]]
  /\ idem' \in [Keys -> [job : Jobs \union {NoJob}, ttl : 0..TTL]]
  /\ held' \in [Clients -> Deliveries] /\ txn' \in [Clients -> Transactions]
  /\ \A c \in Clients : txn'[c].delay <= Furthest

LEMMA Typed ==
  ASSUME Core
  PROVE  /\ job \in [Jobs -> JobHashes] /\ held \in [Clients -> Deliveries]
         /\ txn \in [Clients -> Transactions] /\ leases \in [Jobs -> Scores]
         /\ ready \in [Jobs -> Scores]
         /\ idem \in [Keys -> [job : Jobs \union {NoJob}, ttl : 0..TTL]]
         /\ \A c \in Clients : txn[c].delay <= Furthest
         /\ \A j \in Jobs : SoundJob(j)
BY DEF Core, TypeOK, JobsSound

LEMMA EvolvesSound ==
  ASSUME NEW j \in Jobs, NEW c, SoundJob(j), Evolves(c, j)
  PROVE  SoundJob(j)'
<1> USE Constants, TimesFacts DEF SoundJob
<1>1. CASE Kept(j) BY <1>1 DEF Kept
<1>2. CASE Added(j) BY <1>2 DEF Added, Waiting
<1>3. CASE GivenUp(j) BY <1>3 DEF GivenUp, Moves, Waiting, JobHashes
<1>4. CASE TakenBack(j) BY <1>4 DEF TakenBack, Moves, Waiting
<1>5. CASE Cancelled(j) BY <1>5 DEF Cancelled, Moves, Waiting
<1>6. CASE Taken(c, j) BY <1>6 DEF Taken, Waiting, JobHashes
<1>7. CASE Prolonged(c, j) BY <1>7 DEF Prolonged, Holder, Waiting
<1>8. CASE Settled(c, j) BY <1>8 DEF Settled, Holder, Moves, Waiting, JobHashes
<1> QED BY <1>1, <1>2, <1>3, <1>4, <1>5, <1>6, <1>7, <1>8 DEF Evolves, Swept

LEMMA StepKeepsSound ==
  ASSUME Core, NEW c, Step(c), NextTyped
  PROVE  TypeOK' /\ JobsSound' /\ HeldSound'
<1>1. \A j \in Jobs : SoundJob(j)'
  BY EvolvesSound DEF Core, JobsSound, Step
<1>2. \A j \in Jobs : job'[j] \in JobHashes /\ ready'[j] \in Scores /\ leases'[j] \in Scores
  BY <1>1, TimesFacts DEF SoundJob, JobHashes, Scores
<1>3. job' \in [Jobs -> JobHashes] /\ ready' \in [Jobs -> Scores] /\ leases' \in [Jobs -> Scores]
  BY <1>2 DEF NextTyped
<1>4. HeldSound'
  BY DEF Core, HeldSound, Step, HeldEvolves, Taken, Prolonged, Settled
<1> QED BY <1>1, <1>3, <1>4 DEF NextTyped, TypeOK, JobsSound

LEMMA TouchedFacts ==
  ASSUME Core, NEW W
  PROVE  /\ Touched(txn, W) \in [Clients -> Transactions]
         /\ \A c \in Clients :
              /\ Touched(txn, W)[c].op = txn[c].op /\ Touched(txn, W)[c].job = txn[c].job
              /\ Touched(txn, W)[c].delay = txn[c].delay
              /\ Touched(txn, W)[c].fresh => txn[c].fresh /\ txn[c].job \notin W
<1> SUFFICES ASSUME NEW c \in Clients
             PROVE  /\ Touched(txn, W)[c] \in Transactions
                    /\ Touched(txn, W)[c].op = txn[c].op /\ Touched(txn, W)[c].job = txn[c].job
                    /\ Touched(txn, W)[c].delay = txn[c].delay
                    /\ Touched(txn, W)[c].fresh => txn[c].fresh /\ txn[c].job \notin W
  BY DEF Touched
<1>1. txn[c] \in Transactions BY Typed
<1>2. Touched(txn, W)[c] = IF txn[c].job \in W THEN [txn[c] EXCEPT !.fresh = FALSE] ELSE txn[c]
  BY DEF Touched
<1> QED BY <1>1, <1>2 DEF Transactions

\* The writers of the jobs in W mark them, and c leaves its transaction.
LEMMA TouchedKeepsTxns ==
  ASSUME Core, NEW W, NEW c,
         \A j \in Jobs \ W : job'[j] = job[j],
         \A d \in Clients \ {c} : held'[d] = held[d] /\ txn'[d] = Touched(txn, W)[d],
         c \in Clients => txn'[c].op = "none"
  PROVE  TxnsSound'
<1> SUFFICES ASSUME NEW d \in Clients, d # c PROVE TxnSound(d)'
  BY DEF TxnsSound, TxnSound
<1>1. /\ txn'[d].op = txn[d].op /\ txn'[d].job = txn[d].job
      /\ txn'[d].fresh => txn[d].fresh /\ txn[d].job \notin W
  BY TouchedFacts
<1>2. TxnSound(d) BY DEF Core, TxnsSound
<1>3. held'[d] = held[d] OBVIOUS
<1>4. txn'[d].op # "none" => txn[d].job \in Jobs
      /\ (txn'[d].fresh => job'[txn[d].job] = job[txn[d].job])
  BY <1>1, <1>2 DEF TxnSound
<1> QED BY <1>1, <1>2, <1>3, <1>4 DEF TxnSound, Holder

---------------------------------------------------------------------------
(* The scripts, one by one. *)

LEMMA KeptIsNotTaken ==
  ASSUME Core, NEW j \in Jobs, NEW c, Kept(j) PROVE ~Taken(c, j)
BY Typed DEF Kept, Taken, SoundJob, JobHashes

LEMMA EnqueueStep ==
  ASSUME Core, NEW j \in Jobs, NEW d \in Delays, Enqueue(j, d)
  PROVE  Step(NoJob) /\ NextTyped /\ TxnsSound'
<1>1. SoundJob(j) /\ job[j].status = "absent" /\ leases[j] = Out /\ d \in Times
  BY Typed, TimesFacts DEF Enqueue, SoundJob, JobHashes
<1>2. job'[j] = Queued(d) /\ ready'[j] = d /\ leases'[j] = Out
  BY <1>1, Typed DEF Enqueue
<1>3. \A k \in Jobs \ {j} : Kept(k)
  BY Typed DEF Enqueue, Kept
<1>4. Added(j)
  <2>1. idem[Key[j]].job = NoJob /\ idem'[Key[j]] = [job |-> j, ttl |-> TTL]
    BY Typed DEF Enqueue, Keys
  <2> QED BY <1>1, <1>2, <2>1, QueuedFacts DEF Added
<1>5. Step(NoJob)
  <2>1. \A k \in Jobs : ~Taken(NoJob, k)
    BY <1>3, <1>4, KeptIsNotTaken, Typed DEF Added, Taken, SoundJob, JobHashes
  <2>2. \A k \in Keys : k # Key[j] => idem'[k] = idem[k]
    BY Typed DEF Enqueue
  <2> QED BY <1>3, <1>4, <2>1, <2>2 DEF Step, Evolves, Swept, HeldEvolves, Enqueue
<1>6. NextTyped
  <2>1. idem' \in [Keys -> [job : Jobs \union {NoJob}, ttl : 0..TTL]]
    BY Typed, Constants DEF Enqueue, Keys
  <2>2. job' = [k \in Jobs |-> job'[k]] /\ ready' = [k \in Jobs |-> ready'[k]]
        /\ leases' = [k \in Jobs |-> leases'[k]]
    BY Typed DEF Enqueue
  <2> QED BY <2>1, <2>2, Typed DEF Enqueue, NextTyped
<1>7. TxnsSound'
  <2> SUFFICES ASSUME NEW c \in Clients PROVE TxnSound(c)'
    BY DEF TxnsSound
  <2>1. TxnSound(c) BY DEF Core, TxnsSound
  <2>2. \A k \in Jobs : job[k].status # "absent" => job'[k] = job[k]
    BY <1>1, <1>3 DEF Kept
  <2> QED BY <2>1, <2>2 DEF TxnSound, Enqueue, Waiting, Holder
<1> QED BY <1>5, <1>6, <1>7

\* The delivery c works on, when its lease check succeeds.
LEMMA LeaseHeld ==
  ASSUME Core, NEW c \in Clients, Working(c), HoldsLease(job[held[c].job], held[c].token)
  PROVE  /\ held[c].job \in Jobs /\ Holder(c, held[c].job) /\ SoundJob(held[c].job)
         /\ job[held[c].job].expires \in Times /\ txn[c] = NoTxn
<1>1. held[c].job \in Jobs
  BY DEF Core, HeldSound, Working
<1>2. SoundJob(held[c].job) BY <1>1, Typed
<1> QED BY <1>1, <1>2 DEF HoldsLease, Holder, SoundJob, JobHashes, Scores, Working

\* c writes the hash of job j alone and leaves its transaction, if it was in one.
LEMMA OneJobStep ==
  ASSUME Core, NEW c \in Clients, NEW j \in Jobs,
         Evolves(c, j), HeldEvolves(c),
         \A k \in Jobs \ {j} : Kept(k),
         job' = [k \in Jobs |-> job'[k]], ready' = [k \in Jobs |-> ready'[k]],
         leases' = [k \in Jobs |-> leases'[k]],
         held' \in [Clients -> Deliveries], idem' = idem,
         txn' \in [Clients -> Transactions], txn'[c] = NoTxn,
         \A d \in Clients \ {c} : txn'[d] = Touched(txn, {j})[d]
  PROVE  Step(c) /\ NextTyped /\ TxnsSound'
<1>1. Step(c) BY KeptIsNotTaken DEF Step, Evolves, Swept
<1>2. \A d \in Clients : txn'[d].delay <= Furthest
  BY Typed, TouchedFacts, FurthestIsMax DEF NoTxn
<1>3. NextTyped BY <1>2, Typed DEF NextTyped
<1>4. TxnsSound'
  <2>1. \A k \in Jobs \ {j} : job'[k] = job[k] BY DEF Kept
  <2>2. txn'[c].op = "none" BY DEF NoTxn
  <2>3. \A d \in Clients \ {c} : held'[d] = held[d] BY DEF HeldEvolves
  <2> QED BY <2>1, <2>2, <2>3, TouchedKeepsTxns
<1> QED BY <1>1, <1>3, <1>4

\* Answered, for a client whose job leaves its lease.
LEMMA AnsweredFacts ==
  ASSUME Core, NEW c \in Clients, held[c].job \in Jobs, Answered(c)
  PROVE  /\ held' \in [Clients -> Deliveries]
         /\ \A d \in Clients \ {c} : held'[d] = held[d]
         /\ \/ held'[c] = Idle
            \/ /\ held'[c].job = held[c].job /\ held'[c].token = held[c].token
               /\ held'[c].until = Out
<1>1. Idle \in Deliveries /\ held[c] \in Deliveries
  BY Typed, TimesFacts DEF Idle, Deliveries, Tokens
<1>2. [held[c] EXCEPT !.until = Out] \in Deliveries
  BY <1>1, TimesFacts DEF Deliveries
<1>3. CASE held' = [held EXCEPT ![c] = Idle]
  BY <1>1, <1>3, Typed
<1>4. CASE held' = [held EXCEPT ![c].until = Out]
  <2>1. held' = [held EXCEPT ![c] = [held[c] EXCEPT !.until = Out]]
    BY <1>4, Typed
  <2> QED BY <1>1, <1>2, <2>1, Typed DEF Deliveries
<1> QED BY <1>3, <1>4 DEF Answered

LEMMA NoTxnUntouched ==
  ASSUME Core, NEW c \in Clients, NEW W \in SUBSET Jobs, txn[c] = NoTxn
  PROVE  Touched(txn, W)[c] = NoTxn
BY Constants DEF Touched, NoTxn

\* A settlement by c of the job it works on.
LEMMA SettlementStep ==
  ASSUME Core, NEW c \in Clients, NEW j \in Jobs, j = held[c].job, Holder(c, j),
         \/ Moves(j, "succeeded") \/ Moves(j, "retrying")
         \/ job[j].attempts >= MaxAttempts[j] /\ Moves(j, "failed"),
         \A k \in Jobs \ {j} : Kept(k),
         job' = [k \in Jobs |-> job'[k]], ready' = [k \in Jobs |-> ready'[k]],
         leases' = [k \in Jobs |-> leases'[k]],
         Answered(c), idem' = idem,
         txn' \in [Clients -> Transactions], txn'[c] = NoTxn,
         \A d \in Clients \ {c} : txn'[d] = Touched(txn, {j})[d]
  PROVE  Step(c) /\ NextTyped /\ TxnsSound'
<1>1. Settled(c, j)
  BY AnsweredFacts DEF Settled
<1>2. Evolves(c, j) /\ HeldEvolves(c)
  BY <1>1, AnsweredFacts DEF Evolves, Swept, HeldEvolves
<1> QED BY <1>2, AnsweredFacts, OneJobStep

LEMMA AckStep ==
  ASSUME Core, NEW c \in Clients, Ack(c)
  PROVE  Step(c) /\ NextTyped /\ TxnsSound'
<1> DEFINE j == held[c].job
<1>1. j \in Jobs /\ Holder(c, j) /\ SoundJob(j) /\ txn[c] = NoTxn
  BY LeaseHeld DEF Ack
<1>2. job'[j] = Unleased(job[j], "succeeded") /\ ready'[j] = ready[j] /\ leases'[j] = Out
  BY <1>1, Typed DEF Ack
<1>3. Moves(j, "succeeded")
  BY <1>1, <1>2, UnleasedFacts, TimesFacts
  DEF Moves, SoundJob, Statuses, Terminal, Waiting, Holder
<1>4. \A k \in Jobs \ {j} : Kept(k)
  BY Typed DEF Ack, Kept
<1>5. job' = [k \in Jobs |-> job'[k]] /\ ready' = [k \in Jobs |-> ready'[k]]
      /\ leases' = [k \in Jobs |-> leases'[k]]
  BY Typed DEF Ack
<1>6. txn' \in [Clients -> Transactions] /\ txn'[c] = NoTxn
      /\ \A d \in Clients \ {c} : txn'[d] = Touched(txn, {j})[d]
  BY <1>1, TouchedFacts, NoTxnUntouched DEF Ack
<1>7. Answered(c) /\ idem' = idem BY DEF Ack
<1> HIDE DEF j
<1> QED BY <1>1, <1>3, <1>4, <1>5, <1>6, <1>7, SettlementStep DEF j

LEMMA ReleaseStep ==
  ASSUME Core, NEW c \in Clients, NEW delay \in Delays, Release(c, delay)
  PROVE  Step(c) /\ NextTyped /\ TxnsSound'
<1> DEFINE j == held[c].job
<1>1. j \in Jobs /\ Holder(c, j) /\ SoundJob(j) /\ txn[c] = NoTxn
  BY LeaseHeld DEF Release
<1>2. job'[j] = Postponed(job[j], delay) /\ ready'[j] = delay /\ leases'[j] = Out
  BY <1>1, Typed DEF Release
<1>3. Moves(j, "retrying")
  <2>1. job[j] \in JobHashes /\ delay \in Times
    BY <1>1, TimesFacts DEF SoundJob
  <2> HIDE DEF j
  <2> QED BY <1>2, <2>1, PostponedFacts DEF Moves, Waiting
<1>4. \A k \in Jobs \ {j} : Kept(k)
  BY Typed DEF Release, Kept
<1>5. job' = [k \in Jobs |-> job'[k]] /\ ready' = [k \in Jobs |-> ready'[k]]
      /\ leases' = [k \in Jobs |-> leases'[k]]
  BY Typed DEF Release
<1>6. txn' \in [Clients -> Transactions] /\ txn'[c] = NoTxn
      /\ \A d \in Clients \ {c} : txn'[d] = Touched(txn, {j})[d]
  BY <1>1, TouchedFacts, NoTxnUntouched DEF Release
<1>7. Answered(c) /\ idem' = idem BY DEF Release
<1> HIDE DEF j
<1> QED BY <1>1, <1>3, <1>4, <1>5, <1>6, <1>7, SettlementStep DEF j

\* c moves the end of its lease to `until', as it knows.
LEMMA ProlongedStep ==
  ASSUME Core, NEW c \in Clients, NEW j \in Jobs, j = held[c].job, Holder(c, j),
         NEW until \in Times,
         job' = [job EXCEPT ![j] = Extended(job[j], until)],
         leases' = [leases EXCEPT ![j] = until],
         held' = [held EXCEPT ![c].until = until],
         ready' = ready, idem' = idem,
         txn' \in [Clients -> Transactions], txn'[c] = NoTxn,
         \A d \in Clients \ {c} : txn'[d] = Touched(txn, {j})[d]
  PROVE  Step(c) /\ NextTyped /\ TxnsSound'
<1>1. held[c] \in Deliveries /\ SoundJob(j) BY Typed
<1>2. [held[c] EXCEPT !.until = until] \in Deliveries
  BY <1>1 DEF Deliveries, Scores
<1>3. held' = [held EXCEPT ![c] = [held[c] EXCEPT !.until = until]]
  BY Typed
<1>4. held' \in [Clients -> Deliveries]
  BY <1>2, <1>3, Typed
<1>5. \A d \in Clients \ {c} : held'[d] = held[d]
  BY <1>3, Typed
<1>6. held'[c].job = j /\ held'[c].token = held[c].token /\ held'[c].until = until
  BY <1>1, <1>3, Typed DEF Deliveries
<1>7. job'[j] = Extended(job[j], until) /\ ready'[j] = ready[j] /\ leases'[j] = until
  BY Typed
<1>8. Prolonged(c, j)
  BY <1>1, <1>6, <1>7, ExtendedFacts DEF Prolonged, SoundJob, Holder
<1>9. Evolves(c, j) /\ HeldEvolves(c)
  BY <1>5, <1>8 DEF Evolves, Swept, HeldEvolves
<1>10. \A k \in Jobs \ {j} : Kept(k)
  BY Typed DEF Kept
<1>11. job' = [k \in Jobs |-> job'[k]] /\ ready' = [k \in Jobs |-> ready'[k]]
       /\ leases' = [k \in Jobs |-> leases'[k]]
  BY Typed
<1> QED BY <1>4, <1>9, <1>10, <1>11, OneJobStep

LEMMA RenewStep ==
  ASSUME Core, NEW c \in Clients, Renew(c)
  PROVE  Step(c) /\ NextTyped /\ TxnsSound'
<1> DEFINE j == held[c].job
<1>1. j \in Jobs /\ Holder(c, j) /\ txn[c] = NoTxn
  BY LeaseHeld DEF Renew
<1>2. txn' \in [Clients -> Transactions] /\ txn'[c] = NoTxn
      /\ \A d \in Clients \ {c} : txn'[d] = Touched(txn, {j})[d]
  BY <1>1, TouchedFacts, NoTxnUntouched DEF Renew
<1>3. /\ job' = [job EXCEPT ![j] = Extended(job[j], Lease)]
      /\ leases' = [leases EXCEPT ![j] = Lease]
      /\ held' = [held EXCEPT ![c].until = Lease]
      /\ ready' = ready /\ idem' = idem
  BY DEF Renew
<1> HIDE DEF j
<1> QED BY <1>1, <1>2, <1>3, TimesFacts, ProlongedStep DEF j

\* A step that writes no job and no key.
LEMMA LocalStep ==
  ASSUME Core, NEW c \in Clients, UNCHANGED <<job, ready, leases, idem>>,
         held' \in [Clients -> Deliveries], held'[c] = held[c] \/ held'[c] = Idle,
         \A d \in Clients \ {c} : held'[d] = held[d] /\ txn'[d] = txn[d],
         txn' \in [Clients -> Transactions], txn'[c].delay <= Furthest, TxnSound(c)'
  PROVE  Step(c) /\ NextTyped /\ TxnsSound'
<1>1. Step(c) BY KeptIsNotTaken DEF Step, Evolves, Swept, Kept, HeldEvolves
<1>2. NextTyped
  BY Typed DEF NextTyped
<1>3. TxnsSound'
  <2> SUFFICES ASSUME NEW d \in Clients, d # c PROVE TxnSound(d)'
    BY DEF TxnsSound
  <2>1. TxnSound(d) BY DEF Core, TxnsSound
  <2> QED BY <2>1 DEF TxnSound, Holder
<1> QED BY <1>1, <1>2, <1>3

LEMMA DropStep ==
  ASSUME Core, NEW c \in Clients, Drop(c)
  PROVE  Step(c) /\ NextTyped /\ TxnsSound'
<1>1. Idle \in Deliveries /\ NoTxn \in Transactions /\ NoTxn.delay <= Furthest
  BY TimesFacts, Constants, FurthestIsMax
  DEF Idle, Deliveries, Tokens, NoTxn, Transactions, LagBound
<1>2. held' \in [Clients -> Deliveries] /\ txn' \in [Clients -> Transactions]
      /\ held'[c] = Idle /\ txn'[c] = NoTxn
      /\ \A d \in Clients \ {c} : held'[d] = held[d] /\ txn'[d] = txn[d]
  BY <1>1, Typed DEF Drop
<1>3. TxnSound(c)' BY <1>2 DEF TxnSound, NoTxn
<1> QED BY <1>1, <1>2, <1>3, LocalStep DEF Drop

---------------------------------------------------------------------------
(* The WATCH methods. *)

\* What a method checks on the values it reads makes its transaction sound.
LEMMA MayBeginFacts ==
  ASSUME Core, NEW c \in Clients, NEW op, NEW j \in Jobs, MayBegin(c, op, j)
  PROVE  /\ op = "cancel" => job[j].status \in Waiting \union {"running"}
         /\ op # "cancel" => Holder(c, j)
BY Typed DEF MayBegin, HoldsLease, Holder, SoundJob, JobHashes, Statuses, Waiting

LEMMA BeginStep ==
  ASSUME Core, NEW c \in Clients,
         NEW op \in {"renew", "acknowledge", "retry", "cancel"}, NEW j \in Jobs,
         NEW delay \in Int, delay <= Furthest, Begin(c, op, j, delay)
  PROVE  Step(c) /\ NextTyped /\ TxnsSound'
<1> DEFINE t == [op |-> op, job |-> j, lag |-> 0, delay |-> delay, fresh |-> TRUE]
<1>1. t \in Transactions
  BY Constants DEF Transactions, LagBound
<1>2. txn' \in [Clients -> Transactions] /\ txn'[c] = t /\ held' = held
      /\ \A d \in Clients \ {c} : txn'[d] = txn[d]
  BY <1>1, Typed DEF Begin
<1>3. TxnSound(c)'
  BY <1>2, MayBeginFacts DEF Begin, TxnSound, Holder
<1>4. txn'[c].delay <= Furthest BY <1>2
<1> QED BY <1>2, <1>3, <1>4, Typed, LocalStep DEF Begin

LEMMA BackoffTyped ==
  ASSUME NEW n \in Nat, n > 0 PROVE Backoff(n) \in Int /\ Backoff(n) <= Furthest
<1>1. 2^(n - 1) \in Int OBVIOUS
<1>2. RetryBase * 2^(n - 1) \in Int BY <1>1, Constants
<1> QED BY <1>2, Constants, FurthestIsMax DEF Backoff

LEMMA BeginSomeStep ==
  ASSUME Core, NEW c \in Clients, BeginSome(c)
  PROVE  Step(c) /\ NextTyped /\ TxnsSound'
<1>1. CASE \E j \in Jobs : Begin(c, "cancel", j, 0)
  BY <1>1, FurthestIsMax, BeginStep
<1>2. CASE /\ Working(c)
           /\ \E op \in {"renew", "acknowledge"} : Begin(c, op, held[c].job, 0)
  BY <1>2, FurthestIsMax, BeginStep DEF Core, HeldSound, Working
<1>3. CASE /\ Working(c)
           /\ \E d \in RetryDelays(c) : Begin(c, "retry", held[c].job, d)
  <2>1. PICK d \in RetryDelays(c) : Begin(c, "retry", held[c].job, d)
    BY <1>3
  <2>2. held[c].job \in Jobs /\ Holder(c, held[c].job)
    BY <1>3, <2>1, MayBeginFacts DEF Begin, Core, HeldSound, Working
  <2>3. job[held[c].job].attempts \in Nat /\ job[held[c].job].attempts > 0
    BY <2>2, Typed DEF SoundJob, Holder, JobHashes
  <2>4. d \in Int /\ d <= Furthest
    <3>1. CASE d \in Delays
      BY <3>1, Constants, FurthestIsMax DEF Delays
    <3>2. CASE d = Backoff(job[held[c].job].attempts)
      BY <2>3, <3>2, BackoffTyped
    <3> QED BY <3>1, <3>2 DEF RetryDelays
  <2> QED BY <2>1, <2>2, <2>4, BeginStep
<1> QED BY <1>1, <1>2, <1>3 DEF BeginSome

LEMMA ConflictStep ==
  ASSUME Core, NEW c \in Clients, Conflict(c)
  PROVE  Step(c) /\ NextTyped /\ TxnsSound'
<1> DEFINE t == txn[c]
           again == [t EXCEPT !.lag = 0, !.fresh = TRUE]
<1>1. t \in Transactions /\ t.delay <= Furthest /\ t.job \in Jobs
  BY Typed DEF Conflict, Core, TxnsSound, TxnSound
<1>2. again \in Transactions /\ again.delay <= Furthest /\ again.op = t.op
      /\ again.job = t.job
  <2>1. 0 \in 0..LagBound BY Constants DEF LagBound
  <2> HIDE DEF t
  <2> QED BY <1>1, <2>1 DEF Transactions
<1>3. NoTxn \in Transactions /\ NoTxn.delay <= Furthest
  BY Constants, FurthestIsMax DEF NoTxn, Transactions, LagBound
<1>4. txn'[c] = (IF MayBegin(c, t.op, t.job) THEN again ELSE NoTxn)
      /\ \A d \in Clients \ {c} : txn'[d] = txn[d]
  BY Typed DEF Conflict
<1>5. txn' \in [Clients -> Transactions] /\ txn'[c].delay <= Furthest
  <2>1. txn'[c] \in Transactions /\ txn'[c].delay <= Furthest
    BY <1>2, <1>3, <1>4
  <2> HIDE DEF t, again
  <2> QED BY <1>4, <2>1, Typed DEF Conflict
<1>6. TxnSound(c)'
  <2>1. CASE MayBegin(c, t.op, t.job)
    BY <1>1, <1>2, <1>4, <2>1, MayBeginFacts DEF Conflict, TxnSound, Holder
  <2>2. CASE ~MayBegin(c, t.op, t.job)
    BY <1>4, <2>2 DEF TxnSound, NoTxn
  <2> QED BY <2>1, <2>2
<1> QED BY <1>4, <1>5, <1>6, Typed, LocalStep DEF Conflict

LEMMA CommitStep ==
  ASSUME Core, NEW c \in Clients, Commit(c)
  PROVE  Step(c) /\ NextTyped /\ TxnsSound'
<1> DEFINE t == txn[c]
           j == t.job
           h == job[j]
           until == Clamp(Lease - t.lag)
           at == Clamp(t.delay - t.lag)
<1>1. t \in Transactions /\ t.delay <= Furthest /\ j \in Jobs
      /\ (t.op = "cancel" => h.status \in Waiting \union {"running"})
      /\ (t.op # "cancel" => Holder(c, j))
  BY Typed DEF Commit, Core, TxnsSound, TxnSound
<1>2. SoundJob(j) /\ h \in JobHashes
  BY <1>1, Typed DEF SoundJob
<1>3. until \in Times /\ at \in Times
  <2>1. t.lag \in Nat /\ t.delay \in Int
    BY <1>1, Constants DEF Transactions, LagBound
  <2>2. Lease - t.lag \in Int /\ Lease - t.lag <= Furthest
        /\ t.delay - t.lag \in Int /\ t.delay - t.lag <= Furthest
    BY <1>1, <2>1, Constants, FurthestIsMax
  <2> QED BY <2>2, ClampTyped
<1>4. txn' \in [Clients -> Transactions] /\ txn'[c] = NoTxn
      /\ \A d \in Clients \ {c} : txn'[d] = Touched(txn, {j})[d]
  <2>1. NoTxn \in Transactions
    BY Constants DEF NoTxn, Transactions, LagBound
  <2> QED BY <2>1, TouchedFacts DEF Commit
<1>5. idem' = idem BY DEF Commit
<1>6. ASSUME NEW x, NEW z, NEW l, job' = [job EXCEPT ![j] = x],
             ready' = ready \/ ready' = [ready EXCEPT ![j] = z],
             leases' = [leases EXCEPT ![j] = l]
      PROVE  /\ job'[j] = x /\ leases'[j] = l
             /\ \A k \in Jobs \ {j} : Kept(k)
             /\ job' = [k \in Jobs |-> job'[k]] /\ ready' = [k \in Jobs |-> ready'[k]]
             /\ leases' = [k \in Jobs |-> leases'[k]]
  <2> HIDE DEF j
  <2> QED BY <1>1, <1>6, Typed DEF Kept
<1>7. ASSUME Holder(c, j), Answered(c), leases' = [leases EXCEPT ![j] = Out],
             \/ /\ job' = [job EXCEPT ![j] = Unleased(h, "succeeded")]
                /\ ready' = ready
             \/ /\ job' = [job EXCEPT ![j] = Unleased(h, "failed")]
                /\ h.attempts >= MaxAttempts[j] /\ ready' = ready
             \/ /\ job' = [job EXCEPT ![j] = Postponed(h, at)]
                /\ ready' = [ready EXCEPT ![j] = at]
      PROVE  Step(c) /\ NextTyped /\ TxnsSound'
  <2>1. ready[j] = Out
    BY <1>2, <1>7 DEF SoundJob, Holder, Waiting
  <2>2. ready'[j] = ready[j] \/ ready'[j] = at
    BY <1>1, <1>7, Typed
  <2>3. \/ Moves(j, "succeeded") \/ Moves(j, "retrying")
        \/ job[j].attempts >= MaxAttempts[j] /\ Moves(j, "failed")
    <3> HIDE DEF j, at
    <3>1. CASE /\ job' = [job EXCEPT ![j] = Unleased(h, "succeeded")] /\ ready' = ready
      <4>1. job'[j] = Unleased(h, "succeeded") /\ leases'[j] = Out
        BY <1>6, <1>7, <3>1
      <4>2. Moves(j, "succeeded")
        BY <1>2, <2>1, <3>1, <4>1, UnleasedFacts DEF Moves, Statuses, Terminal, Waiting
      <4> QED BY <4>2
    <3>2. CASE /\ job' = [job EXCEPT ![j] = Unleased(h, "failed")]
               /\ h.attempts >= MaxAttempts[j] /\ ready' = ready
      <4>1. job'[j] = Unleased(h, "failed") /\ leases'[j] = Out
        BY <1>6, <1>7, <3>2
      <4>2. Moves(j, "failed")
        BY <1>2, <2>1, <3>2, <4>1, UnleasedFacts DEF Moves, Statuses, Terminal, Waiting
      <4> QED BY <3>2, <4>2
    <3>3. CASE /\ job' = [job EXCEPT ![j] = Postponed(h, at)]
               /\ ready' = [ready EXCEPT ![j] = at]
      <4>1. ready'[j] = at BY <1>1, <3>3, Typed
      <4>2. job'[j] = Postponed(h, at) /\ leases'[j] = Out
        BY <1>6, <1>7, <3>3
      <4>3. Moves(j, "retrying")
        BY <1>2, <1>3, <4>1, <4>2, PostponedFacts DEF Moves, Waiting
      <4> QED BY <4>3
    <3> QED BY <1>7, <3>1, <3>2, <3>3
  <2>4. \A k \in Jobs \ {j} : Kept(k)
    BY <1>6, <1>7
  <2>5. job' = [k \in Jobs |-> job'[k]] /\ ready' = [k \in Jobs |-> ready'[k]]
        /\ leases' = [k \in Jobs |-> leases'[k]]
    BY <1>6, <1>7
  <2>6. j = held[c].job BY <1>7 DEF Holder
  <2> HIDE DEF j, h, at
  <2> QED BY <1>1, <1>4, <1>5, <1>7, <2>3, <2>4, <2>5, <2>6, SettlementStep
<1>8. CASE /\ t.op = "renew"
           /\ job' = [job EXCEPT ![j] = Extended(h, until)]
           /\ leases' = [leases EXCEPT ![j] = until]
           /\ held' = [held EXCEPT ![c].until = until]
           /\ ready' = ready
  <2>1. Holder(c, j) /\ j = held[c].job BY <1>1, <1>8 DEF Holder
  <2> HIDE DEF j, until
  <2> QED BY <1>1, <1>3, <1>4, <1>5, <1>8, <2>1, ProlongedStep DEF h
<1>9. CASE /\ t.op = "cancel"
           /\ job' = [job EXCEPT ![j] = Unleased(h, "cancelled")]
           /\ leases' = [leases EXCEPT ![j] = Out] /\ ready' = [ready EXCEPT ![j] = Out]
           /\ held' = held
  <2>1. job'[j] = Unleased(h, "cancelled") /\ leases'[j] = Out /\ ready'[j] = Out
    BY <1>1, <1>9, Typed
  <2>2. Cancelled(j)
    <3> HIDE DEF j
    <3> QED BY <1>1, <1>2, <1>9, <2>1, UnleasedFacts
        DEF Cancelled, Moves, Statuses, Terminal, Waiting
  <2>3. Evolves(c, j) /\ HeldEvolves(c)
    BY <1>9, <2>2 DEF Evolves, Swept, HeldEvolves
  <2>4. \A k \in Jobs \ {j} : Kept(k)
    BY <1>6, <1>9
  <2>5. job' = [k \in Jobs |-> job'[k]] /\ ready' = [k \in Jobs |-> ready'[k]]
        /\ leases' = [k \in Jobs |-> leases'[k]]
    BY <1>6, <1>9
  <2>6. held' \in [Clients -> Deliveries] BY <1>9, Typed
  <2> HIDE DEF j
  <2> QED BY <1>1, <1>4, <1>5, <2>3, <2>4, <2>5, <2>6, OneJobStep
<1>10. CASE t.op = "acknowledge"
  BY <1>1, <1>7, <1>10 DEF Commit
<1>11. CASE t.op = "retry"
  BY <1>1, <1>7, <1>11 DEF Commit
<1> QED BY <1>8, <1>9, <1>10, <1>11 DEF Commit

---------------------------------------------------------------------------
(* The claim. *)

\* The sweep of E, a set of jobs whose score in the set of leases is due.
LEMMA SweepFacts ==
  ASSUME Core, NEW E \in SUBSET Due(leases, Jobs)
  PROVE  /\ E \subseteq Jobs /\ Lapsed(E) = E
         /\ \A k \in E : job[k].status = "running" /\ job[k].expires <= 0
         /\ \A k \in Jobs \ E : /\ SweptJob(E)[k] = job[k] /\ SweptReady(E)[k] = ready[k]
                               /\ SweptLeases(E)[k] = leases[k]
         /\ \A k \in E : job[k].attempts >= MaxAttempts[k] =>
              /\ SweptJob(E)[k] = Unleased(job[k], "failed") /\ SweptReady(E)[k] = ready[k]
              /\ SweptLeases(E)[k] = Out
         /\ \A k \in E : job[k].attempts < MaxAttempts[k] =>
              /\ SweptJob(E)[k] = Postponed(job[k], 0) /\ SweptReady(E)[k] = 0
              /\ SweptLeases(E)[k] = Out
<1>1. E \subseteq Jobs /\ \A k \in E : leases[k] # Out /\ leases[k] <= 0
  BY DEF Due
<1>2. \A k \in E : job[k].status = "running" /\ job[k].expires <= 0
  BY <1>1, Typed DEF SoundJob
<1>3. Lapsed(E) = E
  BY <1>2 DEF Lapsed
<1>4. \A k \in E : job[k].attempts \in Nat /\ MaxAttempts[k] \in Nat
  BY <1>1, Typed, Constants DEF SoundJob, JobHashes
<1> QED BY <1>1, <1>2, <1>3, <1>4 DEF SweptJob, SweptReady, SweptLeases

\* What the sweep of E, the scan of C and the lease on `take' make of job k.
LEMMA ClaimedJob ==
  ASSUME Core, NEW c \in Clients, NEW E \in SUBSET Due(leases, Jobs), NEW C \in SUBSET Jobs,
         NEW take \in SUBSET Eligible(SweptJob(E), C),
         job' = ScannedJob(SweptJob(E), C, take),
         ready' = ScannedReady(SweptJob(E), SweptReady(E), C, take),
         leases' = [j \in Jobs |-> IF j \in take THEN Lease ELSE SweptLeases(E)[j]],
         NEW k \in Jobs,
         k \in take => /\ held'[c].job = k /\ held'[c].token = job'[k].token
                       /\ held'[c].until = Lease
  PROVE  /\ IF k \in take THEN Taken(c, k) ELSE Swept(k)
         /\ k \notin Lapsed(E) \union Exhausted(SweptJob(E), C) \union take
              => job'[k] = job[k]
<1> DEFINE g == SweptJob(E)[k]
           h == job[k]
<1>1. SoundJob(k) /\ h \in JobHashes /\ h.attempts \in Nat /\ MaxAttempts[k] \in Nat
  BY Typed, Constants DEF SoundJob, JobHashes
<1>2. \/ k \notin E /\ g = h /\ SweptReady(E)[k] = ready[k] /\ SweptLeases(E)[k] = leases[k]
      \/ /\ k \in E /\ h.status = "running" /\ h.expires <= 0
         /\ h.attempts >= MaxAttempts[k] /\ g = Unleased(h, "failed")
         /\ SweptReady(E)[k] = ready[k] /\ SweptLeases(E)[k] = Out
      \/ /\ k \in E /\ h.status = "running" /\ h.expires <= 0
         /\ h.attempts < MaxAttempts[k] /\ g = Postponed(h, 0)
         /\ SweptReady(E)[k] = 0 /\ SweptLeases(E)[k] = Out
  BY <1>1, SweepFacts
<1>3. /\ Unleased(h, "failed") \in JobHashes /\ Unleased(h, "failed").status = "failed"
      /\ Unleased(h, "failed").attempts = h.attempts
      /\ Unleased(h, "failed").created = h.created /\ Unleased(h, "failed").expires = Out
  BY <1>1, UnleasedFacts DEF Statuses, Terminal
<1>4. /\ Postponed(h, 0) \in JobHashes /\ Postponed(h, 0).status = "retrying"
      /\ Postponed(h, 0).attempts = h.attempts /\ Postponed(h, 0).available = 0
      /\ Postponed(h, 0).created = h.created /\ Postponed(h, 0).expires = Out
  BY <1>1, PostponedFacts, TimesFacts
<1>5. g \in JobHashes /\ g.attempts = h.attempts /\ g.created = h.created
  BY <1>1, <1>2, <1>3, <1>4
<1>6. k \in Eligible(SweptJob(E), C) <=>
        k \in C /\ g.status \in Waiting /\ g.attempts < MaxAttempts[k]
  BY DEF Eligible
<1>7. k \in Exhausted(SweptJob(E), C) <=>
        k \in C /\ g.status \in Waiting /\ ~(g.attempts < MaxAttempts[k])
  BY <1>6 DEF Exhausted
<1>8. job'[k] = (IF k \in Exhausted(SweptJob(E), C) THEN [g EXCEPT !.status = "failed"]
                ELSE IF k \in take THEN Leased(g) ELSE g)
      /\ ready'[k] = (IF k \in take \/ (k \in C /\ k \notin Eligible(SweptJob(E), C))
                     THEN Out ELSE SweptReady(E)[k])
      /\ leases'[k] = (IF k \in take THEN Lease ELSE SweptLeases(E)[k])
  BY DEF ScannedJob, ScannedReady
<1>9. h.status \in Waiting => h.expires = Out /\ leases[k] = Out
  BY <1>1 DEF SoundJob, Waiting
<1>10. h.status = "running" => ready[k] = Out
  BY <1>1 DEF SoundJob, Waiting
<1>11. h.status \notin Waiting => ready[k] = Out
  BY <1>1 DEF SoundJob
<1>12. Lapsed(E) = E
  BY SweepFacts
<1> HIDE DEF g, h
<1>13. CASE k \in take
  <2>1. k \in C /\ g.status \in Waiting /\ g.attempts < MaxAttempts[k]
    BY <1>6, <1>13
  <2>2. Loose(h) /\ h.attempts < MaxAttempts[k]
    BY <1>2, <1>3, <1>5, <2>1 DEF Loose, Waiting
  <2>3. job'[k] = Leased(g) /\ ready'[k] = Out /\ leases'[k] = Lease
    BY <1>7, <1>8, <1>13, <2>1
  <2>4. Taken(c, k)
    BY <1>5, <1>13, <2>2, <2>3, LeasedFacts DEF Taken, h
  <2> QED BY <1>13, <2>4
<1>14. CASE k \in Exhausted(SweptJob(E), C) /\ k \notin take
  <2>1. k \in C /\ g.status \in Waiting /\ ~(g.attempts < MaxAttempts[k])
        /\ k \notin Eligible(SweptJob(E), C)
    BY <1>6, <1>7, <1>14
  <2>2. k \notin E /\ g = h /\ SweptLeases(E)[k] = leases[k]
    BY <1>2, <1>3, <1>4, <2>1 DEF Waiting
  <2>3. job'[k] = [h EXCEPT !.status = "failed"] /\ ready'[k] = Out /\ leases'[k] = Out
    BY <1>8, <1>9, <1>14, <2>1, <2>2
  <2>4. [h EXCEPT !.status = "failed"] \in JobHashes
    BY <1>1 DEF JobHashes, Statuses, Terminal
  <2>5. Moves(k, "failed")
    BY <1>1, <1>9, <2>1, <2>2, <2>3, <2>4 DEF Moves, JobHashes, Waiting, h
  <2>6. GivenUp(k)
    BY <1>1, <2>1, <2>2, <2>5 DEF GivenUp, Loose, h
  <2> QED BY <1>14, <2>6 DEF Swept
<1>15. CASE k \notin Exhausted(SweptJob(E), C) /\ k \notin take
  <2>1. job'[k] = g /\ leases'[k] = SweptLeases(E)[k]
    BY <1>8, <1>15
  <2>2. CASE k \notin E /\ g = h /\ SweptReady(E)[k] = ready[k] /\ SweptLeases(E)[k] = leases[k]
    <3>1. ready'[k] = ready[k]
      BY <1>6, <1>7, <1>8, <1>11, <1>15, <2>2
    <3> QED BY <1>15, <2>1, <2>2, <3>1 DEF Swept, Kept, h
  <2>3. CASE /\ k \in E /\ h.status = "running" /\ h.expires <= 0
             /\ h.attempts >= MaxAttempts[k] /\ g = Unleased(h, "failed")
             /\ SweptReady(E)[k] = ready[k] /\ SweptLeases(E)[k] = Out
    <3>1. ready'[k] = Out BY <1>8, <1>10, <1>15, <2>3
    <3>2. GivenUp(k) BY <1>3, <2>1, <2>3, <3>1 DEF GivenUp, Loose, Moves, Waiting, h
    <3> QED BY <1>12, <1>15, <2>3, <3>2 DEF Swept
  <2>4. CASE /\ k \in E /\ h.status = "running" /\ h.expires <= 0
             /\ h.attempts < MaxAttempts[k] /\ g = Postponed(h, 0)
             /\ SweptReady(E)[k] = 0 /\ SweptLeases(E)[k] = Out
    <3>1. g.status \in Waiting /\ g.attempts < MaxAttempts[k]
      BY <1>4, <2>4 DEF Waiting
    <3>2. ready'[k] = 0 BY <1>6, <1>8, <1>15, <2>4, <3>1
    <3>3. TakenBack(k) BY <1>4, <2>1, <2>4, <3>2 DEF TakenBack, Moves, Waiting, h
    <3> QED BY <1>12, <1>15, <2>4, <3>3 DEF Swept
  <2> QED BY <1>2, <2>2, <2>3, <2>4
<1> QED BY <1>13, <1>14, <1>15

LEMMA ClaimStep ==
  ASSUME Core, NEW c \in Clients, NEW q, Claim(c, q)
  PROVE  Step(c) /\ NextTyped /\ TxnsSound'
<1>1. PICK E \in Earliest(leases, Jobs, Batch) :
        \E C \in Earliest(SweptReady(E), {j \in Jobs : QueueOf[j] = q}, Scan) :
        \E take \in IF Best(SweptJob(E), C) = {} THEN {{}}
                    ELSE {{j} : j \in Best(SweptJob(E), C)} :
          /\ job' = ScannedJob(SweptJob(E), C, take)
          /\ ready' = ScannedReady(SweptJob(E), SweptReady(E), C, take)
          /\ leases' = [j \in Jobs |-> IF j \in take THEN Lease ELSE SweptLeases(E)[j]]
          /\ held' = [held EXCEPT ![c] =
               IF take = {} THEN Idle
               ELSE LET j == CHOOSE j \in take : TRUE
                    IN  [job |-> j, token |-> job'[j].token, until |-> Lease]]
          /\ txn' = Touched(txn, Lapsed(E) \union Exhausted(SweptJob(E), C) \union take)
  BY DEF Claim
<1>2. PICK C \in Earliest(SweptReady(E), {j \in Jobs : QueueOf[j] = q}, Scan) :
        \E take \in IF Best(SweptJob(E), C) = {} THEN {{}}
                    ELSE {{j} : j \in Best(SweptJob(E), C)} :
          /\ job' = ScannedJob(SweptJob(E), C, take)
          /\ ready' = ScannedReady(SweptJob(E), SweptReady(E), C, take)
          /\ leases' = [j \in Jobs |-> IF j \in take THEN Lease ELSE SweptLeases(E)[j]]
          /\ held' = [held EXCEPT ![c] =
               IF take = {} THEN Idle
               ELSE LET j == CHOOSE j \in take : TRUE
                    IN  [job |-> j, token |-> job'[j].token, until |-> Lease]]
          /\ txn' = Touched(txn, Lapsed(E) \union Exhausted(SweptJob(E), C) \union take)
  BY <1>1
<1>3. PICK take \in IF Best(SweptJob(E), C) = {} THEN {{}}
                   ELSE {{j} : j \in Best(SweptJob(E), C)} :
          /\ job' = ScannedJob(SweptJob(E), C, take)
          /\ ready' = ScannedReady(SweptJob(E), SweptReady(E), C, take)
          /\ leases' = [j \in Jobs |-> IF j \in take THEN Lease ELSE SweptLeases(E)[j]]
          /\ held' = [held EXCEPT ![c] =
               IF take = {} THEN Idle
               ELSE LET j == CHOOSE j \in take : TRUE
                    IN  [job |-> j, token |-> job'[j].token, until |-> Lease]]
          /\ txn' = Touched(txn, Lapsed(E) \union Exhausted(SweptJob(E), C) \union take)
  BY <1>2
<1> DEFINE W == Lapsed(E) \union Exhausted(SweptJob(E), C) \union take
<1>4. E \in SUBSET Due(leases, Jobs) /\ C \in SUBSET Jobs
  BY DEF Earliest, Due
<1>5. take \in SUBSET Eligible(SweptJob(E), C) /\ W \in SUBSET Jobs
  BY <1>4, SweepFacts DEF Best, Eligible, Exhausted
<1>6. held[c] = Idle /\ txn[c] = NoTxn /\ idem' = idem
  BY DEF Claim, Free
<1>7. \/ take = {} /\ held' = [held EXCEPT ![c] = Idle]
      \/ \E k \in Jobs : /\ take = {k}
                        /\ held' = [held EXCEPT ![c] =
                              [job |-> k, token |-> job'[k].token, until |-> Lease]]
  <2>1. CASE take = {} BY <1>3, <2>1
  <2>2. CASE \E k \in Jobs : take = {k}
    <3>1. PICK k \in Jobs : take = {k} BY <2>2
    <3>2. (CHOOSE j \in take : TRUE) = k BY <3>1
    <3> QED BY <1>3, <3>1, <3>2
  <2> QED BY <1>4, <2>1, <2>2 DEF Best, Eligible
<1>8. \A k \in take : /\ held'[c].job = k /\ held'[c].token = job'[k].token
                      /\ held'[c].until = Lease
  BY <1>7, Typed
<1>9. \A k \in Jobs : /\ IF k \in take THEN Taken(c, k) ELSE Swept(k)
                      /\ (k \notin W => job'[k] = job[k])
  BY <1>3, <1>4, <1>5, <1>8, ClaimedJob
<1>10. \A d \in Clients \ {c} : held'[d] = held[d]
  BY <1>7, Typed
<1>11. held' \in [Clients -> Deliveries] /\ HeldEvolves(c)
  <2>1. CASE take = {} /\ held' = [held EXCEPT ![c] = Idle]
    BY <1>6, <1>10, <2>1, Typed DEF HeldEvolves
  <2>2. CASE \E k \in Jobs : /\ take = {k}
                            /\ held' = [held EXCEPT ![c] =
                                  [job |-> k, token |-> job'[k].token, until |-> Lease]]
    <3>1. PICK k \in Jobs :
            /\ take = {k}
            /\ held' = [held EXCEPT ![c] =
                  [job |-> k, token |-> job'[k].token, until |-> Lease]]
      BY <2>2
    <3>2. Taken(c, k) BY <1>9, <3>1
    <3>3. job'[k].token \in Tokens BY <3>2 DEF Taken, JobHashes
    <3>4. [job |-> k, token |-> job'[k].token, until |-> Lease] \in Deliveries
      BY <3>3, TimesFacts DEF Deliveries
    <3> QED BY <1>10, <3>1, <3>2, <3>4, Typed DEF HeldEvolves
  <2> QED BY <1>7, <2>1, <2>2
<1>12. Step(c)
  <2>1. \A j, k \in Jobs : Taken(c, k) /\ j # k => j \notin take
    BY <1>7, <1>9 DEF Taken
  <2> QED BY <1>6, <1>9, <1>11, <2>1 DEF Step, Evolves
<1>13. txn' \in [Clients -> Transactions] /\ txn'[c] = NoTxn
       /\ \A d \in Clients : txn'[d] = Touched(txn, W)[d]
  BY <1>3, <1>5, <1>6, TouchedFacts, NoTxnUntouched
<1>14. NextTyped
  <2>1. \A d \in Clients : txn'[d].delay <= Furthest
    BY <1>13, Typed, TouchedFacts
  <2>2. job' = [k \in Jobs |-> job'[k]] /\ ready' = [k \in Jobs |-> ready'[k]]
        /\ leases' = [k \in Jobs |-> leases'[k]]
    BY <1>3 DEF ScannedJob, ScannedReady
  <2> QED BY <1>6, <1>11, <1>13, <2>1, <2>2, Typed DEF NextTyped
<1>15. TxnsSound'
  <2>1. txn'[c].op = "none" BY <1>13 DEF NoTxn
  <2>2. \A k \in Jobs \ W : job'[k] = job[k] BY <1>9
  <2> HIDE DEF W
  <2> QED BY <1>10, <1>13, <2>1, <2>2, TouchedKeepsTxns
<1> QED BY <1>12, <1>14, <1>15

---------------------------------------------------------------------------
(* Time. *)

LEMMA TickFacts ==
  ASSUME Core, Tick
  PROVE  /\ \A j \in Jobs :
              /\ job'[j] \in JobHashes
              /\ job'[j].status = job[j].status /\ job'[j].attempts = job[j].attempts
              /\ job'[j].token = job[j].token
              /\ job[j].status # "absent" =>
                   /\ job'[j].available = Older(job[j].available)
                   /\ job'[j].created = Older(job[j].created)
                   /\ job'[j].expires = Older(job[j].expires)
              /\ job[j].status = "absent" => job'[j] = job[j]
         /\ \A c \in Clients :
              /\ held'[c] \in Deliveries
              /\ held'[c].job = held[c].job /\ held'[c].token = held[c].token
              /\ held'[c].until = Older(held[c].until)
              /\ held[c] = Idle => held'[c] = Idle
<1>1. ASSUME NEW j \in Jobs
      PROVE  /\ job'[j] \in JobHashes
             /\ job'[j].status = job[j].status /\ job'[j].attempts = job[j].attempts
             /\ job'[j].token = job[j].token
             /\ job[j].status # "absent" =>
                  /\ job'[j].available = Older(job[j].available)
                  /\ job'[j].created = Older(job[j].created)
                  /\ job'[j].expires = Older(job[j].expires)
             /\ job[j].status = "absent" => job'[j] = job[j]
  <2>1. job[j] \in JobHashes BY Typed
  <2>2. job'[j] = IF job[j].status = "absent" THEN job[j] ELSE Aged(job[j])
    BY DEF Tick
  <2> QED BY <2>1, <2>2, AgedFacts
<1>2. ASSUME NEW c \in Clients
      PROVE  /\ held'[c] \in Deliveries
             /\ held'[c].job = held[c].job /\ held'[c].token = held[c].token
             /\ held'[c].until = Older(held[c].until)
             /\ held[c] = Idle => held'[c] = Idle
  <2>1. held[c] \in Deliveries BY Typed
  <2>2. held'[c] = [held[c] EXCEPT !.until = Older(@)] BY DEF Tick
  <2>3. Older(held[c].until) \in Scores BY <2>1, OlderTyped DEF Deliveries
  <2>4. held'[c] \in Deliveries /\ held'[c].job = held[c].job
        /\ held'[c].token = held[c].token /\ held'[c].until = Older(held[c].until)
    BY <2>1, <2>2, <2>3 DEF Deliveries
  <2>5. held[c] = Idle => held'[c] = Idle
    BY <2>2 DEF Idle, Older
  <2> QED BY <2>4, <2>5
<1> QED BY <1>1, <1>2

LEMMA TickStep ==
  ASSUME Core, Tick PROVE Core'
<1>1. \A j \in Jobs : SoundJob(j)'
  <2> SUFFICES ASSUME NEW j \in Jobs PROVE SoundJob(j)'
    OBVIOUS
  <2>1. SoundJob(j) BY Typed
  <2>2. ready'[j] = Older(ready[j]) /\ leases'[j] = Older(leases[j])
    BY DEF Tick
  <2>3. job[j].status = "absent" => ready[j] = Out /\ leases[j] = Out
    BY <2>1 DEF SoundJob, Waiting
  <2>4. Older(Out) = Out /\ (job[j].status # "absent" =>
                             (Older(job[j].expires) = Out <=> job[j].expires = Out))
    BY <2>1, OlderTyped DEF Older, SoundJob, JobHashes
  <2> QED BY <2>1, <2>2, <2>3, <2>4, TickFacts DEF SoundJob
<1>2. HeldSound'
  BY TickFacts DEF Core, HeldSound
<1>3. ASSUME NEW c \in Clients
      PROVE  /\ txn'[c] \in Transactions /\ txn'[c].delay <= Furthest
             /\ txn'[c].op = txn[c].op /\ txn'[c].job = txn[c].job
             /\ txn'[c].fresh = txn[c].fresh
  <2>1. txn[c] \in Transactions /\ txn[c].delay <= Furthest BY Typed
  <2>2. txn'[c] = IF txn[c].op = "none" \/ txn[c].lag = LagBound THEN txn[c]
                  ELSE [txn[c] EXCEPT !.lag = @ + 1]
    BY DEF Tick
  <2>3. txn[c].lag # LagBound => txn[c].lag + 1 \in 0..LagBound
    BY <2>1, Constants DEF Transactions, LagBound
  <2> QED BY <2>1, <2>2, <2>3 DEF Transactions
<1>4. TxnsSound'
  <2> SUFFICES ASSUME NEW c \in Clients PROVE TxnSound(c)'
    BY DEF TxnsSound
  <2>1. TxnSound(c) BY DEF Core, TxnsSound
  <2> QED BY <1>3, <2>1, TickFacts DEF TxnSound, Holder
<1>5. idem' \in [Keys -> [job : Jobs \union {NoJob}, ttl : 0..TTL]]
  <2> SUFFICES ASSUME NEW k \in Keys
               PROVE  idem'[k] \in [job : Jobs \union {NoJob}, ttl : 0..TTL]
    BY DEF Tick
  <2>1. idem[k] \in [job : Jobs \union {NoJob}, ttl : 0..TTL]
    BY Typed
  <2>2. idem'[k] = IF idem[k].ttl <= 1 THEN [job |-> NoJob, ttl |-> 0]
                   ELSE [idem[k] EXCEPT !.ttl = @ - 1]
    BY DEF Tick
  <2>3. ~(idem[k].ttl <= 1) => idem[k].ttl - 1 \in 0..TTL
    BY <2>1, Constants
  <2> QED BY <2>1, <2>2, <2>3, Constants
<1>6. \A j \in Jobs : ready'[j] \in Scores /\ leases'[j] \in Scores
  BY Typed, OlderTyped DEF Tick
<1>7. TypeOK'
  BY <1>3, <1>5, <1>6, TickFacts DEF TypeOK, Tick
<1> QED BY <1>1, <1>2, <1>4, <1>7 DEF Core, JobsSound

---------------------------------------------------------------------------
(* Every step, and what follows for the jobs. *)

LEMMA NextStep ==
  ASSUME Core, Next PROVE Tick \/ \E c : Step(c) /\ NextTyped /\ TxnsSound'
<1>1. CASE \E j \in Jobs : \E d \in Delays : Enqueue(j, d)
  BY <1>1, EnqueueStep
<1>2. CASE \E c \in Clients : \E q \in Queues : Claim(c, q)
  BY <1>2, ClaimStep
<1>3. CASE \E c \in Clients : Ack(c) \/ Renew(c) \/ Drop(c)
  BY <1>3, AckStep, RenewStep, DropStep
<1>4. CASE \E c \in Clients : \E d \in Delays : Release(c, d)
  BY <1>4, ReleaseStep
<1>5. CASE \E c \in Clients : BeginSome(c) \/ Conflict(c) \/ Commit(c)
  BY <1>5, BeginSomeStep, ConflictStep, CommitStep
<1> QED BY <1>1, <1>2, <1>3, <1>4, <1>5 DEF Next

LEMMA StutterKeepsTxns ==
  ASSUME Core, UNCHANGED vars PROVE Core'
BY DEF Core, TypeOK, JobsSound, SoundJob, HeldSound, TxnsSound, TxnSound, Holder, vars

LEMMA CoreInit == ASSUME Init PROVE Core
<1>1. \A j \in Jobs : job[j] = NoHash /\ ready[j] = Out /\ leases[j] = Out
  BY DEF Init
<1>2. \A j \in Jobs : SoundJob(j)
  BY <1>1, NoHashTyped, Constants DEF SoundJob, NoHash, Waiting
<1>3. Idle \in Deliveries /\ NoTxn \in Transactions /\ NoTxn.delay <= Furthest
      /\ NoTxn.op = "none"
  BY TimesFacts, Constants, FurthestIsMax
  DEF Idle, Deliveries, Tokens, NoTxn, Transactions, LagBound
<1>4. [job |-> NoJob, ttl |-> 0] \in [job : Jobs \union {NoJob}, ttl : 0..TTL]
  BY Constants
<1>5. TypeOK
  BY <1>3, <1>4, NoHashTyped, TimesFacts DEF Init, TypeOK
<1>6. HeldSound /\ TxnsSound
  BY <1>3 DEF Init, HeldSound, TxnsSound, TxnSound
<1> QED BY <1>2, <1>5, <1>6 DEF Core, JobsSound

LEMMA CoreStep == ASSUME Core, [Next]_vars PROVE Core'
<1>1. CASE Tick BY <1>1, TickStep
<1>2. CASE \E c : Step(c) /\ NextTyped /\ TxnsSound'
  BY <1>2, StepKeepsSound DEF Core
<1>3. CASE UNCHANGED vars BY <1>3, StutterKeepsTxns
<1> QED BY <1>1, <1>2, <1>3, NextStep

\* The inductive invariant: types, one job between its hash and the two sets,
\* deliveries of real jobs, and transactions whose fresh checks still hold.
THEOREM CoreInvariant == Spec => []Core
<1>1. Init => Core BY CoreInit
<1>2. Core /\ [Next]_vars => Core' BY CoreStep
<1> QED BY <1>1, <1>2, PTL DEF Spec

\* The shape of every hash, score, key, delivery and transaction, for any
\* number of jobs and clients.
THEOREM TypeCorrect == Spec => []TypeOK
<1>1. Core => TypeOK BY DEF Core
<1> QED BY <1>1, CoreInvariant, PTL

\* Hash, ready set and set of leases always agree: no job is lost between the
\* six scripts and the four WATCH methods.
THEOREM NoJobIsLost == Spec => []NoJobLost
<1>1. Core => NoJobLost BY DEF Core, JobsSound, SoundJob, NoJobLost
<1> QED BY <1>1, CoreInvariant, PTL

\* A job is given out at most max_attempts times and only fails after them.
THEOREM AttemptsBounded == Spec => []FailedAfterAllAttempts
<1>1. Core => FailedAfterAllAttempts
  BY DEF Core, JobsSound, SoundJob, FailedAfterAllAttempts
<1> QED BY <1>1, CoreInvariant, PTL

\* A settled job is never settled again, nor given out again, by any script,
\* transaction or sweep.
THEOREM SettledForGood == Spec => TerminalIsFinal
<1> DEFINE Final == \A j \in Jobs : job[j].status \in Terminal =>
                      job'[j].status = job[j].status /\ job'[j].attempts = job[j].attempts
<1>1. Core /\ [Next]_vars => [Final]_vars
  <2> SUFFICES ASSUME Core, Next PROVE Final
    OBVIOUS
  <2>1. CASE Tick BY <2>1, TickFacts
  <2>2. CASE \E c : Step(c)
    <3> SUFFICES ASSUME NEW c, Step(c), NEW j \in Jobs, job[j].status \in Terminal
                 PROVE  job'[j].status = job[j].status /\ job'[j].attempts = job[j].attempts
      BY <2>2
    <3>1. job[j].status \notin Waiting \union {"running", "absent"}
      BY DEF Terminal, Waiting
    <3>2. Evolves(c, j) BY DEF Step
    <3> QED BY <3>1, <3>2
        DEF Evolves, Swept, Kept, Added, GivenUp, TakenBack, Cancelled, Taken, Prolonged, Settled,
            Loose, Holder
  <2> QED BY <2>1, <2>2, NextStep
<1> QED BY <1>1, CoreInvariant, PTL DEF Spec, TerminalIsFinal

---------------------------------------------------------------------------
(* Holders.  A client's belief in its lease is backed by the hash, or the  *)
(* job is settled; tokens of a job are never given out twice.              *)

Believes(c) == held[c].until # Out /\ held[c].until > 0

HolderSound(c) ==
  held[c] # Idle =>
    LET j == held[c].job IN
    /\ job[j].status # "absent" /\ held[c].token <= job[j].attempts
    /\ Believes(c) => \/ Holder(c, j) /\ held[c].until <= job[j].expires
                      \/ job[j].status \in Terminal
    /\ held[c].until = Out => ~Holder(c, j)
TokensDiffer ==
  \A c, d \in Clients :
    (c # d /\ held[c] # Idle /\ held[c].job = held[d].job) => held[c].token # held[d].token

LeasesSound ==
  /\ Core /\ ExclusiveLease /\ TokensDiffer
  /\ \A c \in Clients : HolderSound(c)

\* A delivery that stays as it is, with a job its client does not act on.
LEMMA OnlookerStaysSound ==
  ASSUME Core, NEW d \in Clients, HolderSound(d), held'[d] = held[d],
         held[d] # Idle => Swept(held[d].job) \/ Added(held[d].job) \/ Cancelled(held[d].job)
  PROVE  HolderSound(d)'
<1> SUFFICES ASSUME held[d] # Idle PROVE HolderSound(d)'
  BY DEF HolderSound
<1> DEFINE j == held[d].job
<1>1. j \in Jobs /\ SoundJob(j) /\ held[d] \in Deliveries
  BY Typed DEF Core, HeldSound
<1>2. CASE Kept(j)
  BY <1>2 DEF HolderSound, Kept, Believes, Holder
<1>3. CASE Added(j)
  BY <1>3 DEF HolderSound, Added
<1>4. CASE GivenUp(j) \/ TakenBack(j)
  <2>1. Loose(job[j]) /\ job'[j].attempts = job[j].attempts
        /\ job'[j].status \in {"failed", "retrying"}
    BY <1>4 DEF GivenUp, TakenBack, Moves, Loose
  <2>2. ~Believes(d)
    BY <1>1, <2>1
    DEF HolderSound, Believes, Holder, Loose, Waiting, Terminal, Deliveries, Scores,
        SoundJob, JobHashes, Times, Past
  <2> QED BY <2>1, <2>2 DEF HolderSound, Believes, Holder
<1>5. CASE Cancelled(j)
  BY <1>5 DEF Cancelled, Moves, HolderSound, Believes, Holder, Terminal
<1> QED BY <1>2, <1>3, <1>4, <1>5 DEF Swept

\* A delivery whose job another client acts on.
LEMMA RivalStaysSound ==
  ASSUME LeasesSound, NEW d \in Clients, NEW c \in Clients, c # d, held'[d] = held[d],
         held[d] # Idle, NEW j \in Jobs, j = held[d].job,
         Taken(c, j) \/ Prolonged(c, j) \/ Settled(c, j)
  PROVE  HolderSound(d)'
<1>1. SoundJob(j) /\ held[d] \in Deliveries /\ HolderSound(d) /\ job[j].attempts \in Nat
  BY Typed DEF LeasesSound, SoundJob, JobHashes
<1>2. CASE Taken(c, j)
  <2>1. ~Believes(d)
    BY <1>1, <1>2
    DEF Taken, HolderSound, Believes, Holder, Loose, Waiting, Terminal, Deliveries, Scores,
        SoundJob, JobHashes, Times, Past
  <2>2. held[d].token <= job[j].attempts /\ held[d].token \in Nat
    BY <1>1 DEF HolderSound, Deliveries, Tokens
  <2> QED BY <1>1, <1>2, <2>1, <2>2 DEF Taken, HolderSound, Believes, Holder
<1>3. CASE Prolonged(c, j) \/ Settled(c, j)
  <2>1. Holder(c, j) BY <1>3 DEF Prolonged, Settled
  <2>2. held[c] # Idle
    BY <2>1, Constants DEF Holder, Idle
  <2>3. ~Holder(d, j)
    BY <2>1, <2>2 DEF LeasesSound, TokensDiffer, Holder
  <2>4. ~Believes(d)
    BY <1>1, <2>1, <2>3 DEF HolderSound, Holder, Terminal
  <2>5. CASE Prolonged(c, j)
    BY <1>1, <2>1, <2>3, <2>4, <2>5 DEF Prolonged, HolderSound, Believes, Holder
  <2>6. CASE Settled(c, j)
    BY <1>1, <2>1, <2>4, <2>6 DEF Settled, Moves, HolderSound, Believes, Holder
  <2> QED BY <1>3, <2>5, <2>6
<1> QED BY <1>2, <1>3

\* The delivery of the client that acts.
LEMMA ActorStaysSound ==
  ASSUME LeasesSound, NEW c \in Clients, NEW j \in Jobs,
         Taken(c, j) \/ Prolonged(c, j) \/ Settled(c, j)
  PROVE  HolderSound(c)'
<1>1. SoundJob(j) /\ job[j].attempts \in Nat
  BY Typed DEF LeasesSound, SoundJob, JobHashes
<1>2. CASE Taken(c, j)
  BY <1>1, <1>2, Constants DEF Taken, HolderSound, Believes, Holder
<1>3. CASE Prolonged(c, j)
  <2>1. /\ held'[c].job = j /\ held'[c].until = job'[j].expires
        /\ job'[j].expires \in Int /\ job'[j].expires # Out
        /\ job'[j].status = "running" /\ held'[c].token = job'[j].token
        /\ held'[c].token <= job'[j].attempts
    <3>1. job'[j].expires \in Int /\ job'[j].expires # Out
      BY <1>3, TimesFacts DEF Prolonged
    <3> QED BY <1>1, <1>3, <3>1 DEF Prolonged, Holder, SoundJob
  <2> QED BY <2>1 DEF HolderSound, Believes, Holder
<1>4. CASE Settled(c, j)
  <2>1. Holder(c, j) /\ job'[j].attempts = job[j].attempts
        /\ job'[j].status \in {"succeeded", "retrying", "failed"}
    BY <1>4 DEF Settled, Moves
  <2>2. held[c].token <= job[j].attempts
    BY <1>1, <2>1 DEF SoundJob, Holder
  <2>3. CASE held'[c] = Idle BY <2>3 DEF HolderSound
  <2>4. CASE held'[c].job = j /\ held'[c].token = held[c].token /\ held'[c].until = Out
    BY <2>1, <2>2, <2>4 DEF HolderSound, Believes, Holder
  <2> QED BY <1>4, <2>3, <2>4 DEF Settled
<1> QED BY <1>2, <1>3, <1>4

LEMMA StepKeepsHolders ==
  ASSUME LeasesSound, NEW c, Step(c), NextTyped PROVE \A d \in Clients : HolderSound(d)'
<1> SUFFICES ASSUME NEW d \in Clients PROVE HolderSound(d)'
  OBVIOUS
<1> DEFINE j == held[d].job
<1>1. Core /\ HolderSound(d) /\ (held[d] # Idle => j \in Jobs)
  BY DEF LeasesSound, Core, HeldSound
<1>2. held[d] # Idle => Evolves(c, j)
  BY <1>1 DEF Step
<1>3. CASE held'[d] = Idle
  BY <1>3 DEF HolderSound
<1>4. CASE d = c /\ \E k \in Jobs : Taken(c, k) \/ Prolonged(c, k) \/ Settled(c, k)
  BY <1>4, ActorStaysSound
<1>5. CASE /\ held'[d] = held[d]
           /\ ~(d = c /\ \E k \in Jobs : Taken(c, k) \/ Prolonged(c, k) \/ Settled(c, k))
  <2>1. CASE held[d] # Idle => Swept(j) \/ Added(j) \/ Cancelled(j)
    BY <1>1, <1>5, <2>1, OnlookerStaysSound
  <2>2. CASE held[d] # Idle /\ (Taken(c, j) \/ Prolonged(c, j) \/ Settled(c, j))
    <3>1. c \in Clients /\ c # d
      BY <1>1, <1>5, <2>2 DEF Taken, Prolonged, Settled
    <3> QED BY <1>1, <1>5, <2>2, <3>1, RivalStaysSound
  <2> QED BY <1>2, <2>1, <2>2 DEF Evolves
<1> QED BY <1>3, <1>4, <1>5 DEF Step, HeldEvolves

LEMMA StepKeepsTokens ==
  ASSUME LeasesSound, NEW c, Step(c), NextTyped PROVE TokensDiffer'
<1> SUFFICES ASSUME NEW a \in Clients, NEW b \in Clients, a # b, held'[a] # Idle,
                    held'[a].job = held'[b].job
             PROVE  held'[a].token # held'[b].token
  BY DEF TokensDiffer
<1>1. held' \in [Clients -> Deliveries] /\ HeldSound'
  BY StepKeepsSound DEF NextTyped, LeasesSound
<1>2. held'[a].job \in Jobs /\ held'[b] # Idle
  BY <1>1, Constants DEF HeldSound, Idle
<1>3. ASSUME NEW d \in Clients, held'[d] # Idle, ~\E k \in Jobs : Taken(c, k) /\ d = c
      PROVE  held[d] # Idle /\ held'[d].job = held[d].job /\ held'[d].token = held[d].token
  <2>1. CASE held'[d] = held[d] BY <1>3, <2>1
  <2>2. CASE d = c /\ c \in Clients
             /\ \E k \in Jobs : Prolonged(c, k) \/ Settled(c, k)
    <3>1. PICK k \in Jobs : Prolonged(c, k) \/ Settled(c, k) BY <2>2
    <3>2. held[c].job = k BY <3>1 DEF Prolonged, Settled, Holder
    <3> QED BY <1>3, <2>2, <3>1, <3>2, Constants DEF Prolonged, Settled, Idle
  <2> QED BY <1>3, <2>1, <2>2 DEF Step, HeldEvolves
<1>4. ASSUME NEW d \in Clients, d # c, held'[d] # Idle, NEW k \in Jobs, Taken(c, k),
             held'[d].job = k
      PROVE  held'[d].token # held'[c].token
  <2>1. held'[d] = held[d] /\ held[d] # Idle BY <1>4 DEF Step, HeldEvolves
  <2>2. held[d].token <= job[k].attempts
    BY <1>4, <2>1 DEF LeasesSound, HolderSound
  <2>3. job[k].attempts \in Nat /\ held[d].token \in Nat
    BY <2>1, Typed DEF LeasesSound, SoundJob, JobHashes, Deliveries, Tokens
  <2> QED BY <1>4, <2>1, <2>2, <2>3 DEF Taken
<1>5. CASE \E k \in Jobs : Taken(c, k)
  <2>1. PICK k \in Jobs : Taken(c, k) BY <1>5
  <2>2. held'[c].job = k BY <2>1 DEF Taken
  <2>3. CASE a = c \/ b = c
    BY <1>2, <1>4, <2>1, <2>2, <2>3
  <2>4. CASE a # c /\ b # c
    BY <1>2, <1>3, <2>4 DEF LeasesSound, TokensDiffer
  <2> QED BY <2>3, <2>4
<1>6. CASE ~\E k \in Jobs : Taken(c, k)
  BY <1>2, <1>3, <1>6 DEF LeasesSound, TokensDiffer
<1> QED BY <1>5, <1>6

LEMMA StepKeepsExclusive ==
  ASSUME LeasesSound, NEW c, Step(c), NextTyped PROVE ExclusiveLease'
<1> SUFFICES ASSUME NEW a \in Clients, NEW b \in Clients, a # b,
                    held'[a].job = held'[b].job,
                    held'[a].until # Out, held'[b].until # Out,
                    ~(held'[a].until <= 0 \/ held'[b].until <= 0)
             PROVE  FALSE
  BY DEF ExclusiveLease
<1>1. held'[a] \in Deliveries /\ held'[b] \in Deliveries
  BY DEF NextTyped
<1>2. Believes(a)' /\ Believes(b)' /\ held'[a] # Idle /\ held'[b] # Idle
  <2>1. held'[a].until \in Int /\ held'[b].until \in Int
    BY <1>1, ScoreTime DEF Deliveries
  <2>2. held'[a] # Idle /\ held'[b] # Idle
    BY DEF Idle
  <2> QED BY <2>1, <2>2 DEF Believes
<1>3. HolderSound(a)' /\ HolderSound(b)' /\ TokensDiffer'
  BY StepKeepsHolders, StepKeepsTokens
<1>4. Holder(a, held[a].job)' => ~Holder(b, held[b].job)'
  BY <1>2, <1>3 DEF TokensDiffer, Holder
<1>5. job'[held'[a].job].status \in Terminal
  <2>1. Holder(a, held[a].job)' \/ job'[held'[a].job].status \in Terminal
    BY <1>2, <1>3 DEF HolderSound
  <2>2. Holder(b, held[b].job)' \/ job'[held'[b].job].status \in Terminal
    BY <1>2, <1>3 DEF HolderSound
  <2> QED BY <1>4, <2>1, <2>2
<1>6. ASSUME NEW d \in {a, b} PROVE held'[d] = held[d]
  <2>1. ~\E k \in Jobs : /\ d = c
                         /\ Taken(c, k) \/ Prolonged(c, k) \/ Settled(c, k)
    BY <1>2, <1>5 DEF Taken, Prolonged, Settled, Terminal
  <2> QED BY <1>2, <2>1 DEF Step, HeldEvolves
<1>7. held'[a] = held[a] /\ held'[b] = held[b]
  BY <1>6
<1> QED BY <1>7 DEF LeasesSound, ExclusiveLease

LEMMA TickKeepsLeases ==
  ASSUME LeasesSound, Tick PROVE LeasesSound'
<1> USE DEF LeasesSound
<1>1. Core' BY TickStep
<1>2. ASSUME NEW d \in Clients, held'[d] # Idle
      PROVE  /\ held[d] # Idle /\ held[d].job \in Jobs
             /\ Believes(d)' => /\ Believes(d) /\ held[d].until \in Times
                               /\ held'[d].until = Older(held[d].until)
             /\ held'[d].until = Out => held[d].until = Out
  <2>1. held[d] # Idle /\ held[d].job \in Jobs /\ held[d] \in Deliveries
        /\ held'[d].until = Older(held[d].until)
    BY <1>2, TickFacts, Typed DEF Core, HeldSound
  <2>2. held[d].until = Out => held'[d].until = Out
    BY <2>1 DEF Older
  <2>3. held'[d].until = Out => held[d].until = Out
    BY <2>1, OlderTyped DEF Deliveries
  <2>4. held[d].until # Out => held[d].until \in Times /\ Older(held[d].until) \in Times
                             /\ Older(held[d].until) <= held[d].until
    BY <2>1, OlderTyped DEF Deliveries, Scores
  <2>5. Believes(d)' => Believes(d)
    <3> SUFFICES ASSUME held'[d].until # Out, held'[d].until > 0
                 PROVE  held[d].until # Out /\ held[d].until > 0
      BY DEF Believes
    <3>1. held[d].until # Out BY <2>2
    <3>2. held[d].until \in Int /\ held'[d].until \in Int /\ held'[d].until <= held[d].until
      BY <2>1, <2>4, <3>1, TimesFacts
    <3> QED BY <3>1, <3>2
  <2> QED BY <2>1, <2>2, <2>3, <2>4, <2>5 DEF Believes
<1>3. \A d \in Clients : HolderSound(d)'
  <2> SUFFICES ASSUME NEW d \in Clients, held'[d] # Idle PROVE HolderSound(d)'
    BY DEF HolderSound
  <2> DEFINE j == held[d].job
  <2>1. j \in Jobs /\ HolderSound(d) /\ held[d] # Idle /\ SoundJob(j)
    BY <1>2, Typed
  <2>2. /\ job'[j].status = job[j].status /\ job'[j].attempts = job[j].attempts
        /\ job'[j].token = job[j].token /\ held'[d].job = j /\ held'[d].token = held[d].token
        /\ job[j].status # "absent" => job'[j].expires = Older(job[j].expires)
    BY <2>1, TickFacts
  <2>3. Holder(d, j)' <=> Holder(d, j)
    BY <2>2 DEF Holder
  <2>4. ASSUME Believes(d)', job[j].status \notin Terminal
        PROVE  Holder(d, j) /\ held'[d].until <= job'[j].expires
    <3>1. Holder(d, j) /\ held[d].until <= job[j].expires /\ job[j].status # "absent"
      BY <1>2, <2>1, <2>4 DEF HolderSound
    <3>2. job[j].expires \in Times
      BY <2>1, <3>1 DEF SoundJob, JobHashes, Scores, Holder
    <3> QED BY <1>2, <2>2, <2>4, <3>1, <3>2, OlderTyped
  <2> QED BY <1>2, <2>1, <2>2, <2>3, <2>4 DEF HolderSound
<1>4. TokensDiffer'
  BY <1>2, TickFacts DEF TokensDiffer
<1>5. ExclusiveLease'
  <2> SUFFICES ASSUME NEW a \in Clients, NEW b \in Clients, a # b,
                      held'[a].job = held'[b].job,
                      held'[a].until # Out, held'[b].until # Out,
                      ~(held'[a].until <= 0 \/ held'[b].until <= 0)
               PROVE  FALSE
    BY DEF ExclusiveLease
  <2>1. held'[a] \in Deliveries /\ held'[b] \in Deliveries
    BY TickFacts
  <2>2. Believes(a)' /\ Believes(b)' /\ held'[a] # Idle /\ held'[b] # Idle
    <3>1. held'[a].until \in Int /\ held'[b].until \in Int
      BY <2>1, ScoreTime DEF Deliveries
    <3>2. held'[a] # Idle /\ held'[b] # Idle
      BY DEF Idle
    <3> QED BY <3>1, <3>2 DEF Believes
  <2>3. Believes(a) /\ Believes(b) /\ held[a].until \in Int /\ held[b].until \in Int
        /\ held[a].job = held[b].job
    BY <1>2, <2>2, TickFacts, TimesFacts
  <2> QED BY <2>3 DEF ExclusiveLease, Believes
<1> QED BY <1>1, <1>3, <1>4, <1>5

LEMMA LeasesInit == ASSUME Init PROVE LeasesSound
<1>1. \A c \in Clients : held[c] = Idle /\ held[c].until = Out
  BY DEF Init, Idle
<1> QED BY <1>1, CoreInit DEF LeasesSound, ExclusiveLease, TokensDiffer, HolderSound

LEMMA LeasesStep == ASSUME LeasesSound, [Next]_vars PROVE LeasesSound'
<1>1. Core' BY CoreStep DEF LeasesSound
<1>2. CASE Tick BY <1>2, TickKeepsLeases
<1>3. CASE \E c : Step(c) /\ NextTyped
  <2>1. PICK c : Step(c) /\ NextTyped BY <1>3
  <2> QED BY <1>1, <2>1, StepKeepsHolders, StepKeepsTokens, StepKeepsExclusive
      DEF LeasesSound
<1>4. CASE UNCHANGED vars
  BY <1>1, <1>4
  DEF LeasesSound, ExclusiveLease, TokensDiffer, HolderSound, Believes, Holder, vars
<1> QED BY <1>2, <1>3, <1>4, NextStep DEF LeasesSound

\* Who counts on a live lease holds the job's current token, and no two
\* deliveries of one job have the same token.
THEOREM LeasesInvariant == Spec => []LeasesSound
<1>1. Init => LeasesSound BY LeasesInit
<1>2. LeasesSound /\ [Next]_vars => LeasesSound' BY LeasesStep
<1> QED BY <1>1, <1>2, PTL DEF Spec

\* Two clients never count on a live lease of the same job at the same time,
\* whatever answers are lost and however late a WATCH method's clock is.
THEOREM LeaseIsExclusive == Spec => []ExclusiveLease
<1>1. LeasesSound => ExclusiveLease BY DEF LeasesSound
<1> QED BY <1>1, LeasesInvariant, PTL

\* A running job whose lease has not ended loses its token to its holder or to
\* a cancellation only.
THEOREM OnlyHolderSettles == Spec => SettledByHolder
<1> DEFINE ByHolder ==
      \A j \in Jobs :
        (job[j].status = "running" /\ job[j].expires > 0 /\ job'[j].token # job[j].token)
          => \/ job'[j].status = "cancelled"
             \/ \E c \in Clients : /\ held[c].job = j /\ held[c].token = job[j].token
                                  /\ held'[c] # held[c] /\ held'[c].until = Out
<1>1. LeasesSound /\ [Next]_vars => [ByHolder]_vars
  <2> SUFFICES ASSUME LeasesSound, Next, NEW j \in Jobs, job[j].status = "running",
                      job[j].expires > 0, job'[j].token # job[j].token
               PROVE  \/ job'[j].status = "cancelled"
                      \/ \E c \in Clients : /\ held[c].job = j /\ held[c].token = job[j].token
                                           /\ held'[c] # held[c] /\ held'[c].until = Out
    OBVIOUS
  <2>1. CASE Tick BY <2>1, TickFacts DEF LeasesSound
  <2>2. CASE \E c : Step(c)
    <3>1. PICK c : Step(c) BY <2>2
    <3>2. ~Loose(job[j]) /\ ~TakenBack(j)
      <4>1. SoundJob(j) BY Typed DEF LeasesSound
      <4>2. job[j].expires \in Int
        BY <4>1, ScoreTime DEF SoundJob, JobHashes
      <4> QED BY <4>2 DEF Loose, TakenBack, Waiting
    <3>3. Cancelled(j) \/ Settled(c, j)
      BY <3>1, <3>2
      DEF Step, Evolves, Swept, Kept, Added, GivenUp, Taken, Prolonged
    <3>4. CASE Cancelled(j) BY <3>4 DEF Cancelled, Moves
    <3>5. CASE Settled(c, j)
      <4>1. c \in Clients /\ Holder(c, j) /\ held'[c].until = Out
        BY <3>5 DEF Settled, Idle
      <4>2. held[c] # Idle BY <4>1, Constants DEF Holder, Idle
      <4>3. held[c].until # Out
        BY <4>1, <4>2 DEF LeasesSound, HolderSound, Holder
      <4> QED BY <4>1, <4>3 DEF Holder
    <3> QED BY <3>3, <3>4, <3>5
  <2> QED BY <2>1, <2>2, NextStep DEF LeasesSound
<1> QED BY <1>1, LeasesInvariant, PTL DEF Spec, SettledByHolder

---------------------------------------------------------------------------
(* Deduplication: a key outlives the TTL of every job created under it.    *)

KeySound(j) ==
  job[j].status # "absent" => idem[Key[j]].ttl >= TTL + job[j].created
KeysSound ==
  /\ Core /\ OneJobPerKey
  /\ \A k \in Keys : idem[k].job = NoJob => idem[k].ttl = 0
  /\ \A j \in Jobs : KeySound(j)

LEMMA StepKeepsKeys ==
  ASSUME KeysSound, NEW c, Step(c), NextTyped, Core' PROVE KeysSound'
<1>1. \A j \in Jobs : Key[j] \in Keys BY DEF Keys
<1>2. \A j \in Jobs : job[j].created \in Int /\ job[j].created <= 0
  BY Typed, Constants DEF KeysSound, SoundJob, JobHashes, Past
<1>3. \A k \in Keys : idem[k].ttl \in 0..TTL
  BY Typed DEF KeysSound
<1>4. \A j \in Jobs : \/ Added(j)
                     \/ /\ job[j].status = "absent" <=> job'[j].status = "absent"
                        /\ job[j].status # "absent" => job'[j].created = job[j].created
  <2> SUFFICES ASSUME NEW j \in Jobs
               PROVE  \/ Added(j)
                      \/ /\ job[j].status = "absent" <=> job'[j].status = "absent"
                         /\ job[j].status # "absent" => job'[j].created = job[j].created
    OBVIOUS
  <2>1. Evolves(c, j) BY DEF Step
  <2> QED BY <2>1
      DEF Evolves, Swept, Kept, GivenUp, TakenBack, Cancelled, Taken, Prolonged, Settled,
          Moves, Loose, Holder, Waiting
<1>5. \A i \in Jobs : Added(i) => /\ idem[Key[i]].ttl = 0 /\ idem'[Key[i]].ttl = TTL
                                 /\ idem'[Key[i]].job = i /\ job'[i].created = 0
                                 /\ job[i].status = "absent"
  BY <1>1 DEF Added, KeysSound
<1>6. \A k \in Keys : idem'[k].job = NoJob => idem'[k].ttl = 0
  BY <1>5, Constants DEF KeysSound, Step
<1>7. ASSUME NEW j \in Jobs PROVE KeySound(j)'
  <2>1. KeySound(j) BY DEF KeysSound
  <2>2. idem'[Key[j]] = idem[Key[j]] \/ idem'[Key[j]].ttl = TTL
    BY <1>1, <1>5 DEF Step
  <2> QED BY <1>1, <1>2, <1>3, <1>4, <1>5, <2>1, <2>2, Constants DEF KeySound
<1>8. OneJobPerKey'
  <2> SUFFICES ASSUME NEW i \in Jobs, NEW j \in Jobs, i # j, Key[i] = Key[j],
                      job'[i].status # "absent", job'[j].status # "absent",
                      job'[i].created <= job'[j].created
               PROVE  job'[i].created = Past \/ job'[j].created - job'[i].created >= TTL
    BY DEF OneJobPerKey
  <2>1. ~(Added(i) /\ Added(j)) BY <1>5
  <2>2. CASE ~Added(i) /\ ~Added(j)
    BY <1>4, <2>2 DEF KeysSound, OneJobPerKey
  <2>3. CASE Added(j) /\ ~Added(i)
    <3>1. job'[i].created = job[i].created /\ job[i].status # "absent"
      BY <1>4, <2>3
    <3>2. 0 >= TTL + job[i].created /\ job'[j].created = 0
      BY <1>5, <2>3, <3>1 DEF KeysSound, KeySound
    <3> QED BY <1>2, <3>1, <3>2, Constants
  <2>4. CASE Added(i) /\ ~Added(j)
    <3>1. job'[j].created = job[j].created /\ job[j].status # "absent"
      BY <1>4, <2>4
    <3>2. 0 >= TTL + job[j].created /\ job'[i].created = 0
      BY <1>5, <2>4, <3>1 DEF KeysSound, KeySound
    <3> QED BY <1>2, <3>1, <3>2, Constants
  <2> QED BY <2>1, <2>2, <2>3, <2>4
<1> QED BY <1>6, <1>7, <1>8 DEF KeysSound

LEMMA TickKeepsKeys ==
  ASSUME KeysSound, Tick, Core' PROVE KeysSound'
<1>1. \A j \in Jobs : Key[j] \in Keys BY DEF Keys
<1>2. \A j \in Jobs : job[j].created \in Past..0
  BY Typed DEF KeysSound, SoundJob, JobHashes
<1>3. \A k \in Keys : idem[k].ttl \in 0..TTL
  BY Typed DEF KeysSound
<1>4. \A k \in Keys :
        IF idem[k].ttl <= 1 THEN idem'[k].job = NoJob /\ idem'[k].ttl = 0
        ELSE idem'[k].job = idem[k].job /\ idem'[k].ttl = idem[k].ttl - 1
  <2> SUFFICES ASSUME NEW k \in Keys
               PROVE  IF idem[k].ttl <= 1 THEN idem'[k].job = NoJob /\ idem'[k].ttl = 0
                      ELSE idem'[k].job = idem[k].job /\ idem'[k].ttl = idem[k].ttl - 1
    OBVIOUS
  <2>1. idem[k] \in [job : Jobs \union {NoJob}, ttl : 0..TTL] BY Typed DEF KeysSound
  <2>2. idem'[k] = IF idem[k].ttl <= 1 THEN [job |-> NoJob, ttl |-> 0]
                   ELSE [idem[k] EXCEPT !.ttl = @ - 1]
    BY DEF Tick
  <2> QED BY <2>1, <2>2
<1>5. \A j \in Jobs : job[j].status # "absent" =>
        job'[j].created = IF job[j].created > Past THEN job[j].created - 1 ELSE Past
  BY <1>2, TickFacts, Constants DEF KeysSound, Older, Past
<1>6. \A k \in Keys : idem'[k].job = NoJob => idem'[k].ttl = 0
  BY <1>3, <1>4 DEF KeysSound
<1>7. ASSUME NEW j \in Jobs, job'[j].status # "absent" PROVE idem'[Key[j]].ttl >= TTL + job'[j].created
  <2>1. job[j].status # "absent" BY <1>7, TickFacts DEF KeysSound
  <2>2. idem[Key[j]].ttl >= TTL + job[j].created BY <2>1 DEF KeysSound, KeySound
  <2> QED BY <1>1, <1>2, <1>3, <1>4, <1>5, <2>1, <2>2, Constants DEF Past
<1>8. OneJobPerKey'
  <2> SUFFICES ASSUME NEW i \in Jobs, NEW j \in Jobs, i # j, Key[i] = Key[j],
                      job'[i].status # "absent", job'[j].status # "absent",
                      job'[i].created <= job'[j].created
               PROVE  job'[i].created = Past \/ job'[j].created - job'[i].created >= TTL
    BY DEF OneJobPerKey, Past
  <2>1. job[i].status # "absent" /\ job[j].status # "absent"
    BY TickFacts DEF KeysSound
  <2>2. CASE job[i].created <= job[j].created
    <3>1. job[i].created = Past \/ job[j].created - job[i].created >= TTL
      BY <2>1, <2>2 DEF KeysSound, OneJobPerKey
    <3> QED BY <1>2, <1>5, <2>1, <2>2, <3>1, Constants DEF Past
  <2>3. CASE ~(job[i].created <= job[j].created)
    BY <1>2, <1>5, <2>1, <2>3, Constants DEF Past
  <2> QED BY <2>2, <2>3
<1> QED BY <1>6, <1>7, <1>8 DEF KeysSound, KeySound

\* The idempotency key of a job outlives every job created less than a TTL ago.
THEOREM KeysInvariant == Spec => []KeysSound
<1>1. Init => KeysSound
  <2> SUFFICES ASSUME Init PROVE KeysSound
    OBVIOUS
  <2>1. \A j \in Jobs : job[j].status = "absent" BY DEF Init, NoHash
  <2>2. \A k \in Keys : idem[k].ttl = 0 BY DEF Init
  <2> QED BY <2>1, <2>2, CoreInit DEF KeysSound, KeySound, OneJobPerKey
<1>2. KeysSound /\ [Next]_vars => KeysSound'
  <2> SUFFICES ASSUME KeysSound, [Next]_vars PROVE KeysSound'
    OBVIOUS
  <2>1. Core' BY CoreStep DEF KeysSound
  <2>2. CASE Tick BY <2>1, <2>2, TickKeepsKeys
  <2>3. CASE \E c : Step(c) /\ NextTyped BY <2>1, <2>3, StepKeepsKeys
  <2>4. CASE UNCHANGED vars
    BY <2>1, <2>4 DEF KeysSound, KeySound, OneJobPerKey, vars
  <2> QED BY <2>2, <2>3, <2>4, NextStep DEF KeysSound
<1> QED BY <1>1, <1>2, PTL DEF Spec

\* Two jobs with one deduplication key were created at least a TTL apart.
THEOREM OneJobPerKeyAndTTL == Spec => []OneJobPerKey
<1>1. KeysSound => OneJobPerKey BY DEF KeysSound
<1> QED BY <1>1, KeysInvariant, PTL

---------------------------------------------------------------------------
(* The contract. *)

\* The abstract job of LeaseContract.
State(h) == IF h.status \in Waiting THEN "waiting"
            ELSE IF h.status = "running" THEN "leased" ELSE h.status
Live(h) == h.expires # Out /\ h.expires > 0

LEMMA ContractMeans ==
  ASSUME NEW j \in Jobs
  PROVE  LET same == job'[j].attempts = job[j].attempts
             idle == same /\ ~Live(job'[j]) IN
         /\ Lifecycle!Stays(j) <=> /\ same /\ State(job'[j]) = State(job[j])
                                   /\ Live(job'[j]) = Live(job[j])
         /\ Lifecycle!Add(j) <=> /\ State(job[j]) = "absent" /\ State(job'[j]) = "waiting"
                                 /\ job'[j].attempts = 0 /\ ~Live(job'[j])
         /\ Lifecycle!Extend(j) <=> State(job[j]) = "leased" /\ State(job'[j]) = "leased" /\ same
         /\ Lifecycle!Return(j) <=> State(job[j]) = "leased" /\ State(job'[j]) = "waiting" /\ idle
         /\ Lifecycle!Settle(j) <=> State(job[j]) = "leased" /\ State(job'[j]) = "succeeded" /\ idle
         /\ Lifecycle!Cancel(j) <=> /\ State(job[j]) \in {"waiting", "leased"}
                                    /\ State(job'[j]) = "cancelled" /\ idle
         /\ Lifecycle!GiveUp(j) <=> /\ State(job[j]) \in {"waiting", "leased"}
                                    /\ job[j].attempts = MaxAttempts[j]
                                    /\ State(job'[j]) = "failed" /\ idle
         /\ Lifecycle!Take(j) <=> /\ \/ State(job[j]) = "waiting"
                                     \/ State(job[j]) = "leased" /\ ~Live(job[j])
                                  /\ job[j].attempts < MaxAttempts[j]
                                  /\ State(job'[j]) = "leased" /\ Live(job'[j])
                                  /\ job'[j].attempts = job[j].attempts + 1
<1>1. Live(job[j]) \in BOOLEAN /\ Live(job'[j]) \in BOOLEAN
  BY DEF Live
<1>2. Lifecycle!Stays(j) <=> /\ job'[j].attempts = job[j].attempts
                             /\ State(job'[j]) = State(job[j]) /\ Live(job'[j]) = Live(job[j])
  BY DEF Lifecycle!Stays, Lifecycle!Goes, State, Live
<1>3. Lifecycle!Add(j) <=> /\ State(job[j]) = "absent" /\ State(job'[j]) = "waiting"
                           /\ job'[j].attempts = 0 /\ ~Live(job'[j])
  BY DEF Lifecycle!Add, Lifecycle!Goes, State, Live
<1>4. Lifecycle!Extend(j) <=> /\ State(job[j]) = "leased" /\ State(job'[j]) = "leased"
                              /\ job'[j].attempts = job[j].attempts
  BY DEF Lifecycle!Extend, Lifecycle!Goes, State
<1>5. Lifecycle!Return(j) <=> /\ State(job[j]) = "leased" /\ State(job'[j]) = "waiting"
                              /\ job'[j].attempts = job[j].attempts /\ ~Live(job'[j])
  BY DEF Lifecycle!Return, Lifecycle!Goes, State, Live
<1>6. Lifecycle!Settle(j) <=> /\ State(job[j]) = "leased" /\ State(job'[j]) = "succeeded"
                              /\ job'[j].attempts = job[j].attempts /\ ~Live(job'[j])
  BY DEF Lifecycle!Settle, Lifecycle!Goes, State, Live
<1>7. Lifecycle!Cancel(j) <=> /\ State(job[j]) \in {"waiting", "leased"}
                              /\ State(job'[j]) = "cancelled"
                              /\ job'[j].attempts = job[j].attempts /\ ~Live(job'[j])
  BY DEF Lifecycle!Cancel, Lifecycle!Goes, State, Live
<1>8. Lifecycle!GiveUp(j) <=> /\ State(job[j]) \in {"waiting", "leased"}
                              /\ job[j].attempts = MaxAttempts[j]
                              /\ State(job'[j]) = "failed"
                              /\ job'[j].attempts = job[j].attempts /\ ~Live(job'[j])
  BY DEF Lifecycle!GiveUp, Lifecycle!Goes, State, Live
<1>9. Lifecycle!Take(j) <=> /\ \/ State(job[j]) = "waiting"
                               \/ State(job[j]) = "leased" /\ ~Live(job[j])
                            /\ job[j].attempts < MaxAttempts[j]
                            /\ State(job'[j]) = "leased" /\ Live(job'[j])
                            /\ job'[j].attempts = job[j].attempts + 1
  BY DEF Lifecycle!Take, Lifecycle!Goes, State, Live
<1> QED BY <1>2, <1>3, <1>4, <1>5, <1>6, <1>7, <1>8, <1>9

\* A job that moves to st goes there in the contract, off any lease.
LEMMA MovesMeans ==
  ASSUME NEW j \in Jobs, NEW st, Moves(j, st)
  PROVE  /\ job'[j].attempts = job[j].attempts /\ ~Live(job'[j])
         /\ st = "retrying" => State(job'[j]) = "waiting"
         /\ st \in Terminal => State(job'[j]) = st
BY DEF Moves, State, Live, Waiting, Terminal

LEMMA LooseMeans ==
  ASSUME NEW j \in Jobs, SoundJob(j), Loose(job[j])
  PROVE  State(job[j]) = "waiting" \/ (State(job[j]) = "leased" /\ ~Live(job[j]))
<1>1. CASE job[j].status \in Waiting BY <1>1 DEF State
<1>2. CASE job[j].status = "running" /\ job[j].expires <= 0
  <2>1. job[j].expires \in Int BY <1>2, ScoreTime DEF SoundJob, JobHashes
  <2> QED BY <1>2, <2>1 DEF State, Live, Waiting
<1> QED BY <1>1, <1>2 DEF Loose

\* Each kind of change of a job is a step of the contract.
LEMMA ChangeKeepsContract ==
  ASSUME NEW j \in Jobs, SoundJob(j), NEW c
  PROVE  /\ Swept(j) => Lifecycle!Stays(j) \/ Lifecycle!Return(j) \/ Lifecycle!GiveUp(j)
         /\ Added(j) => Lifecycle!Add(j)
         /\ Cancelled(j) => Lifecycle!Cancel(j)
         /\ Taken(c, j) => Lifecycle!Take(j)
         /\ Prolonged(c, j) => Lifecycle!Extend(j)
         /\ Settled(c, j) => \/ Lifecycle!Settle(j) \/ Lifecycle!Return(j)
                             \/ Lifecycle!GiveUp(j)
<1>1. job[j].attempts \in Nat /\ MaxAttempts[j] \in Nat /\ job[j].attempts <= MaxAttempts[j]
  BY Constants DEF SoundJob, JobHashes
<1>2. "failed" \in Terminal /\ "succeeded" \in Terminal /\ "cancelled" \in Terminal
  BY DEF Terminal
<1>3. job[j].status = "running" => State(job[j]) = "leased"
  BY DEF State, Waiting
<1>4. ASSUME GivenUp(j) PROVE Lifecycle!GiveUp(j)
  <2>1. State(job[j]) \in {"waiting", "leased"} BY <1>4, LooseMeans DEF GivenUp
  <2>2. job[j].attempts = MaxAttempts[j] BY <1>1, <1>4 DEF GivenUp
  <2>3. State(job'[j]) = "failed" /\ job'[j].attempts = job[j].attempts /\ ~Live(job'[j])
    BY <1>2, <1>4, MovesMeans DEF GivenUp
  <2> QED BY <2>1, <2>2, <2>3, ContractMeans
<1>5. ASSUME TakenBack(j) PROVE Lifecycle!Return(j)
  <2>1. State(job'[j]) = "waiting" /\ job'[j].attempts = job[j].attempts /\ ~Live(job'[j])
    BY <1>5, MovesMeans DEF TakenBack
  <2> QED BY <1>3, <1>5, <2>1, ContractMeans DEF TakenBack
<1>6. ASSUME Kept(j) PROVE Lifecycle!Stays(j)
  BY <1>6, ContractMeans DEF Kept
<1>7. ASSUME Added(j) PROVE Lifecycle!Add(j)
  <2>1. State(job[j]) = "absent" BY <1>7 DEF Added, State, Waiting
  <2>2. State(job'[j]) = "waiting" /\ job'[j].attempts = 0 /\ ~Live(job'[j])
    BY <1>7 DEF Added, State, Live, Waiting
  <2> QED BY <2>1, <2>2, ContractMeans
<1>8. ASSUME Cancelled(j) PROVE Lifecycle!Cancel(j)
  <2>1. State(job[j]) \in {"waiting", "leased"} BY <1>8 DEF Cancelled, State
  <2>2. State(job'[j]) = "cancelled" /\ job'[j].attempts = job[j].attempts /\ ~Live(job'[j])
    BY <1>2, <1>8, MovesMeans DEF Cancelled
  <2> QED BY <2>1, <2>2, ContractMeans
<1>9. ASSUME Taken(c, j) PROVE Lifecycle!Take(j)
  <2>1. State(job'[j]) = "leased" /\ job'[j].attempts = job[j].attempts + 1 /\ Live(job'[j])
    BY <1>9, Constants DEF Taken, State, Live, Waiting
  <2>2. State(job[j]) = "waiting" \/ (State(job[j]) = "leased" /\ ~Live(job[j]))
    BY <1>9, LooseMeans DEF Taken
  <2>3. job[j].attempts < MaxAttempts[j] BY <1>9 DEF Taken
  <2> QED BY <2>1, <2>2, <2>3, ContractMeans
<1>10. ASSUME Prolonged(c, j) PROVE Lifecycle!Extend(j)
  <2>1. State(job'[j]) = "leased" /\ job'[j].attempts = job[j].attempts
    BY <1>10 DEF Prolonged, State, Waiting
  <2>2. State(job[j]) = "leased" BY <1>3, <1>10 DEF Prolonged, Holder
  <2> QED BY <2>1, <2>2, ContractMeans
<1>11. ASSUME Settled(c, j)
       PROVE  Lifecycle!Settle(j) \/ Lifecycle!Return(j) \/ Lifecycle!GiveUp(j)
  <2>1. State(job[j]) = "leased" BY <1>3, <1>11 DEF Settled, Holder
  <2>2. CASE Moves(j, "succeeded")
    <3>1. State(job'[j]) = "succeeded" /\ job'[j].attempts = job[j].attempts /\ ~Live(job'[j])
      BY <1>2, <2>2, MovesMeans
    <3> QED BY <2>1, <3>1, ContractMeans
  <2>3. CASE Moves(j, "retrying")
    <3>1. State(job'[j]) = "waiting" /\ job'[j].attempts = job[j].attempts /\ ~Live(job'[j])
      BY <2>3, MovesMeans
    <3> QED BY <2>1, <3>1, ContractMeans
  <2>4. CASE job[j].attempts >= MaxAttempts[j] /\ Moves(j, "failed")
    <3>1. State(job'[j]) = "failed" /\ job'[j].attempts = job[j].attempts /\ ~Live(job'[j])
      BY <1>2, <2>4, MovesMeans
    <3>2. job[j].attempts = MaxAttempts[j] BY <1>1, <2>4
    <3> QED BY <2>1, <3>1, <3>2, ContractMeans
  <2> QED BY <1>11, <2>2, <2>3, <2>4 DEF Settled
<1> QED BY <1>4, <1>5, <1>6, <1>7, <1>8, <1>9, <1>10, <1>11 DEF Swept

LEMMA TickKeepsContract ==
  ASSUME Core, Core', Tick, NEW j \in Jobs PROVE Lifecycle!Stays(j) \/ Lifecycle!Extend(j)
<1>1. SoundJob(j) /\ SoundJob(j)'
  BY DEF Core, JobsSound
<1>2. job'[j].status = job[j].status /\ job'[j].attempts = job[j].attempts
  BY TickFacts
<1>3. CASE job[j].status = "running"
  BY <1>2, <1>3 DEF Lifecycle!Extend, Lifecycle!Goes, Waiting
<1>4. CASE job[j].status # "running"
  BY <1>1, <1>2, <1>4 DEF SoundJob, Lifecycle!Stays, Lifecycle!Goes
<1> QED BY <1>3, <1>4

\* The queue implements the contract of leases: its scripts and transactions
\* take a job once per lease, settle it through its holder, a cancellation or the
\* end of its lease, and stop after max_attempts.
THEOREM ImplementsLeaseContract == Spec => KeepsContract
<1>1. Init => Lifecycle!Initially
  <2> SUFFICES ASSUME Init PROVE Lifecycle!Initially
    OBVIOUS
  <2>1. \A j \in Jobs : /\ job[j].status = "absent" /\ job[j].status \notin Waiting
                        /\ job[j].attempts = 0 /\ job[j].expires = Out
    BY DEF Init, NoHash, Waiting
  <2>2. [j \in Jobs |-> IF job[j].status \in Waiting THEN "waiting"
                        ELSE IF job[j].status = "running" THEN "leased"
                        ELSE job[j].status] = [j \in Jobs |-> "absent"]
    BY <2>1
  <2>3. [j \in Jobs |-> job[j].attempts] = [j \in Jobs |-> 0]
    BY <2>1
  <2>4. [j \in Jobs |-> job[j].expires # Out /\ job[j].expires > 0] = [j \in Jobs |-> FALSE]
    BY <2>1
  <2> QED BY <2>2, <2>3, <2>4 DEF Lifecycle!Initially
<1>2. Core /\ Core' /\ [Next]_vars =>
        [Lifecycle!Promise]_<<[j \in Jobs |-> IF job[j].status \in Waiting THEN "waiting"
                                              ELSE IF job[j].status = "running" THEN "leased"
                                              ELSE job[j].status],
                              [j \in Jobs |-> job[j].attempts],
                              [j \in Jobs |-> job[j].expires # Out /\ job[j].expires > 0]>>
  <2> SUFFICES ASSUME Core, Core', Next PROVE Lifecycle!Promise
    BY DEF vars
  <2>1. \A j \in Jobs : SoundJob(j) /\ SoundJob(j)'
    BY DEF Core, JobsSound
  <2>2. CASE Tick
    BY <2>2, TickKeepsContract DEF Lifecycle!Promise
  <2>3. CASE \E c : Step(c)
    <3>1. PICK c : Step(c) BY <2>3
    <3>2. CASE \E k \in Jobs : Taken(c, k)
      <4>1. PICK k \in Jobs : Taken(c, k) BY <3>2
      <4>2. Lifecycle!Take(k) BY <2>1, <4>1, ChangeKeepsContract
      <4>3. \A j \in Jobs \ {k} : \/ Lifecycle!Stays(j) \/ Lifecycle!Return(j)
                                  \/ Lifecycle!GiveUp(j)
        BY <2>1, <3>1, <4>1, ChangeKeepsContract DEF Step
      <4> QED BY <4>2, <4>3 DEF Lifecycle!Promise
    <3>3. CASE ~\E k \in Jobs : Taken(c, k)
      <4> SUFFICES ASSUME NEW j \in Jobs
                   PROVE  \/ Lifecycle!Stays(j) \/ Lifecycle!Add(j) \/ Lifecycle!Extend(j)
                          \/ Lifecycle!Return(j) \/ Lifecycle!Settle(j)
                          \/ Lifecycle!Cancel(j) \/ Lifecycle!GiveUp(j)
        BY DEF Lifecycle!Promise
      <4>1. Evolves(c, j) /\ ~Taken(c, j) BY <3>1, <3>3 DEF Step
      <4> QED BY <2>1, <4>1, ChangeKeepsContract DEF Evolves
    <3> QED BY <3>2, <3>3
  <2> QED BY <2>2, <2>3, NextStep
<1> QED BY <1>1, <1>2, CoreInvariant, PTL DEF Spec, KeepsContract, Lifecycle!Contract
=============================================================================
