------------------------------ MODULE RedisJobs ------------------------------
(***************************************************************************)
(* The leased Redis job queue both sides of the system share: the Lua      *)
(* scripts of the worker's RedisQueue and of the control API, and the      *)
(* WATCH/MULTI/EXEC methods of the API's RedisJobQueue.                    *)
(*                                                                         *)
(* A script is one action.  A WATCH method is two: Begin reads the job and *)
(* Redis's clock, Commit is EXEC.  EXEC succeeds only when nobody wrote    *)
(* the job hash since WATCH, so of the values a method read only the clock *)
(* can be stale.  Times are offsets from Redis's clock (0 is now, positive *)
(* is future); Tick moves them all and they stop at -Horizon.  A lease     *)
(* token, a fresh uuid per claim, is the job's attempt number at the       *)
(* claim, which is different for every claim of a job.                     *)
(***************************************************************************)
EXTENDS Integers, FiniteSets, FiniteSetsExt

CONSTANTS Jobs, NoJob,     \* job ids that an enqueue may draw
          Clients,         \* worker processes and API coroutines
          QueueOf,         \* queue_name of each job
          Priority,        \* priority of each job
          MaxAttempts,     \* max_attempts of each job
          Key,             \* deduplication key of each job
          Out,             \* "not a member of the sorted set"
          Lease,           \* lease_seconds
          MaxDelay,        \* bound: the longest delay a caller may ask for
          RetryBase, RetryMax,  \* back-off of the API's retry
          Batch, Scan,     \* recovery_batch_size, claim_scan_size
          TTL,             \* idempotency_ttl_seconds
          Horizon          \* bound: how far into the past times are told apart

ASSUME JobAssumption ==
  /\ NoJob \notin Jobs /\ Out \notin Int
  /\ MaxAttempts \in [Jobs -> Nat \ {0}] /\ Priority \in [Jobs -> -100..100]
ASSUME TimeAssumption ==
  /\ {Lease, RetryBase, TTL, Batch, Scan} \subseteq Nat \ {0}
  /\ MaxDelay \in Nat /\ Horizon \in Nat /\ TTL <= Horizon
  /\ RetryMax \in Nat /\ RetryBase <= RetryMax

VARIABLES job,     \* job hashes
          ready,   \* score in the ready set of the job's queue
          leases,  \* score in the set of leases, shared by all queues
          idem,    \* idempotency keys
          held,    \* the delivery each client works on; until: lease_expires_at as it knows it
          txn      \* the WATCH transaction each client is in

vars == <<job, ready, leases, idem, held, txn>>

Delays   == 0..MaxDelay
Queues   == {QueueOf[j] : j \in Jobs}
Keys     == {Key[j] : j \in Jobs}
Waiting  == {"queued", "retrying"}
Terminal == {"succeeded", "failed", "cancelled"}
Statuses == {"absent", "running"} \union Waiting \union Terminal

\* lease_token "" is 0, lease_expires_at "" is Out.
NoHash == [status |-> "absent", attempts |-> 0, available |-> 0, created |-> 0,
           token |-> 0, expires |-> Out]
Idle   == [job |-> NoJob, token |-> 0, until |-> Out]
NoTxn  == [op |-> "none", job |-> NoJob, lag |-> 0, delay |-> 0, fresh |-> TRUE]

Init ==
  /\ job = [j \in Jobs |-> NoHash]
  /\ ready = [j \in Jobs |-> Out] /\ leases = [j \in Jobs |-> Out]
  /\ idem = [k \in Keys |-> [job |-> NoJob, ttl |-> 0]]
  /\ held = [c \in Clients |-> Idle] /\ txn = [c \in Clients |-> NoTxn]

---------------------------------------------------------------------------
(* Sorted sets and job hashes. *)

Queued(delay) == [NoHash EXCEPT !.status = "queued", !.available = delay]
Unleased(h, status) == [h EXCEPT !.status = status, !.token = 0, !.expires = Out]
Postponed(h, at) ==
  [h EXCEPT !.status = "retrying", !.token = 0, !.expires = Out, !.available = at]
Extended(h, until) == [h EXCEPT !.expires = until]

\* Members of z within S that are due, at most n, lowest scores first.
Due(z, S) == {j \in S : z[j] # Out /\ z[j] <= 0}
Earliest(z, S, n) ==
  LET due == Due(z, S) IN
    {E \in SUBSET due :
       /\ Cardinality(E) = IF Cardinality(due) < n THEN Cardinality(due) ELSE n
       /\ \A e \in E : \A d \in due \ E : z[e] <= z[d]}

\* Plausible bug: the methods forget to WATCH.
TouchedUnwatched(t, W) == t
\* Writing the hashes of the jobs in W makes the transactions that watch
\* them fail.
Touched(t, W) ==
  [c \in Clients |-> IF t[c].job \in W THEN [t[c] EXCEPT !.fresh = FALSE] ELSE t[c]]

\* Plausible bug: the token is not compared.
HoldsAnyLease(h, token) == h.status = "running" /\ h.expires # Out /\ h.expires > 0
\* The lease check of ACK, RENEW, RELEASE and _require_lease.
HoldsLease(h, token) ==
  h.status = "running" /\ h.token = token /\ h.expires # Out /\ h.expires > 0

Free(c) == held[c] = Idle /\ txn[c] = NoTxn
Working(c) == held[c] # Idle /\ txn[c] = NoTxn

---------------------------------------------------------------------------
(* The scripts. *)

\* Plausible bug: the idempotency key is not written.
EnqueueForgetsKey(j, delay) ==
  /\ job[j].status = "absent" /\ idem[Key[j]].job = NoJob
  /\ job' = [job EXCEPT ![j] = Queued(delay)]
  /\ ready' = [ready EXCEPT ![j] = delay]
  /\ UNCHANGED <<leases, held, txn, idem>>
\* ENQUEUE with a fresh job id: a live idempotency key makes it a no-op.
Enqueue(j, delay) ==
  /\ job[j].status = "absent" /\ idem[Key[j]].job = NoJob
  /\ job' = [job EXCEPT ![j] = Queued(delay)]
  /\ ready' = [ready EXCEPT ![j] = delay]
  /\ idem' = [idem EXCEPT ![Key[j]] = [job |-> j, ttl |-> TTL]]
  /\ UNCHANGED <<leases, held, txn>>

\* CLAIM, first loop: expired leases of every queue are taken back.
Lapsed(E) == {j \in E : job[j].status = "running" /\ job[j].expires <= 0}
SweptJob(E) ==
  [j \in Jobs |->
     IF j \notin Lapsed(E) THEN job[j]
     ELSE IF job[j].attempts >= MaxAttempts[j] THEN Unleased(job[j], "failed")
     ELSE Postponed(job[j], 0)]
\* Plausible bug: a job taken back is not put into the ready set.
SweptReadyForgets(E) == ready
SweptReady(E) ==
  [j \in Jobs |->
     IF j \in Lapsed(E) /\ job[j].attempts < MaxAttempts[j] THEN 0 ELSE ready[j]]
SweptLeases(E) == [j \in Jobs |-> IF j \in E THEN Out ELSE leases[j]]

\* CLAIM, second loop: of the scanned jobs, `best' is a job no other eligible
\* one precedes.
Eligible(hash, C) ==
  {j \in C : hash[j].status \in Waiting /\ hash[j].attempts < MaxAttempts[j]}
Exhausted(hash, C) == {j \in C : hash[j].status \in Waiting} \ Eligible(hash, C)
Precedes(hash, i, j) ==
  \/ Priority[i] > Priority[j]
  \/ /\ Priority[i] = Priority[j]
     /\ \/ hash[i].available < hash[j].available
        \/ hash[i].available = hash[j].available /\ hash[i].created < hash[j].created
Best(hash, C) ==
  {j \in Eligible(hash, C) : \A i \in Eligible(hash, C) : ~Precedes(hash, i, j)}

Leased(h) == [h EXCEPT !.status = "running", !.attempts = @ + 1,
                       !.token = h.attempts + 1, !.expires = Lease]

\* What the scan of C leaves, with the jobs in take (one or none) leased.
ScannedJob(hash, C, take) ==
  [j \in Jobs |-> IF j \in Exhausted(hash, C) THEN [hash[j] EXCEPT !.status = "failed"]
                  ELSE IF j \in take THEN Leased(hash[j]) ELSE hash[j]]
ScannedReady(hash, z, C, take) ==
  [j \in Jobs |-> IF j \in take \/ (j \in C /\ j \notin Eligible(hash, C)) THEN Out ELSE z[j]]

Claim(c, q) ==
  /\ Free(c)
  /\ \E E \in Earliest(leases, Jobs, Batch) :
     LET hash == SweptJob(E)  z == SweptReady(E) IN
     \E C \in Earliest(z, {j \in Jobs : QueueOf[j] = q}, Scan) :
     \E take \in IF Best(hash, C) = {} THEN {{}} ELSE {{j} : j \in Best(hash, C)} :
       /\ job' = ScannedJob(hash, C, take)
       /\ ready' = ScannedReady(hash, z, C, take)
       /\ leases' = [j \in Jobs |-> IF j \in take THEN Lease ELSE SweptLeases(E)[j]]
       /\ held' = [held EXCEPT ![c] =
            IF take = {} THEN Idle
            ELSE LET j == CHOOSE j \in take : TRUE
                 IN  [job |-> j, token |-> job'[j].token, until |-> Lease]]
       /\ txn' = Touched(txn, Lapsed(E) \union Exhausted(hash, C) \union take)
  /\ UNCHANGED idem

\* The job is settled for this client.  Its answer may be lost: the client then
\* keeps the delivery but cannot count on the lease.
Answered(c) ==
  \/ held' = [held EXCEPT ![c] = Idle]
  \/ held' = [held EXCEPT ![c].until = Out]

Ack(c) ==
  LET j == held[c].job IN
  /\ Working(c) /\ HoldsLease(job[j], held[c].token)
  /\ job' = [job EXCEPT ![j] = Unleased(@, "succeeded")]
  /\ leases' = [leases EXCEPT ![j] = Out]
  /\ txn' = Touched(txn, {j}) /\ Answered(c)
  /\ UNCHANGED <<ready, idem>>

\* Plausible bug: the new end is not put into the set of leases.
RenewHashOnly(c) ==
  LET j == held[c].job IN
  /\ Working(c) /\ HoldsLease(job[j], held[c].token)
  /\ job' = [job EXCEPT ![j] = Extended(@, Lease)]
  /\ txn' = Touched(txn, {j})
  /\ held' = [held EXCEPT ![c].until = Lease]
  /\ UNCHANGED <<ready, leases, idem>>
Renew(c) ==
  LET j == held[c].job IN
  /\ Working(c) /\ HoldsLease(job[j], held[c].token)
  /\ job' = [job EXCEPT ![j] = Extended(@, Lease)]
  /\ leases' = [leases EXCEPT ![j] = Lease]
  /\ txn' = Touched(txn, {j})
  /\ held' = [held EXCEPT ![c].until = Lease]
  /\ UNCHANGED <<ready, idem>>

\* RELEASE: whatever the attempt count; the next scan settles the job.
Release(c, delay) ==
  LET j == held[c].job IN
  /\ Working(c) /\ HoldsLease(job[j], held[c].token)
  /\ job' = [job EXCEPT ![j] = Postponed(@, delay)]
  /\ leases' = [leases EXCEPT ![j] = Out]
  /\ ready' = [ready EXCEPT ![j] = delay]
  /\ txn' = Touched(txn, {j}) /\ Answered(c)
  /\ UNCHANGED idem

\* The client crashes, or gives the delivery up after an error or a lost answer.
Drop(c) ==
  /\ ~Free(c)
  /\ held' = [held EXCEPT ![c] = Idle] /\ txn' = [txn EXCEPT ![c] = NoTxn]
  /\ UNCHANGED <<job, ready, leases, idem>>

---------------------------------------------------------------------------
(* The WATCH methods. *)

Backoff(attempts) ==
  LET d == RetryBase * 2^(attempts - 1) IN IF d < RetryMax THEN d ELSE RetryMax

\* WATCH, HGETALL, TIME and the checks the methods make on what they read.
MayBegin(c, op, j) ==
  IF op = "cancel" THEN job[j].status \notin Terminal \union {"absent"}
  ELSE held[c].job = j /\ HoldsLease(job[j], held[c].token)

Begin(c, op, j, delay) ==
  /\ txn[c] = NoTxn /\ MayBegin(c, op, j)
  /\ txn' = [txn EXCEPT ![c] = [op |-> op, job |-> j, lag |-> 0, delay |-> delay,
                                fresh |-> TRUE]]
  /\ UNCHANGED <<job, ready, leases, idem, held>>

\* EXEC refused: the method reads everything again.
Conflict(c) ==
  LET t == txn[c] IN
  /\ t.op # "none" /\ ~t.fresh
  /\ txn' = [txn EXCEPT ![c] = IF MayBegin(c, t.op, t.job)
                               THEN [t EXCEPT !.lag = 0, !.fresh = TRUE] ELSE NoTxn]
  /\ UNCHANGED <<job, ready, leases, idem, held>>

Clamp(time) == IF time < -Horizon THEN -Horizon ELSE time

\* EXEC accepted: the times written start at the clock read by Begin.
Commit(c) ==
  LET t == txn[c]  j == t.job  h == job[j]  at == Clamp(t.delay - t.lag) IN
  /\ t.op # "none" /\ t.fresh
  /\ \/ /\ t.op = "renew"
        /\ job' = [job EXCEPT ![j] = Extended(h, Clamp(Lease - t.lag))]
        /\ leases' = [leases EXCEPT ![j] = Clamp(Lease - t.lag)]
        /\ held' = [held EXCEPT ![c].until = Clamp(Lease - t.lag)]
        /\ UNCHANGED ready
     \/ /\ t.op = "acknowledge"
        /\ job' = [job EXCEPT ![j] = Unleased(h, "succeeded")]
        /\ leases' = [leases EXCEPT ![j] = Out]
        /\ UNCHANGED ready /\ Answered(c)
     \/ /\ t.op = "retry" /\ h.attempts >= MaxAttempts[j]
        /\ job' = [job EXCEPT ![j] = Unleased(h, "failed")]
        /\ leases' = [leases EXCEPT ![j] = Out]
        /\ UNCHANGED ready /\ Answered(c)
     \/ /\ t.op = "retry" /\ h.attempts < MaxAttempts[j]
        /\ job' = [job EXCEPT ![j] = Postponed(h, at)]
        /\ leases' = [leases EXCEPT ![j] = Out]
        /\ ready' = [ready EXCEPT ![j] = at] /\ Answered(c)
     \/ /\ t.op = "cancel"
        /\ job' = [job EXCEPT ![j] = Unleased(h, "cancelled")]
        /\ leases' = [leases EXCEPT ![j] = Out] /\ ready' = [ready EXCEPT ![j] = Out]
        /\ UNCHANGED held
  /\ txn' = [Touched(txn, {j}) EXCEPT ![c] = NoTxn]
  /\ UNCHANGED idem

---------------------------------------------------------------------------
(* Time. *)

Older(time) == IF time = Out THEN Out ELSE IF time > -Horizon THEN time - 1 ELSE time

Aged(h) == [h EXCEPT !.available = Older(@), !.created = Older(@), !.expires = Older(@)]

LagBound == Lease + Horizon

\* One tick of Redis's clock; an idempotency key goes when its TTL has run out.
Tick ==
  /\ job' = [j \in Jobs |-> IF job[j].status = "absent" THEN job[j] ELSE Aged(job[j])]
  /\ ready' = [j \in Jobs |-> Older(ready[j])]
  /\ leases' = [j \in Jobs |-> Older(leases[j])]
  /\ idem' = [k \in Keys |-> IF idem[k].ttl <= 1 THEN [job |-> NoJob, ttl |-> 0]
                             ELSE [idem[k] EXCEPT !.ttl = @ - 1]]
  /\ txn' = [c \in Clients |-> IF txn[c].op = "none" \/ txn[c].lag = LagBound THEN txn[c]
                               ELSE [txn[c] EXCEPT !.lag = @ + 1]]
  /\ held' = [c \in Clients |-> [held[c] EXCEPT !.until = Older(@)]]

RetryDelays(c) == Delays \union {Backoff(job[held[c].job].attempts)}
BeginSome(c) ==
  \/ \E j \in Jobs : Begin(c, "cancel", j, 0)
  \/ /\ Working(c)
     /\ \/ \E op \in {"renew", "acknowledge"} : Begin(c, op, held[c].job, 0)
        \/ \E d \in RetryDelays(c) : Begin(c, "retry", held[c].job, d)

Next ==
  \/ \E j \in Jobs : \E d \in Delays : Enqueue(j, d)
  \/ \E c \in Clients : \E q \in Queues : Claim(c, q)
  \/ \E c \in Clients : Ack(c) \/ Renew(c) \/ Drop(c)
  \/ \E c \in Clients : \E d \in Delays : Release(c, d)
  \/ \E c \in Clients : BeginSome(c) \/ Conflict(c) \/ Commit(c)
  \/ Tick

Spec == Init /\ [][Next]_vars

---------------------------------------------------------------------------
(* Fairness: Redis's clock runs, a client eventually settles or gives up   *)
(* what it is busy with, and every queue is claimed from again and again by *)
(* some client that is free.                                                *)
Fairness ==
  /\ WF_vars(Tick)
  /\ \A c \in Clients : WF_vars(Ack(c) \/ Drop(c) \/ \E d \in Delays : Release(c, d))
  /\ \A q \in Queues : SF_vars(\E c \in Clients : Claim(c, q))

FairSpec == Spec /\ Fairness

---------------------------------------------------------------------------
(* Types. *)

Past == -Horizon
Furthest == Max({Lease, RetryMax, MaxDelay})
Times  == Past..Furthest
Scores == Times \union {Out}
Tokens == Nat

JobHashes == [status : Statuses, attempts : Nat, available : Times, created : Past..0,
              token : Tokens, expires : Scores]
Deliveries == [job : Jobs \union {NoJob}, token : Tokens, until : Scores]
Transactions == [op : {"none", "renew", "acknowledge", "retry", "cancel"},
                 job : Jobs \union {NoJob}, lag : 0..LagBound, delay : Int,
                 fresh : BOOLEAN]

TypeOK ==
  /\ job \in [Jobs -> JobHashes]
  /\ ready \in [Jobs -> Scores] /\ leases \in [Jobs -> Scores]
  /\ idem \in [Keys -> [job : Jobs \union {NoJob}, ttl : 0..TTL]]
  /\ held \in [Clients -> Deliveries] /\ txn \in [Clients -> Transactions]
  /\ \A c \in Clients : txn[c].delay <= Furthest

---------------------------------------------------------------------------
(* Properties. *)

\* No job is lost between the three structures: a waiting job is in its
\* queue's ready set at the time its hash says, a running one in the set of
\* leases at the end of its lease, and no other job is in either.
NoJobLost ==
  \A j \in Jobs :
    /\ ready[j] = IF job[j].status \in Waiting THEN job[j].available ELSE Out
    /\ leases[j] = job[j].expires
    /\ job[j].status = "running" <=> job[j].expires # Out

\* Two clients never count on a live lease of the same job at the same time.
ExclusiveLease ==
  \A c, d \in Clients :
    (/\ c # d /\ held[c].job = held[d].job
     /\ held[c].until # Out /\ held[d].until # Out)
      => held[c].until <= 0 \/ held[d].until <= 0

\* A job is given out at most max_attempts times and fails only after that many.
FailedAfterAllAttempts ==
  \A j \in Jobs : /\ job[j].attempts <= MaxAttempts[j]
                  /\ job[j].status = "failed" => job[j].attempts = MaxAttempts[j]

\* Only the client whose token is the job's current one makes it succeed,
\* fail early or wait again before its lease ends; the rest is the sweep's,
\* after the end, and cancel's.
SettledByHolder ==
  [][\A j \in Jobs :
       (job[j].status = "running" /\ job[j].expires > 0 /\ job'[j].token # job[j].token)
         => \/ job'[j].status = "cancelled"
            \/ \E c \in Clients : /\ held[c].job = j /\ held[c].token = job[j].token
                                 /\ held'[c] # held[c] /\ held'[c].until = Out]_vars

\* A settled job is never settled again, nor given out again.
TerminalIsFinal ==
  [][\A j \in Jobs : job[j].status \in Terminal =>
       job'[j].status = job[j].status /\ job'[j].attempts = job[j].attempts]_vars

\* Two jobs with one deduplication key were created at least a TTL apart.
OneJobPerKey ==
  \A i, j \in Jobs :
    (/\ i # j /\ Key[i] = Key[j] /\ job[i].status # "absent" /\ job[j].status # "absent"
     /\ job[i].created <= job[j].created)
      => job[i].created = Past \/ job[j].created - job[i].created >= TTL

\* The queue keeps the contract of LeaseContract: an abstract job is leased
\* while its hash runs, and its lease is live while lease_expires_at is ahead.
Lifecycle == INSTANCE LeaseContract WITH
  state <- [j \in Jobs |-> IF job[j].status \in Waiting THEN "waiting"
                           ELSE IF job[j].status = "running" THEN "leased"
                           ELSE job[j].status],
  taken <- [j \in Jobs |-> job[j].attempts],
  live  <- [j \in Jobs |-> job[j].expires # Out /\ job[j].expires > 0]

KeepsContract == Lifecycle!Contract

\* Every job that was enqueued settles: clients that die, lose answers or let
\* leases end use up its attempts.  (Settled jobs stay settled, so it is the
\* same to ask that again and again none of them is unsettled.)
JobsSettle == []<>(\A j \in Jobs : job[j].status \in Terminal \union {"absent"})
=============================================================================
