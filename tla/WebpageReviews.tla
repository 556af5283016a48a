--------------------------- MODULE WebpageReviews ---------------------------
(***************************************************************************)
(* The review gates of one webpage video: the dedicated control plane      *)
(* (framefactory_api/webpage_video.py) next to the workers that capture,   *)
(* plan and compose, and the people who decide on what they saw.           *)
(*                                                                         *)
(* A run is a chain of steps with a gate after each thing a person must    *)
(* see: the screenshot of a single page, or the scope and the storyboard   *)
(* of a site, and the quality report when it names a risk.  A person loads *)
(* a page of evidence, thinks, and sends a command that names the revision *)
(* and the hash they saw; the handler reads rows in one connection and     *)
(* decides in a transaction of its own.  Meanwhile workers repeat a step,  *)
(* lose a lease or write a capture attempt, another person decides first,  *)
(* the run is cancelled, or an answer is lost and the command is repeated. *)
(*                                                                         *)
(* Contents are numbered per step as they first appear, as a hash tells    *)
(* them apart: a repeated step makes the same bytes or new ones.  Choices  *)
(* are the pages or shots a person selects.  The browser follows redirects,*)
(* so the pages a site's manifest lists may lie on another origin than the *)
(* one asked for (away).  Heartbeats, queue deliveries and the scheduling  *)
(* of the steps are in RunScheduler; capture_pages and analyze_regions are *)
(* one step here, and so are write, materialize, tts and render (compose). *)
(***************************************************************************)
EXTENDS Naturals

CONSTANTS Clients,       \* people, each with one page open
          Choices,       \* what a person may select of it
          None,          \* no choice, no decision, no step
          MaxAttempts,   \* maximum_attempts of each step
          MaxEvents      \* bound: lapses, lost answers, cancellations, retries

\* The two graphs: each step and the one it depends on.
Graphs ==
  [single |-> [validate |-> None, screenshot |-> "validate",
               compose |-> "screenshot", quality |-> "compose"],
   site   |-> [discover |-> None, capture_pages |-> "discover",
               storyboard |-> "capture_pages", compose |-> "storyboard",
               quality |-> "compose"]]

Nodes == {"validate", "screenshot", "discover", "capture_pages", "storyboard",
          "compose", "quality"}
SiteGates   == {"discover", "storyboard"}
StaticGates == SiteGates \union {"screenshot"}
Gates       == StaticGates \union {"quality"}
Decisions   == {"approve", "revise", "reject"}
Waiting     == {"queued", "retrying"}
Terminal    == {"succeeded", "failed", "cancelled"}

ASSUME ReviewAssumption ==
  /\ None \notin Choices \union Decisions \union Nodes
  /\ MaxAttempts \in [Nodes -> Nat \ {0}] /\ MaxEvents \in Nat

VARIABLES graph,     \* which of the two graphs the run has
          run,       \* the runs row
          step,      \* run_steps rows
          work,      \* executions: step, attempt, revision held, what was read
          attempts,  \* webpage_capture_attempts rows
          actions,   \* review_actions rows, with the bytes the command named
          client,    \* where each person's command is
          events     \* how much of MaxEvents is spent

vars == <<graph, run, step, work, attempts, actions, client, events>>

InGraph(n) == n \in DOMAIN Graphs[graph]
\* The step that n waits for; None for the first.
Before(n) == Graphs[graph][n]

NoReview == [dec |-> None, rev |-> 0, bytes |-> 0, choice |-> None]
Nothing  == [bytes |-> 0, choice |-> None]

Row(n) == [st |-> "queued", att |-> 0, max |-> MaxAttempts[n], rev |-> 1,
           out |-> 0, away |-> FALSE, from |-> Nothing, review |-> NoReview]
NoCommand(pc) == [pc |-> pc, gate |-> None, dec |-> None, rev |-> 0,
                  bytes |-> 0, choice |-> None, kept |-> FALSE]

Init ==
  /\ graph \in DOMAIN Graphs
  /\ run = [status |-> "queued", cancel |-> FALSE]
  /\ step = [n \in Nodes |-> Row(n)]
  /\ work = {} /\ attempts = {} /\ actions = {}
  /\ client = [c \in Clients |-> NoCommand("idle")]
  /\ events = 0

Event == events < MaxEvents /\ events' = events + 1

-----------------------------------------------------------------------------
(* Rows.                                                                   *)

Some(rows, states) == \E n \in Nodes : InGraph(n) /\ rows[n].st \in states
All(rows, states)  == \A n \in Nodes : InGraph(n) => rows[n].st \in states

\* aggregate_run_state, _synchronize_run_status
Aggregate(rows) ==
  IF All(rows, {"succeeded"}) THEN "succeeded"
  ELSE IF Some(rows, {"failed"}) THEN "failed"
  ELSE IF All(rows, Terminal) THEN "cancelled"
  ELSE IF Some(rows, {"awaiting_review"}) THEN "awaiting_review"
  ELSE IF Some(rows, {"running", "retrying"}) THEN "running"
  ELSE "queued"

Write(r, status) == [r EXCEPT !.st = status, !.rev = @ + 1]
\* fail_step: another attempt while there is one left.
FailStep(r, retry) ==
  Write(r, IF retry /\ r.att < r.max THEN "retrying" ELSE "failed")

\* The worker's own record of a review knows neither the reviewed revision nor
\* the evidence: both are gone once it has written the row.
WorkerCopy(review) == [review EXCEPT !.rev = 0, !.bytes = 0]

StartStep(r) == [Write(r, "running") EXCEPT !.att = @ + 1, !.review = WorkerCopy(@)]

\* Faulty: leaves the decision on the previous attempt in the row.
FinishKeepingReview(r, status, bytes, away, from) ==
  [Write(r, status) EXCEPT !.out = bytes, !.away = away, !.from = from]
FinishStep(r, status, bytes, away, from) ==
  [Write(r, status) EXCEPT !.out = bytes, !.away = away, !.from = from,
     !.review = IF status = "awaiting_review" THEN NoReview ELSE WorkerCopy(@)]

\* A capture attempt's number is recorded once; another outcome for the same
\* number aborts the transaction that wants to save the step.
Unrecorded(n, att) == n = "screenshot" => \A a \in attempts : a.att # att
Recorded(n, row, ok) ==
  IF n = "screenshot"
  THEN attempts \union {[att |-> row.att, rev |-> row.rev, ok |-> ok,
                         bytes |-> IF ok THEN row.out ELSE 0]}
  ELSE attempts

-----------------------------------------------------------------------------
(* Workers.                                                                *)

\* What an execution reads of the step before it: a gate's evidence with the
\* approved selection, or what that step was itself made from.
ReadFrom(n) ==
  IF Before(n) = None THEN Nothing
  ELSE IF Before(n) \in Gates
       THEN [bytes |-> step[Before(n)].out, choice |-> step[Before(n)].review.choice]
       ELSE step[Before(n)].from

Claim(n) ==
  /\ InGraph(n) /\ step[n].st \in Waiting /\ step[n].att < step[n].max
  /\ Before(n) # None => step[Before(n)].st = "succeeded"
  /\ ~run.cancel
  /\ step' = [step EXCEPT ![n] = StartStep(step[n])]
  /\ work' = work \union
       {[n |-> n, att |-> step'[n].att, rev |-> step'[n].rev, from |-> ReadFrom(n)]}
  /\ UNCHANGED <<graph, run, attempts, actions, client, events>>

Holds(e) == step[e.n].st = "running" /\ step[e.n].att = e.att
Done(e) == work' = work \ {e}

\* The capabilities behind a gate refuse evidence without an approval, and a
\* selection that was made of other bytes.
Refuses(e) ==
  LET gate == Before(e.n) IN
  gate \in StaticGates /\ (step[gate].review.dec # "approve"
                           \/ step[gate].review.bytes # e.from.bytes)

\* The same bytes as before, or new ones.
Contents(n) ==
  IF n \notin StaticGates THEN {0} ELSE {step[n].out, step[n].out + 1} \ {0}

\* Whether the pages listed lie on another origin than the one asked for; the
\* bytes tell.
Redirects(n, bytes) ==
  IF n \notin SiteGates THEN {FALSE}
  ELSE IF bytes = step[n].out THEN {step[n].away} ELSE BOOLEAN

\* The fenced last write, with the capture attempt in the same transaction.
Finish(e) ==
  /\ e \in work /\ ~Refuses(e)
  /\ step[e.n].rev = e.rev /\ Unrecorded(e.n, e.att)
  /\ \E bytes \in Contents(e.n) : \E away \in Redirects(e.n, bytes) :
     \E risk \in (IF e.n = "quality" THEN BOOLEAN ELSE {FALSE}) :
       LET status == IF e.n \in StaticGates \/ risk THEN "awaiting_review"
                     ELSE "succeeded"
           row == FinishStep(step[e.n], status, bytes, away, e.from)
       IN  /\ step' = [step EXCEPT ![e.n] = row]
           /\ attempts' = Recorded(e.n, row, TRUE)
  /\ Done(e)
  /\ UNCHANGED <<graph, run, actions, client, events>>

\* _fail_claimed; a raised error is retryable or not, and an execution that has
\* lost its step just ends.
Fail(e) ==
  /\ e \in work
  /\ \E retryable \in BOOLEAN :
       LET row == FailStep(step[e.n], retryable /\ ~Refuses(e)) IN
       IF Holds(e) /\ Unrecorded(e.n, e.att)
       THEN /\ step' = [step EXCEPT ![e.n] = row]
            /\ attempts' = Recorded(e.n, row, FALSE)
       ELSE UNCHANGED <<step, attempts>>
  /\ Done(e)
  /\ UNCHANGED <<graph, run, actions, client, events>>

\* A checkpoint notices the cancellation.
StopCancelled(e) ==
  /\ e \in work /\ run.cancel
  /\ step' = IF Holds(e) THEN [step EXCEPT ![e.n] = Write(@, "cancelled")] ELSE step
  /\ Done(e)
  /\ UNCHANGED <<graph, run, attempts, actions, client, events>>

\* The lease of a running step lapses, its worker gone or still at it, and
\* recover() turns the row around.
Recover(n) ==
  LET row == FailStep(step[n], TRUE) IN
  /\ InGraph(n) /\ step[n].st = "running" /\ Unrecorded(n, step[n].att)
  /\ Event
  /\ step' = [step EXCEPT ![n] = row]
  /\ attempts' = Recorded(n, row, FALSE)
  /\ UNCHANGED <<graph, run, work, actions, client>>

\* schedule_ready: what waits behind a step that ended badly never runs.
CancelBlocked(n) ==
  /\ InGraph(n) /\ step[n].st \in Waiting
  /\ Before(n) # None /\ step[Before(n)].st \in {"failed", "cancelled"}
  /\ step' = [step EXCEPT ![n] = Write(@, "cancelled")]
  /\ UNCHANGED <<graph, run, work, attempts, actions, client, events>>

\* _sync_run
SyncRun ==
  /\ run' = [run EXCEPT !.status = Aggregate(step)]
  /\ UNCHANGED <<graph, step, work, attempts, actions, client, events>>

-----------------------------------------------------------------------------
(* What the control plane shows.                                           *)

\* _run_status
RunStatus ==
  LET at(n, states) == InGraph(n) /\ step[n].st \in states
      active == Waiting \union {"running"}
  IN
  IF run.status \in Terminal THEN run.status
  ELSE IF run.cancel THEN "cancelling"
  ELSE IF at("discover", {"awaiting_review"}) THEN "awaiting_scope_review"
  ELSE IF at("discover", active) THEN "discovering"
  ELSE IF at("capture_pages", active) THEN "capturing_pages"
  ELSE IF at("storyboard", {"awaiting_review"}) THEN "awaiting_storyboard_review"
  ELSE IF at("storyboard", active) THEN "analyzing_regions"
  ELSE IF at("screenshot", {"awaiting_review"}) THEN "awaiting_capture_review"
  ELSE IF at("quality", {"awaiting_review"}) THEN "quality_review_required"
  ELSE IF Some(step, {"awaiting_review"}) THEN "failed"
  ELSE IF at("quality", {"running", "retrying"}) THEN "quality_check"
  ELSE IF at("storyboard", {"succeeded"}) \/ at("screenshot", {"succeeded"})
       THEN "composing"
  ELSE IF at("screenshot", {"running", "retrying"}) THEN "capturing"
  ELSE IF at("validate", {"succeeded"}) THEN "capturing"
  ELSE IF at("validate", {"running", "retrying"}) THEN "validating"
  ELSE "queued"

GateShown(n) ==
  CASE n = "discover"   -> "awaiting_scope_review"
    [] n = "storyboard" -> "awaiting_storyboard_review"
    [] n = "screenshot" -> "awaiting_capture_review"
    [] n = "quality"    -> "quality_review_required"
    [] OTHER            -> None

\* _matching_attempt
Matching(rev) ==
  LET row == step["screenshot"] IN
  \E a \in attempts : a.ok /\ a.rev = rev /\ a.att = row.att /\ a.bytes = row.out

-----------------------------------------------------------------------------
(* Commands: a person opens a page, decides, and sends; the handler checks *)
(* the rows it reads and then decides in a transaction.                    *)

Open(c, n) ==
  /\ client[c].pc \in {"idle", "told"} /\ RunStatus = GateShown(n)
  /\ \E dec \in Decisions :
     \E choice \in (IF n \in SiteGates THEN Choices ELSE {None}) :
       client' = [client EXCEPT ![c] =
         [pc |-> "send", gate |-> n, dec |-> dec, rev |-> step[n].rev,
          bytes |-> step[n].out, choice |-> choice, kept |-> FALSE]]
  /\ UNCHANGED <<graph, run, step, work, attempts, actions, events>>

\* The answer arrives, or is lost and the command sent again, key and all.
Tell(c, kept) ==
  \/ client' = [client EXCEPT ![c] = NoCommand("told")] /\ UNCHANGED events
  \/ client' = [client EXCEPT ![c].pc = "send", ![c].kept = kept] /\ Event
Refuse(c) == client' = [client EXCEPT ![c] = NoCommand("idle")] /\ UNCHANGED events

\* The same decision on the same evidence is in the row already.
Replays(q, row) ==
  /\ row.review.dec = q.dec /\ row.review.rev = q.rev /\ row.out = q.bytes
  /\ row.review.choice = q.choice
  /\ q.gate = "screenshot" => row.review.bytes = q.bytes

\* _site_manifest_content: the pages or shots a decision has to name.
Displayed(row) == row.out # 0 /\ ~row.away

\* review_site_manifest
SiteAdmits(q, row) ==
  row.rev = q.rev /\ row.out = q.bytes /\ row.review.dec = None

\* review_capture
CaptureAdmits(q, row) ==
  /\ row.rev = q.rev /\ row.st = "awaiting_review"
  /\ ~run.cancel /\ run.status \notin Terminal
  /\ q.dec = "revise" => row.att < row.max

\* What a handler asks of the evidence before it looks at anything else.
Visible(q, row) ==
  CASE q.gate \in SiteGates    -> Displayed(row)
    [] q.gate = "screenshot"   -> row.out = q.bytes /\ Matching(q.rev)
    [] OTHER                   -> TRUE
Admits(q, row) ==
  CASE q.gate \in SiteGates    -> SiteAdmits(q, row)
    [] q.gate = "screenshot"   -> CaptureAdmits(q, row)
    [] OTHER                   -> TRUE

\* The handler up to the transaction; the generic endpoint, which only the
\* quality step may use, reads nothing that could refuse.
Check(c) ==
  LET q == client[c]
      row == step[q.gate]
      replays == q.gate # "quality" /\ Visible(q, row) /\ Replays(q, row)
      admits == Visible(q, row) /\ Admits(q, row)
  IN
  /\ q.pc = "send"
  /\ \/ replays /\ Tell(c, q.kept)
     \/ ~replays /\ admits /\ client' = [client EXCEPT ![c].pc = "decide"]
        /\ UNCHANGED events
     \/ ~replays /\ ~admits /\ Refuse(c)
  /\ UNCHANGED <<graph, run, step, work, attempts, actions>>

Reviewed(q, row) ==
  LET status == IF q.dec = "approve" THEN "succeeded"
                ELSE IF q.dec = "revise" /\ row.att < row.max THEN "retrying"
                ELSE "failed"
  IN  [Write(row, status) EXCEPT !.review =
         [dec |-> q.dec, rev |-> row.rev, bytes |-> row.out, choice |-> q.choice]]

\* Faulty: decides on whatever waits for a decision.
AcceptsAny(q, row) ==
  ~run.cancel /\ run.status \notin Terminal /\ row.st = "awaiting_review"
Accepts(q, row) ==
  /\ ~run.cancel /\ run.status \notin Terminal
  /\ row.st = "awaiting_review" /\ row.rev = q.rev

\* review_run_step_idempotently: the key's record answers a repetition.
Decide(c) ==
  LET q == client[c]
      row == step[q.gate]
  IN
  /\ q.pc = "decide"
  /\ \/ q.kept /\ Tell(c, TRUE) /\ UNCHANGED <<step, run, actions>>
     \/ ~q.kept /\ ~Accepts(q, row) /\ Refuse(c) /\ UNCHANGED <<step, run, actions>>
     \/ /\ ~q.kept /\ Accepts(q, row)
        /\ step' = [step EXCEPT ![q.gate] = Reviewed(q, row)]
        /\ run' = [run EXCEPT !.status = Aggregate(step')]
        /\ actions' = actions \union
             {[gate |-> q.gate, dec |-> q.dec, rev |-> row.rev,
               choice |-> q.choice, seen |-> q.bytes]}
        /\ Tell(c, TRUE)
  /\ UNCHANGED <<graph, work, attempts>>

\* cancel_run_idempotently
Cancel ==
  LET open(n) == InGraph(n) /\ step[n].st \notin Terminal IN
  /\ run.status \notin Terminal /\ ~run.cancel /\ Event
  /\ step' = [n \in Nodes |->
       IF ~open(n) THEN step[n]
       ELSE Write(step[n], IF step[n].st = "running" THEN "running" ELSE "cancelled")]
  /\ run' = [status |-> Aggregate(step'), cancel |-> TRUE]
  /\ UNCHANGED <<graph, work, attempts, actions, client>>

\* The manual retry's safety limit.
RetryLimit == 20

\* retry_run_step of a webpage run: the quality step only.
RetryQuality ==
  LET row == step["quality"] IN
  /\ row.st = "failed" /\ ~run.cancel /\ row.att < RetryLimit /\ Event
  /\ step' = [step EXCEPT !["quality"] =
       [Write(row, "retrying") EXCEPT !.max = IF row.max > row.att THEN row.max
                                              ELSE row.att + 1]]
  /\ run' = [run EXCEPT !.status = Aggregate(step')]
  /\ UNCHANGED <<graph, work, attempts, actions, client>>

-----------------------------------------------------------------------------
Next ==
  \/ \E n \in Nodes : Claim(n) \/ Recover(n) \/ CancelBlocked(n)
  \/ \E e \in work : Finish(e) \/ Fail(e) \/ StopCancelled(e)
  \/ SyncRun \/ Cancel \/ RetryQuality
  \/ \E c \in Clients : \/ Check(c) \/ Decide(c)
                        \/ \E n \in Gates : Open(c, n)

Spec == Init /\ [][Next]_vars

-----------------------------------------------------------------------------
(* Properties.                                                             *)

\* The gate whose decision n rests on.
GateOf(n) ==
  IF n \in {"capture_pages", "storyboard"} THEN "discover"
  ELSE IF graph = "site" THEN "storyboard" ELSE "screenshot"
BehindGate == IF graph = "site" THEN {"capture_pages", "storyboard", "compose", "quality"}
              ELSE {"compose", "quality"}

\* Whatever is made behind a gate is made from bytes, and with a selection, that
\* a person approved who had exactly these bytes before them; and the gate still
\* holds them.
WorkedFromApproved ==
  \A n \in BehindGate :
    (step[n].st \in {"running", "awaiting_review", "succeeded"} \/ step[n].from # Nothing)
    => LET g == GateOf(n) IN
       /\ step[g].st = "succeeded"
       /\ \E a \in actions :
            /\ a.gate = g /\ a.dec = "approve"
            /\ a.seen = step[g].out /\ a.choice = step[g].review.choice
            /\ step[n].from # Nothing =>
                 step[n].from = [bytes |-> a.seen, choice |-> a.choice]

\* Whoever is told that their command was accepted finds it recorded as the
\* decision on the evidence it named.
AcceptedIsRecorded ==
  \A c \in Clients : client[c].pc # "told" /\ client'[c].pc = "told" =>
    \E a \in actions' : /\ a.gate = client[c].gate /\ a.dec = client[c].dec
                        /\ a.rev = client[c].rev /\ a.seen = client[c].bytes
                        /\ a.choice = client[c].choice

\* A capture that runs can still be recorded, else nothing could end its step.
CaptureCanEnd ==
  step["screenshot"].st = "running" => Unrecorded("screenshot", step["screenshot"].att)

\* A gate that waits is the one the run shows, and it can be decided on, with one
\* exception: nobody can approve or reject a manifest whose pages lie on another
\* origin.  A run shown as failed has failed.
GateCanBeDecided ==
  /\ \A n \in Nodes :
       InGraph(n) /\ step[n].st = "awaiting_review"
         /\ ~run.cancel /\ run.status \notin Terminal
       => /\ RunStatus = GateShown(n)
          /\ \A dec \in {"approve", "reject"} :
               LET q == [gate |-> n, dec |-> dec, rev |-> step[n].rev,
                         bytes |-> step[n].out]
               IN  Visible(q, step[n]) /\ Admits(q, step[n]) /\ Accepts(q, step[n])
                   <=> ~(n \in SiteGates /\ step[n].away)
  /\ RunStatus = "failed" => run.status = "failed"

\* Nor does a command that is already on its way decide on such a manifest: the
\* gate is left by a cancellation only.
OnlyCancelled ==
  \A n \in SiteGates :
    step[n].st = "awaiting_review" /\ step[n].away /\ step'[n] # step[n] => run'.cancel

\* What the control plane answers is so.
AnswersAreTrue ==
  [][CaptureCanEnd' /\ GateCanBeDecided' /\ AcceptedIsRecorded /\ OnlyCancelled]_vars
=============================================================================
