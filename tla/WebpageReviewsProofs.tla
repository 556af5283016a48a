------------------------ MODULE WebpageReviewsProofs ------------------------
(***************************************************************************)
(* Machine-checked: whatever lies behind a gate of a webpage video was     *)
(* made from what a person approved, for any number of people, selections, *)
(* attempts and repetitions.  The argument: a row's revision grows with    *)
(* every write, so a command that names the revision in the row names the  *)
(* bytes in the row (CommandsKnow); an approved gate is never written      *)
(* again (Moved); and what an execution read of it is therefore still in   *)
(* it when the execution ends (WorkKnows).                                 *)
(* Then, what people are told: every review in a row and every kept answer *)
(* is among the recorded decisions, so an accepted command is one of them; *)
(* and a gate that waits has evidence, no decision and a finished step     *)
(* before it, so the run shows it and the handlers admit a decision on it, *)
(* unless its manifest lists pages of another origin: a command that gets  *)
(* past the handler's check is about a manifest that could be displayed.   *)
(***************************************************************************)
EXTENDS WebpageReviews, TLAPS

States == Waiting \union Terminal \union {"running", "awaiting_review"}
Under == {"running", "awaiting_review", "succeeded"}
FromType == [bytes : Nat, choice : Choices \union {None}]
ReviewType == [dec : Decisions \union {None}, rev : Nat, bytes : Nat,
               choice : Choices \union {None}]
RowType == [st : States, att : Nat, max : Nat, rev : Nat, out : Nat, away : BOOLEAN,
            from : FromType, review : ReviewType]
WorkType == [n : Nodes, att : Nat, rev : Nat, from : FromType]
CommandType == [pc : {"idle", "told", "send", "decide"}, gate : Gates \union {None},
                dec : Decisions \union {None}, rev : Nat, bytes : Nat,
                choice : Choices \union {None}, kept : BOOLEAN]

TypeOK ==
  /\ graph \in {"single", "site"}
  /\ step \in [Nodes -> RowType]
  /\ work \in SUBSET WorkType
  /\ client \in [Clients -> CommandType]

\* What the gate before n holds: its evidence and the selection.
Held(n) == [bytes |-> step[GateOf(n)].out, choice |-> step[GateOf(n)].review.choice]
Passed(n) == step[GateOf(n)].st = "succeeded"

\* An approved gate has the decision on its very bytes among the actions.
Approved(g) ==
  \E a \in actions : /\ a.gate = g /\ a.dec = "approve"
                     /\ a.seen = step[g].out /\ a.choice = step[g].review.choice
GatesApproved == \A g \in StaticGates : step[g].st = "succeeded" => Approved(g)

RowsKnow ==
  \A n \in BehindGate :
    /\ step[n].st \in Under \/ step[n].from # Nothing => Passed(n)
    /\ step[n].st \in {"awaiting_review", "succeeded"} \/ step[n].from # Nothing
       => step[n].from = Held(n)

WorkKnows ==
  \A e \in work :
    /\ InGraph(e.n) /\ e.rev <= step[e.n].rev
    /\ e.rev = step[e.n].rev => step[e.n].st = "running"
    /\ e.n \in BehindGate => Passed(e.n) /\ e.from = Held(e.n)

Sent(q) == q.pc \in {"send", "decide"}
\* The manifest that a site's command is about lists the site's own pages.
Informed(q) == q.gate \in SiteGates => ~step[q.gate].away
Knows(q) ==
  /\ q.gate \in Gates /\ q.dec \in Decisions /\ q.rev <= step[q.gate].rev
  /\ q.rev = step[q.gate].rev => q.bytes = step[q.gate].out
  /\ q.rev = step[q.gate].rev /\ q.pc = "decide" => Informed(q)
CommandsKnow == \A c \in Clients : Sent(client[c]) => Knows(client[c])

IInv == TypeOK /\ GatesApproved /\ RowsKnow /\ WorkKnows /\ CommandsKnow

-----------------------------------------------------------------------------
(* The graphs.                                                             *)

LEMMA GateFacts ==
  ASSUME graph \in {"single", "site"}
  PROVE  /\ BehindGate \subseteq Nodes
         /\ \A n \in BehindGate : GateOf(n) \in StaticGates /\ InGraph(n)
         /\ StaticGates \subseteq Nodes /\ Gates \subseteq Nodes
         /\ \A n \in Nodes : InGraph(n) <=> n \in DOMAIN Graphs[graph]
BY DEF BehindGate, GateOf, StaticGates, SiteGates, Gates, Nodes, InGraph, Graphs

\* What n waits for is its gate, or lies behind the same gate and is not one.
LEMMA BeforeFacts ==
  ASSUME graph \in {"single", "site"}, NEW n \in BehindGate
  PROVE  /\ Before(n) # None /\ Before(n) \in Nodes
         /\ \/ Before(n) = GateOf(n) /\ Before(n) \in Gates
            \/ /\ Before(n) \in BehindGate /\ Before(n) \notin Gates
               /\ GateOf(Before(n)) = GateOf(n)
<1>1. CASE graph = "single"
  BY <1>1, ReviewAssumption DEF BehindGate, GateOf, Gates, StaticGates, SiteGates, Nodes, Before, Graphs
<1>2. CASE graph = "site"
  BY <1>2, ReviewAssumption DEF BehindGate, GateOf, Gates, StaticGates, SiteGates, Nodes, Before, Graphs
<1> QED BY <1>1, <1>2

-----------------------------------------------------------------------------
(* What a step may do to the rows, the executions and the commands.        *)

\* n's row is written: it is no approved gate, and what it says of its origin
\* is so.
Moved(n) ==
  /\ step'[n].rev > step[n].rev
  /\ n \in StaticGates => step[n].st # "succeeded"
  /\ n \in StaticGates /\ step'[n].st = "succeeded" => Approved(n)'
  /\ n \in BehindGate =>
       /\ step'[n].st \in Under \/ step'[n].from # Nothing => Passed(n)
       /\ step'[n].st \in {"awaiting_review", "succeeded"} \/ step'[n].from # Nothing
          => step'[n].from = Held(n)
RowsMove == \A n \in Nodes : step'[n] = step[n] \/ Moved(n)

\* An execution begins with the row it has just written.
Begun(e) ==
  /\ InGraph(e.n) /\ e.rev = step'[e.n].rev /\ step'[e.n].st = "running"
  /\ e.n \in BehindGate => Passed(e.n) /\ e.from = Held(e.n)
WorkMoves ==
  \A e \in work' : \/ e \in work /\ (step'[e.n] # step[e.n] => step'[e.n].rev > step[e.n].rev)
                  \/ Begun(e)

\* A command is put away, goes on (to the decision with what is displayed now), or
\* is written on the page open now.
CommandsMove ==
  \A c \in Clients :
    Sent(client'[c]) =>
      \/ /\ Sent(client[c]) /\ client'[c].gate = client[c].gate
         /\ client'[c].dec = client[c].dec
         /\ client'[c].rev = client[c].rev /\ client'[c].bytes = client[c].bytes
         /\ client'[c].pc = "decide" =>
              client[c].pc = "decide" \/ (step' = step /\ Informed(client[c]))
      \/ Knows(client[c])' /\ step' = step

LEMMA Preserved ==
  ASSUME IInv, TypeOK', graph' = graph, actions \subseteq actions',
         RowsMove, WorkMoves, CommandsMove
  PROVE  IInv'
<1>1. graph \in {"single", "site"} /\ step \in [Nodes -> RowType] /\ step' \in [Nodes -> RowType]
      /\ work \subseteq WorkType /\ work' \subseteq WorkType
  BY DEF IInv, TypeOK
<1>2. /\ BehindGate' = BehindGate /\ \A n : InGraph(n)' = InGraph(n)
      /\ \A n \in Nodes : GateOf(n)' = GateOf(n)
  BY DEF BehindGate, InGraph, GateOf
<1>3. \A g \in StaticGates : step[g].st = "succeeded" => step'[g] = step[g]
  BY <1>1, GateFacts DEF RowsMove, Moved
<1>4. \A n \in BehindGate : Passed(n) => Passed(n)' /\ Held(n)' = Held(n)
  <2> TAKE n \in BehindGate
  <2> HAVE Passed(n)
  <2>1. GateOf(n) \in StaticGates /\ GateOf(n)' = GateOf(n)
    BY <1>1, <1>2, GateFacts
  <2>2. step'[GateOf(n)] = step[GateOf(n)]
    BY <1>3, <2>1 DEF Passed
  <2> QED BY <2>1, <2>2 DEF Passed, Held
<1>5. GatesApproved'
  <2> SUFFICES ASSUME NEW g \in StaticGates, step'[g].st = "succeeded"
               PROVE  Approved(g)'
    BY DEF GatesApproved
  <2>1. CASE step'[g] = step[g]
    BY <2>1 DEF IInv, GatesApproved, Approved
  <2>2. CASE Moved(g)
    BY <2>2 DEF Moved
  <2> QED BY <2>1, <2>2, <1>1, GateFacts DEF RowsMove
<1>6. RowsKnow'
  <2> SUFFICES ASSUME NEW n \in BehindGate
               PROVE  /\ step'[n].st \in Under \/ step'[n].from # Nothing => Passed(n)'
                      /\ step'[n].st \in {"awaiting_review", "succeeded"}
                           \/ step'[n].from # Nothing => step'[n].from = Held(n)'
    BY <1>2 DEF RowsKnow
  <2>1. n \in Nodes
    BY <1>1, GateFacts
  <2>2. /\ step'[n].st \in Under \/ step'[n].from # Nothing => Passed(n)
        /\ step'[n].st \in {"awaiting_review", "succeeded"}
             \/ step'[n].from # Nothing => step'[n].from = Held(n)
    BY <2>1 DEF IInv, RowsKnow, RowsMove, Moved
  <2> QED BY <2>2, <1>4 DEF Under
<1>7. WorkKnows'
  <2> SUFFICES ASSUME NEW e \in work'
               PROVE  /\ InGraph(e.n) /\ e.rev <= step'[e.n].rev
                      /\ e.rev = step'[e.n].rev => step'[e.n].st = "running"
                      /\ e.n \in BehindGate => Passed(e.n)' /\ e.from = Held(e.n)'
    BY <1>1, <1>2 DEF WorkKnows, WorkType
  <2>1. e.n \in Nodes /\ e.rev \in Nat /\ step[e.n].rev \in Nat /\ step'[e.n].rev \in Nat
    BY <1>1 DEF WorkType, RowType
  <2>2. CASE e \in work /\ (step'[e.n] # step[e.n] => step'[e.n].rev > step[e.n].rev)
    <3>1. /\ InGraph(e.n) /\ e.rev <= step[e.n].rev
          /\ e.rev = step[e.n].rev => step[e.n].st = "running"
          /\ e.n \in BehindGate => Passed(e.n) /\ e.from = Held(e.n)
      BY <2>2 DEF IInv, WorkKnows
    <3>2. e.n \in BehindGate => Passed(e.n)' /\ e.from = Held(e.n)'
      BY <3>1, <1>4
    <3>3. CASE step'[e.n] = step[e.n]
      BY <3>1, <3>2, <3>3
    <3>4. CASE step'[e.n].rev > step[e.n].rev
      BY <3>1, <3>2, <3>4, <2>1
    <3> QED BY <3>3, <3>4, <2>2
  <2>3. CASE Begun(e)
    BY <2>1, <2>3, <1>4 DEF Begun
  <2> QED BY <2>2, <2>3 DEF WorkMoves
<1>8. CommandsKnow'
  <2> SUFFICES ASSUME NEW c \in Clients, Sent(client'[c])
               PROVE  Knows(client[c])'
    BY DEF CommandsKnow, Sent
  <2>1. CASE /\ Sent(client[c]) /\ client'[c].gate = client[c].gate
             /\ client'[c].dec = client[c].dec
             /\ client'[c].rev = client[c].rev /\ client'[c].bytes = client[c].bytes
             /\ client'[c].pc = "decide" =>
                  client[c].pc = "decide" \/ (step' = step /\ Informed(client[c]))
    <3> DEFINE g == client[c].gate
    <3>1. /\ g \in Gates /\ client[c].dec \in Decisions
          /\ client[c].rev <= step[g].rev
          /\ client[c].rev = step[g].rev => client[c].bytes = step[g].out
          /\ client[c].rev = step[g].rev /\ client[c].pc = "decide" => Informed(client[c])
      BY <2>1 DEF IInv, CommandsKnow, Knows
    <3>2. g \in Nodes
      BY <3>1, <1>1, GateFacts
    <3>3. step[g].rev \in Nat /\ step'[g].rev \in Nat /\ client[c].rev \in Nat
      BY <3>2, <1>1 DEF RowType, IInv, TypeOK, CommandType
    <3>4. step'[g] = step[g] \/ step'[g].rev > step[g].rev
      BY <3>2 DEF RowsMove, Moved
    <3>5. client[c].rev <= step'[g].rev
      BY <3>1, <3>3, <3>4
    <3>6. ASSUME client[c].rev = step'[g].rev
          PROVE  step'[g] = step[g]
      BY <3>1, <3>3, <3>4, <3>6
    <3>7. client'[c].rev = step'[g].rev => client'[c].bytes = step'[g].out
      BY <2>1, <3>1, <3>6
    <3>8. ASSUME client'[c].rev = step'[g].rev, client'[c].pc = "decide"
          PROVE  Informed(client[c])'
      <4>1. step'[g] = step[g]
        BY <2>1, <3>6, <3>8
      <4>2. Informed(client[c])
        BY <2>1, <3>1, <3>8, <4>1
      <4> QED BY <2>1, <4>1, <4>2 DEF Informed
    <3> QED BY <2>1, <3>1, <3>5, <3>7, <3>8 DEF Knows
  <2>2. CASE Knows(client[c])' /\ step' = step
    BY <2>2
  <2> QED BY <2>1, <2>2 DEF CommandsMove
<1> QED BY <1>5, <1>6, <1>7, <1>8 DEF IInv

-----------------------------------------------------------------------------
(* The writes of one row.                                                  *)

LEMMA WriteFacts ==
  ASSUME NEW r \in RowType, NEW status \in States
  PROVE  /\ Write(r, status) \in RowType
         /\ Write(r, status).st = status /\ Write(r, status).rev = r.rev + 1
         /\ Write(r, status).rev > r.rev
         /\ Write(r, status).from = r.from /\ Write(r, status).out = r.out
         /\ Write(r, status).review = r.review /\ Write(r, status).att = r.att
<1>1. r.rev \in Nat /\ r.rev + 1 \in Nat /\ r.rev + 1 > r.rev
  BY DEF RowType
<1>2. [r EXCEPT !.st = status, !.rev = r.rev + 1] \in RowType
  BY <1>1 DEF RowType
<1>3. Write(r, status) = [r EXCEPT !.st = status, !.rev = r.rev + 1]
  BY DEF Write
<1>4. /\ Write(r, status).st = status /\ Write(r, status).rev = r.rev + 1
      /\ Write(r, status).from = r.from /\ Write(r, status).out = r.out
      /\ Write(r, status).review = r.review /\ Write(r, status).att = r.att
  BY <1>3 DEF RowType
<1> QED BY <1>1, <1>2, <1>3, <1>4

LEMMA WorkerCopyType ==
  ASSUME NEW v \in ReviewType
  PROVE  WorkerCopy(v) \in ReviewType
BY DEF WorkerCopy, ReviewType

LEMMA StartFacts ==
  ASSUME NEW r \in RowType
  PROVE  /\ StartStep(r) \in RowType /\ StartStep(r).st = "running"
         /\ StartStep(r).rev > r.rev /\ StartStep(r).from = r.from
<1> DEFINE w == Write(r, "running")
<1>1. "running" \in States
  BY DEF States
<1>2. w \in RowType /\ w.rev > r.rev /\ w.from = r.from /\ w.st = "running"
  BY <1>1, WriteFacts
<1>3. WorkerCopy(w.review) \in ReviewType /\ w.att + 1 \in Nat
  BY <1>2, WorkerCopyType DEF RowType
<1>4. StartStep(r) = [w EXCEPT !.att = w.att + 1, !.review = WorkerCopy(w.review)]
  BY DEF StartStep
<1> HIDE DEF w
<1> QED BY <1>2, <1>3, <1>4 DEF RowType

LEMMA FinishFacts ==
  ASSUME NEW r \in RowType, NEW status \in States, NEW bytes \in Nat, NEW away \in BOOLEAN,
         NEW from \in FromType
  PROVE  /\ FinishStep(r, status, bytes, away, from) \in RowType
         /\ FinishStep(r, status, bytes, away, from).st = status
         /\ FinishStep(r, status, bytes, away, from).rev > r.rev
         /\ FinishStep(r, status, bytes, away, from).from = from
<1> DEFINE w == Write(r, status)
           v == IF status = "awaiting_review" THEN NoReview ELSE WorkerCopy(w.review)
<1>1. w \in RowType /\ w.rev > r.rev /\ w.st = status
  BY WriteFacts
<1>2. NoReview \in ReviewType
  BY DEF NoReview, ReviewType
<1>3. v \in ReviewType
  BY <1>1, <1>2, WorkerCopyType DEF RowType
<1>4. FinishStep(r, status, bytes, away, from)
        = [w EXCEPT !.out = bytes, !.away = away, !.from = from, !.review = v]
  BY DEF FinishStep
<1> HIDE DEF w, v
<1> QED BY <1>1, <1>3, <1>4 DEF RowType

LEMMA ReviewedFacts ==
  ASSUME NEW r \in RowType, NEW q \in CommandType, q.dec \in Decisions
  PROVE  LET f == Reviewed(q, r) IN
         /\ f \in RowType /\ f.rev > r.rev /\ f.from = r.from /\ f.out = r.out
         /\ f.st \in {"succeeded", "retrying", "failed"}
         /\ f.st = "succeeded" => q.dec = "approve"
         /\ f.review.choice = q.choice
<1> DEFINE status == IF q.dec = "approve" THEN "succeeded"
                     ELSE IF q.dec = "revise" /\ r.att < r.max THEN "retrying"
                     ELSE "failed"
           w == Write(r, status)
           v == [dec |-> q.dec, rev |-> r.rev, bytes |-> r.out, choice |-> q.choice]
<1>1. status \in States /\ status \in {"succeeded", "retrying", "failed"}
      /\ (status = "succeeded" => q.dec = "approve")
  BY DEF States, Waiting, Terminal
<1>2. w \in RowType /\ w.rev > r.rev /\ w.from = r.from /\ w.out = r.out /\ w.st = status
  BY <1>1, WriteFacts
<1>3. v \in ReviewType /\ v.choice = q.choice
  BY DEF ReviewType, RowType, CommandType
<1>4. Reviewed(q, r) = [w EXCEPT !.review = v]
  BY DEF Reviewed
<1> HIDE DEF w, v, status
<1> QED BY <1>1, <1>2, <1>3, <1>4 DEF RowType

LEMMA FailFacts ==
  ASSUME NEW r \in RowType, NEW retry \in BOOLEAN
  PROVE  LET f == FailStep(r, retry) IN
         /\ f \in RowType /\ f.rev > r.rev /\ f.from = r.from
         /\ f.st \in {"retrying", "failed"}
<1> DEFINE status == IF retry /\ r.att < r.max THEN "retrying" ELSE "failed"
<1>1. status \in States /\ status \in {"retrying", "failed"}
  BY DEF States, Waiting, Terminal
<1>2. FailStep(r, retry) = Write(r, status)
  BY DEF FailStep
<1> HIDE DEF status
<1> QED BY <1>1, <1>2, WriteFacts

-----------------------------------------------------------------------------
(* Steps that write one row, and those that write none.                    *)

\* What every step that writes row n and no command has to show.
LEMMA OneRow ==
  ASSUME IInv, NEW n \in Nodes, NEW row \in RowType,
         graph' = graph, client' = client, actions \subseteq actions',
         work' \in SUBSET WorkType, WorkMoves,
         step' = [step EXCEPT ![n] = row], Moved(n)
  PROVE  IInv'
<1>1. step \in [Nodes -> RowType]
  BY DEF IInv, TypeOK
<1>2. TypeOK'
  BY <1>1 DEF IInv, TypeOK
<1>3. RowsMove
  BY <1>1 DEF RowsMove
<1>4. CommandsMove
  BY DEF CommandsMove
<1> QED BY <1>2, <1>3, <1>4, Preserved

LEMMA NoRow ==
  ASSUME IInv, graph' = graph, step' = step, actions' = actions, TypeOK',
         work' \subseteq work, CommandsMove
  PROVE  IInv'
<1>1. RowsMove /\ WorkMoves
  BY DEF RowsMove, WorkMoves
<1> QED BY <1>1, Preserved

\* Executions that go on keep their claim when the written row grows.
LEMMA OldWork ==
  ASSUME IInv, NEW n \in Nodes, NEW row \in RowType, row.rev > step[n].rev,
         work' \subseteq work, step' = [step EXCEPT ![n] = row]
  PROVE  WorkMoves
BY DEF WorkMoves, IInv, TypeOK

\* A row that waits, runs or has ended badly has no decision to lose, and what
\* it says of its origin stays so.
LEMMA Rewritten ==
  ASSUME IInv, NEW n \in Nodes, NEW row \in RowType, row.rev > step[n].rev,
         row.from = step[n].from, n \in StaticGates => step[n].st # "succeeded",
         row.st \in {"queued", "retrying", "failed", "cancelled"}
                    \/ (row.st = "running" /\ step[n].st = "running"),
         step' = [step EXCEPT ![n] = row]
  PROVE  Moved(n)
<1>1. step'[n] = row
  BY DEF IInv, TypeOK
<1> QED BY <1>1 DEF Moved, IInv, RowsKnow, Under

-----------------------------------------------------------------------------
(* Workers.                                                                *)

LEMMA InitIInv == Init => IInv
<1> SUFFICES ASSUME Init PROVE IInv
  OBVIOUS
<1>1. graph \in {"single", "site"}
  BY DEF Init, Graphs
<1>2. \A n \in Nodes : Row(n) \in RowType
  BY ReviewAssumption DEF Row, RowType, States, Waiting, Nothing, FromType, NoReview, ReviewType
<1>3. NoCommand("idle") \in CommandType /\ ~Sent(NoCommand("idle"))
  BY DEF NoCommand, CommandType, Sent
<1>4. TypeOK
  BY <1>1, <1>2, <1>3 DEF Init, TypeOK
<1>5. \A n \in Nodes : step[n].st = "queued" /\ step[n].from = Nothing
  BY DEF Init, Row
<1>6. GatesApproved /\ RowsKnow
  BY <1>1, <1>5, GateFacts DEF GatesApproved, RowsKnow, Under
<1>7. WorkKnows /\ CommandsKnow
  BY <1>3 DEF Init, WorkKnows, CommandsKnow
<1> QED BY <1>4, <1>6, <1>7 DEF IInv

LEMMA ReadFacts ==
  ASSUME IInv, NEW n \in Nodes, InGraph(n),
         Before(n) # None => step[Before(n)].st = "succeeded"
  PROVE  /\ ReadFrom(n) \in FromType
         /\ n \in BehindGate => Passed(n) /\ ReadFrom(n) = Held(n)
<1>1. graph \in {"single", "site"} /\ step \in [Nodes -> RowType]
  BY DEF IInv, TypeOK
<1>2. Before(n) = None \/ Before(n) \in Nodes
  BY <1>1 DEF InGraph, Before, Graphs, Nodes
<1>3. ReadFrom(n) \in FromType
  <2>1. Nothing \in FromType
    BY DEF Nothing, FromType
  <2>2. ASSUME Before(n) \in Nodes
        PROVE  /\ step[Before(n)].from \in FromType
               /\ [bytes |-> step[Before(n)].out, choice |-> step[Before(n)].review.choice]
                    \in FromType
    BY <1>1, <2>2 DEF RowType, ReviewType, FromType
  <2> QED BY <2>1, <2>2, <1>2 DEF ReadFrom
<1>4. ASSUME n \in BehindGate
      PROVE  Passed(n) /\ ReadFrom(n) = Held(n)
  <2>1. Before(n) # None /\ step[Before(n)].st = "succeeded"
    BY <1>1, <1>4, BeforeFacts
  <2>2. CASE Before(n) = GateOf(n) /\ Before(n) \in Gates
    BY <2>1, <2>2 DEF Passed, ReadFrom, Held
  <2>3. CASE /\ Before(n) \in BehindGate /\ Before(n) \notin Gates
             /\ GateOf(Before(n)) = GateOf(n)
    <3>1. Passed(Before(n)) /\ step[Before(n)].from = Held(Before(n))
      BY <2>1, <2>3 DEF IInv, RowsKnow, Under
    <3> QED BY <2>1, <2>3, <3>1 DEF Passed, ReadFrom, Held
  <2> QED BY <2>2, <2>3, <1>1, <1>4, BeforeFacts
<1> QED BY <1>3, <1>4

LEMMA ClaimStep ==
  ASSUME IInv, NEW n \in Nodes, Claim(n)
  PROVE  IInv'
<1> DEFINE row == StartStep(step[n])
           e == [n |-> n, att |-> row.att, rev |-> row.rev, from |-> ReadFrom(n)]
<1>1. step \in [Nodes -> RowType] /\ step[n] \in RowType
  BY DEF IInv, TypeOK
<1>2. row \in RowType /\ row.st = "running" /\ row.rev > step[n].rev /\ row.from = step[n].from
  BY <1>1, StartFacts
<1>3. /\ ReadFrom(n) \in FromType
      /\ n \in BehindGate => Passed(n) /\ ReadFrom(n) = Held(n)
  BY ReadFacts DEF Claim
<1>4. step' = [step EXCEPT ![n] = row] /\ step'[n] = row
  BY <1>1 DEF Claim
<1>5. work' = work \union {e} /\ UNCHANGED <<graph, client, actions>>
  BY <1>4 DEF Claim
<1>6. Moved(n)
  <2>1. n \in StaticGates => step[n].st # "succeeded"
    BY DEF Claim, Waiting
  <2>2. n \in BehindGate /\ row.from # Nothing => row.from = Held(n)
    BY <1>2 DEF IInv, RowsKnow
  <2> HIDE DEF row
  <2> QED BY <1>2, <1>3, <1>4, <2>1, <2>2 DEF Moved
<1>7. e \in WorkType
  <2> HIDE DEF row
  <2> QED BY <1>2, <1>3 DEF WorkType, RowType
<1>8. WorkMoves
  <2> SUFFICES ASSUME NEW d \in work'
               PROVE  (d \in work /\ (step'[d.n] # step[d.n] => step'[d.n].rev > step[d.n].rev))
                      \/ Begun(d)
    BY DEF WorkMoves
  <2>1. CASE d \in work
    <3> HIDE DEF row
    <3> QED BY <2>1, <1>1, <1>2, <1>4 DEF IInv, TypeOK, WorkType
  <2>2. CASE d = e
    <3>1. e.n = n /\ e.rev = row.rev /\ e.from = ReadFrom(n)
      OBVIOUS
    <3>2. InGraph(n)
      BY DEF Claim
    <3> HIDE DEF row, e
    <3> QED BY <2>2, <3>1, <3>2, <1>2, <1>3, <1>4 DEF Begun
  <2> QED BY <2>1, <2>2, <1>5
<1>9. work' \in SUBSET WorkType
  BY <1>5, <1>7 DEF IInv, TypeOK
<1> HIDE DEF row, e
<1> QED BY <1>2, <1>4, <1>5, <1>6, <1>8, <1>9, OneRow

LEMMA Bookkeeping ==
  ASSUME IInv, step' = step, graph' = graph, actions' = actions, client' = client,
         work' \subseteq work
  PROVE  IInv'
<1>1. TypeOK' /\ CommandsMove
  BY DEF IInv, TypeOK, CommandsMove
<1> QED BY <1>1, NoRow

LEMMA FinishStepPreserves ==
  ASSUME IInv, NEW e \in work, Finish(e)
  PROVE  IInv'
<1>1. /\ step \in [Nodes -> RowType] /\ work \subseteq WorkType /\ e.n \in Nodes
      /\ step[e.n] \in RowType /\ e.from \in FromType
  BY DEF IInv, TypeOK, WorkType
<1>2. work' \subseteq work /\ work' \in SUBSET WorkType /\ UNCHANGED <<graph, client, actions>>
  BY <1>1 DEF Finish, Done
<1>3. PICK bytes \in Contents(e.n) : \E away \in Redirects(e.n, bytes) :
        \E risk \in (IF e.n = "quality" THEN BOOLEAN ELSE {FALSE}) :
        LET status == IF e.n \in StaticGates \/ risk THEN "awaiting_review" ELSE "succeeded"
            row == FinishStep(step[e.n], status, bytes, away, e.from)
        IN  /\ step' = [step EXCEPT ![e.n] = row]
            /\ attempts' = Recorded(e.n, row, TRUE)
  BY DEF Finish
<1>a. PICK away \in Redirects(e.n, bytes) :
        \E risk \in (IF e.n = "quality" THEN BOOLEAN ELSE {FALSE}) :
        LET status == IF e.n \in StaticGates \/ risk THEN "awaiting_review" ELSE "succeeded"
            row == FinishStep(step[e.n], status, bytes, away, e.from)
        IN  /\ step' = [step EXCEPT ![e.n] = row]
            /\ attempts' = Recorded(e.n, row, TRUE)
  BY <1>3
<1>r. PICK risk \in (IF e.n = "quality" THEN BOOLEAN ELSE {FALSE}) :
        LET status == IF e.n \in StaticGates \/ risk THEN "awaiting_review" ELSE "succeeded"
            row == FinishStep(step[e.n], status, bytes, away, e.from)
        IN  /\ step' = [step EXCEPT ![e.n] = row]
            /\ attempts' = Recorded(e.n, row, TRUE)
  BY <1>a
<1> DEFINE status == IF e.n \in StaticGates \/ risk THEN "awaiting_review" ELSE "succeeded"
           row == FinishStep(step[e.n], status, bytes, away, e.from)
<1>4. step' = [step EXCEPT ![e.n] = row]
  BY <1>r
<1>5. status \in States /\ status \in {"awaiting_review", "succeeded"}
      /\ (e.n \in StaticGates => status = "awaiting_review")
  BY DEF States, Terminal
<1>b. away \in BOOLEAN
  BY <1>1 DEF Redirects, RowType
<1>6. bytes \in Nat
  BY <1>1 DEF Contents, RowType
<1> HIDE DEF status
<1>7. row \in RowType /\ row.st = status /\ row.rev > step[e.n].rev /\ row.from = e.from
  <2>1. status \in States
    BY <1>5
  <2>2. step[e.n] \in RowType /\ e.from \in FromType
    BY <1>1
  <2> QED BY <2>1, <2>2, <1>6, <1>b, FinishFacts
<1> HIDE DEF row
<1>8. /\ step[e.n].st = "running"
      /\ e.n \in BehindGate => Passed(e.n) /\ e.from = Held(e.n)
  BY DEF Finish, IInv, WorkKnows
<1>9. step'[e.n] = row
  BY <1>1, <1>4
<1>10. Moved(e.n)
  BY <1>5, <1>7, <1>8, <1>9 DEF Moved
<1>11. WorkMoves
  BY <1>1, <1>2, <1>4, <1>7, OldWork
<1> QED BY <1>1, <1>2, <1>4, <1>7, <1>10, <1>11, OneRow

\* A step that rewrites a row whose origin it leaves alone.
LEMMA RewriteStep ==
  ASSUME IInv, NEW n \in Nodes, NEW row \in RowType, row.rev > step[n].rev,
         row.from = step[n].from, n \in StaticGates => step[n].st # "succeeded",
         row.st \in {"queued", "retrying", "failed", "cancelled"},
         step' = [step EXCEPT ![n] = row],
         graph' = graph, client' = client, actions' = actions, work' \subseteq work
  PROVE  IInv'
<1>1. Moved(n)
  <2>1. row.st \in {"queued", "retrying", "failed", "cancelled"}
          \/ (row.st = "running" /\ step[n].st = "running")
    OBVIOUS
  <2> QED BY <2>1, Rewritten
<1>2. WorkMoves
  BY OldWork
<1>3. work' \in SUBSET WorkType
  BY DEF IInv, TypeOK
<1> QED BY <1>1, <1>2, <1>3, OneRow

LEMMA FailStepPreserves ==
  ASSUME IInv, NEW e \in work, Fail(e)
  PROVE  IInv'
<1>1. e.n \in Nodes /\ step[e.n] \in RowType
  BY DEF IInv, TypeOK, WorkType
<1>2. work' \subseteq work /\ UNCHANGED <<graph, client, actions>>
  BY DEF Fail, Done
<1>3. PICK retryable \in BOOLEAN :
        LET row == FailStep(step[e.n], retryable /\ ~Refuses(e)) IN
        IF Holds(e) /\ Unrecorded(e.n, e.att)
        THEN /\ step' = [step EXCEPT ![e.n] = row]
             /\ attempts' = Recorded(e.n, row, FALSE)
        ELSE UNCHANGED <<step, attempts>>
  BY DEF Fail
<1> DEFINE retry == retryable /\ ~Refuses(e)
           row == FailStep(step[e.n], retry)
<1>4. row \in RowType /\ row.rev > step[e.n].rev /\ row.from = step[e.n].from
      /\ row.st \in {"retrying", "failed"}
  <2>1. retry \in BOOLEAN
    OBVIOUS
  <2> HIDE DEF retry
  <2> QED BY <1>1, <2>1, FailFacts
<1>5. CASE Holds(e) /\ Unrecorded(e.n, e.att)
  <2>1. step' = [step EXCEPT ![e.n] = row] /\ step[e.n].st = "running"
    BY <1>3, <1>5 DEF Holds
  <2> HIDE DEF row
  <2> QED BY <1>1, <1>2, <1>4, <2>1, RewriteStep
<1>6. CASE ~(Holds(e) /\ Unrecorded(e.n, e.att))
  BY <1>2, <1>3, <1>6, Bookkeeping
<1> QED BY <1>5, <1>6

LEMMA StopStep ==
  ASSUME IInv, NEW e \in work, StopCancelled(e)
  PROVE  IInv'
<1>1. e.n \in Nodes /\ step \in [Nodes -> RowType] /\ step[e.n] \in RowType
  BY DEF IInv, TypeOK, WorkType
<1>2. work' \subseteq work /\ UNCHANGED <<graph, client, actions>>
  BY DEF StopCancelled, Done
<1> DEFINE row == Write(step[e.n], "cancelled")
<1>3. row \in RowType /\ row.rev > step[e.n].rev /\ row.from = step[e.n].from
      /\ row.st = "cancelled"
  BY <1>1, WriteFacts DEF States, Terminal
<1>4. CASE Holds(e)
  <2>1. step' = [step EXCEPT ![e.n] = row] /\ step[e.n].st = "running"
    BY <1>4 DEF Holds, StopCancelled
  <2> HIDE DEF row
  <2> QED BY <1>1, <1>2, <1>3, <2>1, RewriteStep
<1>5. CASE ~Holds(e)
  BY <1>2, <1>5, Bookkeeping DEF StopCancelled
<1> QED BY <1>4, <1>5

LEMMA RecoverStep ==
  ASSUME IInv, NEW n \in Nodes, Recover(n)
  PROVE  IInv'
<1> DEFINE row == FailStep(step[n], TRUE)
<1>1. step[n] \in RowType
  BY DEF IInv, TypeOK
<1>2. row \in RowType /\ row.rev > step[n].rev /\ row.from = step[n].from
      /\ row.st \in {"retrying", "failed"}
  BY <1>1, FailFacts
<1>3. /\ step' = [step EXCEPT ![n] = row] /\ step[n].st = "running"
      /\ work' \subseteq work /\ UNCHANGED <<graph, client, actions>>
  BY DEF Recover
<1> HIDE DEF row
<1> QED BY <1>2, <1>3, RewriteStep

LEMMA CancelBlockedStep ==
  ASSUME IInv, NEW n \in Nodes, CancelBlocked(n)
  PROVE  IInv'
<1> DEFINE row == Write(step[n], "cancelled")
<1>1. step[n] \in RowType
  BY DEF IInv, TypeOK
<1>2. row \in RowType /\ row.rev > step[n].rev /\ row.from = step[n].from
      /\ row.st = "cancelled"
  BY <1>1, WriteFacts DEF States, Terminal
<1>3. /\ step' = [step EXCEPT ![n] = row] /\ step[n].st # "succeeded"
      /\ work' \subseteq work /\ UNCHANGED <<graph, client, actions>>
  BY DEF CancelBlocked, Waiting
<1> HIDE DEF row
<1> QED BY <1>2, <1>3, RewriteStep

LEMMA RetryStep ==
  ASSUME IInv, RetryQuality
  PROVE  IInv'
<1> DEFINE n == "quality"
           w == Write(step[n], "retrying")
           max == IF step[n].max > step[n].att THEN step[n].max ELSE step[n].att + 1
           row == [w EXCEPT !.max = max]
<1>1. n \in Nodes /\ n \notin StaticGates /\ step[n] \in RowType
  BY DEF IInv, TypeOK, Nodes, StaticGates, SiteGates
<1>2. w \in RowType /\ w.rev > step[n].rev /\ w.from = step[n].from /\ w.st = "retrying"
  BY <1>1, WriteFacts DEF States, Waiting
<1>3. max \in Nat
  BY <1>1 DEF RowType
<1>4. step' = [step EXCEPT ![n] = row]
  BY DEF RetryQuality
<1>5. work' \subseteq work /\ UNCHANGED <<graph, client, actions>>
  BY DEF RetryQuality
<1> HIDE DEF w, max
<1>6. row \in RowType /\ row.rev > step[n].rev /\ row.from = step[n].from /\ row.st = "retrying"
  BY <1>2, <1>3 DEF RowType
<1> HIDE DEF row
<1> QED BY <1>1, <1>4, <1>5, <1>6, RewriteStep

\* The cancellation writes every row that is open, and only those.
LEMMA CancelStep ==
  ASSUME IInv, Cancel
  PROVE  IInv'
<1> DEFINE open(n) == InGraph(n) /\ step[n].st \notin Terminal
           row(n) == Write(step[n], IF step[n].st = "running" THEN "running" ELSE "cancelled")
<1>1. step \in [Nodes -> RowType]
  BY DEF IInv, TypeOK
<1>2. ASSUME NEW n \in Nodes
      PROVE  /\ row(n) \in RowType /\ row(n).rev > step[n].rev /\ row(n).from = step[n].from
             /\ row(n).st = IF step[n].st = "running" THEN "running" ELSE "cancelled"
  <2>1. step[n] \in RowType /\ "running" \in States /\ "cancelled" \in States
    BY <1>1 DEF States, Terminal
  <2> QED BY <2>1, WriteFacts
<1>3. step' = [n \in Nodes |-> IF ~open(n) THEN step[n] ELSE row(n)]
  BY DEF Cancel
<1>4. work' = work /\ UNCHANGED <<graph, client, actions>>
  BY DEF Cancel
<1>5. \A n \in Nodes : step'[n] = step[n] \/ (step'[n] = row(n) /\ step[n].st \notin Terminal)
  BY <1>3
<1> HIDE DEF row, open
<1>6. RowsMove
  <2> SUFFICES ASSUME NEW n \in Nodes, step'[n] = row(n), step[n].st \notin Terminal
               PROVE  Moved(n)
    BY <1>5 DEF RowsMove
  <2> QED BY <1>2 DEF Moved, Terminal, IInv, RowsKnow, Under
<1>7. WorkMoves
  <2>1. \A e \in work : e.n \in Nodes
    BY DEF IInv, TypeOK, WorkType
  <2> QED BY <2>1, <1>2, <1>4, <1>5 DEF WorkMoves
<1>8. TypeOK'
  <2>1. step' \in [Nodes -> RowType]
    BY <1>1, <1>2, <1>3
  <2> QED BY <2>1, <1>4 DEF IInv, TypeOK
<1>9. CommandsMove
  BY <1>4 DEF CommandsMove
<1> QED BY <1>4, <1>6, <1>7, <1>8, <1>9, Preserved

-----------------------------------------------------------------------------
(* Commands.                                                               *)

\* A command that is told, refused or sent again claims nothing new.
LEMMA Answers ==
  ASSUME IInv, NEW c \in Clients, Sent(client[c]),
         \/ \E kept \in BOOLEAN : Tell(c, kept)
         \/ Refuse(c)
         \/ /\ client' = [client EXCEPT ![c].pc = "decide"]
            /\ step' = step /\ Informed(client[c])
  PROVE  client' \in [Clients -> CommandType] /\ CommandsMove
<1>1. client \in [Clients -> CommandType] /\ client[c] \in CommandType
  BY DEF IInv, TypeOK
<1>2. \A pc \in {"idle", "told"} : NoCommand(pc) \in CommandType /\ ~Sent(NoCommand(pc))
  BY DEF NoCommand, CommandType, Sent
<1>3. CASE \E pc \in {"idle", "told"} : client' = [client EXCEPT ![c] = NoCommand(pc)]
  BY <1>1, <1>2, <1>3 DEF CommandsMove
<1>4. CASE \E pc \in {"send", "decide"}, kept \in BOOLEAN :
             /\ client' = [client EXCEPT ![c] = [client[c] EXCEPT !.pc = pc, !.kept = kept]]
             /\ pc = "decide" => step' = step /\ Informed(client[c])
  <2>1. PICK pc \in {"send", "decide"}, kept \in BOOLEAN :
             /\ client' = [client EXCEPT ![c] = [client[c] EXCEPT !.pc = pc, !.kept = kept]]
             /\ pc = "decide" => step' = step /\ Informed(client[c])
    BY <1>4
  <2> DEFINE q == [client[c] EXCEPT !.pc = pc, !.kept = kept]
  <2>2. q \in CommandType
    BY <1>1 DEF CommandType
  <2>3. /\ q.gate = client[c].gate /\ q.dec = client[c].dec
        /\ q.rev = client[c].rev /\ q.bytes = client[c].bytes /\ q.pc = pc
    BY <1>1 DEF CommandType
  <2>4. \A d \in Clients : client'[d] = IF d = c THEN q ELSE client[d]
    BY <1>1, <2>1
  <2>5. client' \in [Clients -> CommandType]
    BY <1>1, <2>1, <2>2
  <2> HIDE DEF q
  <2> QED BY <2>1, <2>3, <2>4, <2>5 DEF CommandsMove
<1>5. ASSUME client' = [client EXCEPT ![c].pc = "decide"]
      PROVE  client' = [client EXCEPT ![c] =
                          [client[c] EXCEPT !.pc = "decide", !.kept = client[c].kept]]
  <2>1. [client[c] EXCEPT !.pc = "decide", !.kept = client[c].kept]
          = [client[c] EXCEPT !.pc = "decide"]
    BY <1>1 DEF CommandType
  <2> QED BY <1>5, <2>1
<1>6. client[c].kept \in BOOLEAN
  BY <1>1 DEF CommandType
<1>7. ASSUME NEW kept \in BOOLEAN, Tell(c, kept)
      PROVE  \/ client' = [client EXCEPT ![c] = NoCommand("told")]
             \/ client' = [client EXCEPT ![c] =
                             [client[c] EXCEPT !.pc = "send", !.kept = kept]]
  BY <1>7, <1>1 DEF Tell
<1> QED BY <1>3, <1>4, <1>5, <1>6, <1>7 DEF Refuse

LEMMA CheckStep ==
  ASSUME IInv, NEW c \in Clients, Check(c)
  PROVE  IInv'
<1>1. Sent(client[c]) /\ client[c].kept \in BOOLEAN
  BY DEF Check, Sent, IInv, TypeOK, CommandType
<1>2. Visible(client[c], step[client[c].gate]) => Informed(client[c])
  BY DEF Visible, Displayed, Informed, SiteGates
<1>3. /\ \/ \E kept \in BOOLEAN : Tell(c, kept)
         \/ Refuse(c)
         \/ client' = [client EXCEPT ![c].pc = "decide"] /\ Informed(client[c])
      /\ step' = step /\ UNCHANGED <<graph, actions, work>>
  BY <1>1, <1>2 DEF Check
<1>4. client' \in [Clients -> CommandType] /\ CommandsMove
  BY <1>1, <1>3, Answers
<1>5. TypeOK'
  BY <1>3, <1>4 DEF IInv, TypeOK
<1> QED BY <1>3, <1>4, <1>5, NoRow

LEMMA OpenStep ==
  ASSUME IInv, NEW c \in Clients, NEW n \in Gates, Open(c, n)
  PROVE  IInv'
<1>1. n \in Nodes /\ step[n] \in RowType /\ client \in [Clients -> CommandType]
  BY GateFacts DEF IInv, TypeOK
<1>2. PICK dec \in Decisions : \E choice \in Choices \union {None} :
        client' = [client EXCEPT ![c] =
          [pc |-> "send", gate |-> n, dec |-> dec, rev |-> step[n].rev,
           bytes |-> step[n].out, choice |-> choice, kept |-> FALSE]]
  BY DEF Open
<1>3. PICK choice \in Choices \union {None} :
        client' = [client EXCEPT ![c] =
          [pc |-> "send", gate |-> n, dec |-> dec, rev |-> step[n].rev,
           bytes |-> step[n].out, choice |-> choice, kept |-> FALSE]]
  BY <1>2
<1> DEFINE q == [pc |-> "send", gate |-> n, dec |-> dec, rev |-> step[n].rev,
                 bytes |-> step[n].out, choice |-> choice, kept |-> FALSE]
<1>4. q \in CommandType
  BY <1>1 DEF CommandType, RowType
<1>5. step' = step /\ UNCHANGED <<graph, actions, work>>
  BY DEF Open
<1>6. client' \in [Clients -> CommandType] /\ \A d \in Clients :
        client'[d] = IF d = c THEN q ELSE client[d]
  BY <1>1, <1>3, <1>4
<1>7. Knows(client[c])'
  <2>1. /\ q.gate = n /\ q.dec = dec /\ q.rev = step[n].rev /\ q.bytes = step[n].out
        /\ client'[c] = q /\ q.pc = "send"
    BY <1>6
  <2> HIDE DEF q
  <2> QED BY <1>1, <1>5, <2>1 DEF Knows, RowType
<1>8. TypeOK'
  BY <1>5, <1>6 DEF IInv, TypeOK
<1>9. CommandsMove
  <2> SUFFICES ASSUME NEW d \in Clients, Sent(client'[d])
               PROVE  \/ /\ Sent(client[d]) /\ client'[d].gate = client[d].gate
                         /\ client'[d].dec = client[d].dec
                         /\ client'[d].rev = client[d].rev /\ client'[d].bytes = client[d].bytes
                         /\ client'[d].pc = "decide" =>
                              client[d].pc = "decide" \/ (step' = step /\ Informed(client[d]))
                      \/ Knows(client[d])' /\ step' = step
    BY DEF CommandsMove
  <2>1. CASE d = c
    BY <1>5, <1>7, <2>1
  <2>2. CASE d # c
    BY <1>6, <2>2
  <2> QED BY <2>1, <2>2
<1> HIDE DEF q
<1> QED BY <1>5, <1>8, <1>9, NoRow

\* The decision falls on the bytes that were seen: the command names the revision
\* in the row.
LEMMA DecideStep ==
  ASSUME IInv, NEW c \in Clients, Decide(c)
  PROVE  IInv'
<1> DEFINE q == client[c]
<1>1. Sent(client[c]) /\ Knows(client[c]) /\ q \in CommandType
  BY DEF Decide, Sent, IInv, TypeOK, CommandsKnow
<1>g. PICK g \in Gates : g = q.gate
  BY <1>1 DEF Knows
<1> DEFINE row == Reviewed(q, step[g])
           a == [gate |-> g, dec |-> q.dec, rev |-> step[g].rev,
                 choice |-> q.choice, seen |-> q.bytes]
<1>2. /\ step \in [Nodes -> RowType] /\ g \in Nodes /\ q.dec \in Decisions
      /\ step[g] \in RowType
  BY <1>1, GateFacts DEF IInv, TypeOK, Knows
<1>3. UNCHANGED <<graph, work>>
  BY DEF Decide
<1>4. ASSUME Tell(c, TRUE) \/ Refuse(c)
      PROVE  client' \in [Clients -> CommandType] /\ CommandsMove
  BY <1>1, <1>4, Answers
<1>5. CASE (Tell(c, TRUE) \/ Refuse(c)) /\ UNCHANGED <<step, run, actions>>
  <2>1. TypeOK'
    BY <1>3, <1>4, <1>5 DEF IInv, TypeOK
  <2> QED BY <1>3, <1>4, <1>5, <2>1, NoRow
<1>6. CASE /\ Accepts(q, step[g]) /\ step' = [step EXCEPT ![g] = row]
           /\ actions' = actions \union {a} /\ Tell(c, TRUE)
  <2>1. /\ row \in RowType /\ row.rev > step[g].rev /\ row.from = step[g].from
        /\ row.out = step[g].out /\ row.st \in {"succeeded", "retrying", "failed"}
        /\ row.st = "succeeded" => q.dec = "approve"
        /\ row.review.choice = q.choice
    BY <1>1, <1>2, ReviewedFacts
  <2>2. step[g].st = "awaiting_review" /\ step[g].rev = q.rev /\ q.bytes = step[g].out
    BY <1>1, <1>g, <1>6 DEF Accepts, Knows
  <2>3. a.gate = g /\ a.dec = q.dec /\ a.seen = q.bytes /\ a.choice = q.choice /\ a \in actions'
    BY <1>6
  <2>4. step' = [step EXCEPT ![g] = row] /\ actions \subseteq actions'
    BY <1>6
  <2>5. client' \in [Clients -> CommandType] /\ CommandsMove
    BY <1>4, <1>6
  <2> HIDE DEF row, a
  <2>6. step'[g] = row
    BY <1>2, <2>4
  <2>7. row.st = "succeeded" => Approved(g)'
    <3> SUFFICES ASSUME row.st = "succeeded"
                 PROVE  \E b \in actions' : /\ b.gate = g /\ b.dec = "approve"
                                            /\ b.seen = step'[g].out
                                            /\ b.choice = step'[g].review.choice
      BY DEF Approved
    <3> QED BY <2>1, <2>2, <2>3, <2>6
  <2>8. Moved(g)
    <3>1. g \in BehindGate =>
            Passed(g) /\ step[g].from = Held(g)
      BY <2>2 DEF IInv, RowsKnow, Under
    <3> QED BY <2>1, <2>2, <2>6, <2>7, <3>1 DEF Moved
  <2>9. RowsMove
    BY <1>2, <2>4, <2>8 DEF RowsMove
  <2>10. WorkMoves
    BY <1>2, <1>3, <2>1, <2>4, OldWork
  <2>11. TypeOK'
    <3>1. step' \in [Nodes -> RowType]
      BY <1>2, <2>1, <2>4
    <3> QED BY <1>3, <2>5, <3>1 DEF IInv, TypeOK
  <2> QED BY <1>3, <2>4, <2>5, <2>9, <2>10, <2>11, Preserved
<1> QED BY <1>g, <1>5, <1>6 DEF Decide

LEMMA NextIInv == IInv /\ [Next]_vars => IInv'
<1> SUFFICES ASSUME IInv, [Next]_vars PROVE IInv'
  OBVIOUS
<1>1. CASE UNCHANGED vars
  BY <1>1, Bookkeeping DEF vars
<1>2. CASE SyncRun
  BY <1>2, Bookkeeping DEF SyncRun
<1>3. CASE Cancel
  BY <1>3, CancelStep
<1>4. CASE RetryQuality
  BY <1>4, RetryStep
<1>5. ASSUME NEW n \in Nodes, Claim(n) \/ Recover(n) \/ CancelBlocked(n)
      PROVE  IInv'
  BY <1>5, ClaimStep, RecoverStep, CancelBlockedStep
<1>6. ASSUME NEW e \in work, Finish(e) \/ Fail(e) \/ StopCancelled(e)
      PROVE  IInv'
  BY <1>6, FinishStepPreserves, FailStepPreserves, StopStep
<1>7. ASSUME NEW c \in Clients, Check(c) \/ Decide(c) \/ \E n \in Gates : Open(c, n)
      PROVE  IInv'
  BY <1>7, CheckStep, DecideStep, OpenStep
<1> QED BY <1>1, <1>2, <1>3, <1>4, <1>5, <1>6, <1>7 DEF Next

-----------------------------------------------------------------------------
\* Every row, execution and command keeps its type.
THEOREM TypeCorrect == Spec => []TypeOK
<1>1. IInv => TypeOK
  BY DEF IInv
<1> QED BY <1>1, InitIInv, NextIInv, PTL DEF Spec

\* Whatever is made behind a gate (postgres_repository.py, review_run_step, and
\* the worker's reads of the steps before) was made from bytes and with a
\* selection that a person approved who had exactly these bytes before them.
THEOREM OnlyApprovedIsUsed == Spec => []WorkedFromApproved
<1>1. IInv => WorkedFromApproved
  <2> SUFFICES ASSUME IInv, NEW n \in BehindGate,
                      step[n].st \in Under \/ step[n].from # Nothing
               PROVE  /\ step[GateOf(n)].st = "succeeded"
                      /\ \E a \in actions :
                           /\ a.gate = GateOf(n) /\ a.dec = "approve"
                           /\ a.seen = step[GateOf(n)].out
                           /\ a.choice = step[GateOf(n)].review.choice
                           /\ step[n].from # Nothing =>
                                step[n].from = [bytes |-> a.seen, choice |-> a.choice]
    BY DEF WorkedFromApproved, Under
  <2>1. Passed(n) /\ (step[n].from # Nothing => step[n].from = Held(n))
    BY DEF IInv, RowsKnow
  <2>2. GateOf(n) \in StaticGates
    BY GateFacts DEF IInv, TypeOK
  <2>3. Approved(GateOf(n))
    BY <2>1, <2>2 DEF Passed, IInv, GatesApproved
  <2> QED BY <2>1, <2>3 DEF Passed, Approved, Held
<1> QED BY <1>1, InitIInv, NextIInv, PTL DEF Spec

-----------------------------------------------------------------------------
(* What the control plane answers is so: the invariant behind it.          *)

\* A recorded capture attempt is a past one, or the one that has just ended.
AttemptsPast ==
  \A a \in attempts :
    /\ a.att \in Nat /\ a.att <= step["screenshot"].att
    /\ step["screenshot"].st = "running" => a.att # step["screenshot"].att
\* A step is under way only behind one that has succeeded.
InOrder ==
  \A n \in Nodes : InGraph(n) /\ step[n].st \in Under /\ Before(n) # None
                   => step[Before(n)].st = "succeeded"
\* What waits is an undecided gate, with evidence to decide on.
GatesWait ==
  \A n \in Nodes : step[n].st = "awaiting_review" =>
    /\ n \in Gates /\ step[n].review.dec = None
    /\ n \in StaticGates => step[n].out # 0
    /\ n = "screenshot" => Matching(step[n].rev)

\* A decision is among the actions, with the bytes its command named.
Logged(acts, g, dec, rev, bytes, choice) ==
  \E a \in acts : /\ a.gate = g /\ a.dec = dec /\ a.rev = rev
                  /\ a.seen = bytes /\ a.choice = choice
\* A review that names a revision is on the row's evidence, and logged.
ReviewLogged(acts, n, row) ==
  row.review.rev # 0 =>
    /\ row.out = row.review.bytes
    /\ Logged(acts, n, row.review.dec, row.review.rev, row.review.bytes,
              row.review.choice)
ReviewsLogged ==
  \A n \in Nodes : step[n].rev # 0 /\ ReviewLogged(actions, n, step[n])
\* A command with a kept answer was decided as it asks.
KeptLogged(acts, q) ==
  q.kept => Logged(acts, q.gate, q.dec, q.rev, q.bytes, q.choice)
CommandsLogged ==
  \A c \in Clients : Sent(client[c]) =>
    client[c].rev # 0 /\ KeptLogged(actions, client[c])

Honest == AttemptsPast /\ InOrder /\ GatesWait /\ ReviewsLogged /\ CommandsLogged

-----------------------------------------------------------------------------
(* What a step may do to the rows, the attempts and the commands.          *)

\* n's row is written, in the order of the graph, and shows what was decided.
Advanced(n) ==
  /\ step[n].st # "succeeded"
  /\ step'[n].rev # 0
  /\ step'[n].att >= step[n].att
  /\ step'[n].st = "running" /\ step[n].st # "running" =>
       step'[n].att > step[n].att
       /\ (InGraph(n) /\ Before(n) # None => step[Before(n)].st = "succeeded")
  /\ step'[n].st = "awaiting_review" =>
       /\ step[n].st = "running" /\ n \in Gates /\ step'[n].review.dec = None
       /\ n \in StaticGates => step'[n].out # 0
       /\ n = "screenshot" => Matching(step[n].rev)'
  /\ step'[n].st = "succeeded" => step[n].st \in Under
  /\ \/ step'[n].review = step[n].review /\ step'[n].out = step[n].out
     \/ ReviewLogged(actions', n, step'[n])
RowsAdvance == \A n \in Nodes : step'[n] = step[n] \/ Advanced(n)

\* A capture attempt is recorded when it ends.
AttemptsAdvance ==
  /\ attempts \subseteq attempts'
  /\ \A a \in attempts' : a \in attempts \/
       /\ a.att = step["screenshot"].att
       /\ step'["screenshot"].att = step["screenshot"].att
       /\ step'["screenshot"].st # "running"

\* A command goes on as it was, its decision logged when its answer is kept, or
\* names the revision on the page.
CommandsAdvance ==
  \A c \in Clients : Sent(client'[c]) =>
    \/ /\ Sent(client[c]) /\ client'[c].gate = client[c].gate
       /\ client'[c].dec = client[c].dec /\ client'[c].rev = client[c].rev
       /\ client'[c].bytes = client[c].bytes /\ client'[c].choice = client[c].choice
       /\ client'[c].kept => client[c].kept \/ KeptLogged(actions', client'[c])
    \/ client'[c].rev # 0 /\ client'[c].kept = FALSE

LEMMA LoggedStays ==
  ASSUME NEW A, NEW B, A \subseteq B, NEW g, NEW dec, NEW rev, NEW bytes, NEW choice,
         Logged(A, g, dec, rev, bytes, choice)
  PROVE  Logged(B, g, dec, rev, bytes, choice)
BY DEF Logged

\* What is honest stays so.
LEMMA HonestStays ==
  ASSUME IInv, IInv', Honest, graph' = graph, actions \subseteq actions',
         RowsAdvance, AttemptsAdvance, CommandsAdvance
  PROVE  Honest'
<1>1. step \in [Nodes -> RowType] /\ step' \in [Nodes -> RowType]
      /\ client \in [Clients -> CommandType] /\ client' \in [Clients -> CommandType]
      /\ graph \in {"single", "site"} /\ "screenshot" \in Nodes
  BY DEF IInv, TypeOK, Nodes
<1>2. \A n : InGraph(n)' = InGraph(n) /\ Before(n)' = Before(n)
  BY DEF InGraph, Before
<1>3. \A n \in Nodes : step[n].st = "succeeded" => step'[n].st = "succeeded"
  BY DEF RowsAdvance, Advanced
<1>4. AttemptsPast'
  <2> DEFINE s == "screenshot"
  <2>1. step[s].att \in Nat /\ step'[s].att \in Nat BY <1>1 DEF RowType
  <2>2. step'[s] = step[s] \/ Advanced(s) BY <1>1 DEF RowsAdvance
  <2>3. step'[s].att >= step[s].att
    BY <2>1, <2>2 DEF Advanced
  <2>4. step'[s].st = "running" => step[s].st = "running" \/ step'[s].att > step[s].att
    BY <2>2 DEF Advanced
  <2> SUFFICES ASSUME NEW a \in attempts'
               PROVE  /\ a.att \in Nat /\ a.att <= step'[s].att
                      /\ step'[s].st = "running" => a.att # step'[s].att
    BY DEF AttemptsPast
  <2>5. CASE a \in attempts
    <3>1. a.att \in Nat /\ a.att <= step[s].att
          /\ (step[s].st = "running" => a.att # step[s].att)
      BY <2>5 DEF Honest, AttemptsPast
    <3> QED BY <2>1, <2>3, <2>4, <3>1
  <2>6. CASE a \notin attempts
    BY <2>1, <2>6 DEF AttemptsAdvance
  <2> QED BY <2>5, <2>6
<1>5. InOrder'
  <2> SUFFICES ASSUME NEW n \in Nodes, InGraph(n), step'[n].st \in Under, Before(n) # None
               PROVE  step'[Before(n)].st = "succeeded"
    BY <1>2 DEF InOrder
  <2>1. Before(n) \in Nodes
    BY <1>1, ReviewAssumption DEF Before, InGraph, Graphs, Nodes
  <2>2. step[Before(n)].st = "succeeded"
    BY DEF RowsAdvance, Advanced, Honest, InOrder, Under
  <2> QED BY <1>3, <2>1, <2>2
<1>6. GatesWait'
  <2> SUFFICES ASSUME NEW n \in Nodes, step'[n].st = "awaiting_review"
               PROVE  /\ n \in Gates /\ step'[n].review.dec = None
                      /\ n \in StaticGates => step'[n].out # 0
                      /\ n = "screenshot" => Matching(step[n].rev)'
    BY DEF GatesWait
  <2>1. CASE Advanced(n)
    BY <2>1 DEF Advanced
  <2>2. CASE step'[n] = step[n]
    <3>1. n = "screenshot" => Matching(step[n].rev)
      BY <2>2 DEF Honest, GatesWait
    <3>2. n = "screenshot" => Matching(step[n].rev)'
      BY <2>2, <3>1 DEF Matching, AttemptsAdvance
    <3> QED BY <2>2, <3>2 DEF Honest, GatesWait
  <2> QED BY <2>1, <2>2 DEF RowsAdvance
<1>7. ReviewsLogged'
  <2> SUFFICES ASSUME NEW n \in Nodes
               PROVE  step'[n].rev # 0 /\ ReviewLogged(actions', n, step'[n])
    BY DEF ReviewsLogged
  <2>1. step[n].rev # 0 /\ ReviewLogged(actions, n, step[n])
    BY DEF Honest, ReviewsLogged
  <2>2. ReviewLogged(actions', n, step[n])
    BY <2>1, LoggedStays DEF ReviewLogged
  <2>3. CASE step'[n] = step[n]
    BY <2>1, <2>2, <2>3
  <2>4. CASE Advanced(n)
    BY <2>2, <2>4 DEF Advanced, ReviewLogged
  <2> QED BY <2>3, <2>4 DEF RowsAdvance
<1>8. CommandsLogged'
  <2> SUFFICES ASSUME NEW c \in Clients, Sent(client'[c])
               PROVE  client'[c].rev # 0 /\ KeptLogged(actions', client'[c])
    BY DEF CommandsLogged
  <2>1. CASE client'[c].rev # 0 /\ client'[c].kept = FALSE
    BY <2>1 DEF KeptLogged
  <2>2. CASE /\ Sent(client[c]) /\ client'[c].gate = client[c].gate
             /\ client'[c].dec = client[c].dec /\ client'[c].rev = client[c].rev
             /\ client'[c].bytes = client[c].bytes /\ client'[c].choice = client[c].choice
             /\ client'[c].kept => client[c].kept \/ KeptLogged(actions', client'[c])
    <3>1. client[c].rev # 0 /\ KeptLogged(actions, client[c])
      BY <2>2 DEF Honest, CommandsLogged
    <3>2. KeptLogged(actions', client[c])
      BY <3>1, LoggedStays DEF KeptLogged
    <3> QED BY <2>2, <3>1, <3>2 DEF KeptLogged
  <2> QED BY <2>1, <2>2 DEF CommandsAdvance
<1> QED BY <1>4, <1>5, <1>6, <1>7, <1>8 DEF Honest

-----------------------------------------------------------------------------
(* What the answers rest on.                                               *)

LEMMA GateShows ==
  ASSUME IInv, Honest, NEW n \in Nodes, InGraph(n), step[n].st = "awaiting_review",
         ~run.cancel, run.status \notin Terminal
  PROVE  RunStatus = GateShown(n)
<1>1. graph \in {"single", "site"} /\ n \in Gates
  BY DEF IInv, TypeOK, Honest, GatesWait
<1>2. \A m \in Nodes : InGraph(m) /\ step[m].st \in Under /\ Before(m) # None
                       => step[Before(m)].st = "succeeded"
  BY DEF Honest, InOrder
<1>3. CASE graph = "single"
  <2>1. n \in {"screenshot", "quality"} /\ ~InGraph("discover") /\ ~InGraph("capture_pages")
        /\ ~InGraph("storyboard")
    BY <1>1, <1>3 DEF InGraph, Graphs, Gates, StaticGates, SiteGates
  <2>2. n = "quality" => step["screenshot"].st = "succeeded"
    <3>1. InGraph("compose") /\ Before("compose") = "screenshot" /\ "compose" \in Nodes
          /\ Before("quality") = "compose"
      BY <1>3 DEF InGraph, Graphs, Before, Nodes
    <3> QED BY <1>2, <3>1, ReviewAssumption DEF Under, Nodes
  <2> QED BY <2>1, <2>2 DEF RunStatus, GateShown, Waiting
<1>4. CASE graph = "site"
  <2>1. n \in {"discover", "storyboard", "quality"} /\ ~InGraph("screenshot")
    BY <1>1, <1>4 DEF InGraph, Graphs, Gates, StaticGates, SiteGates
  <2>2. /\ InGraph("compose") /\ InGraph("storyboard") /\ InGraph("capture_pages")
        /\ Before("quality") = "compose" /\ Before("compose") = "storyboard"
        /\ Before("storyboard") = "capture_pages" /\ Before("capture_pages") = "discover"
        /\ {"compose", "storyboard", "capture_pages", "discover", "quality"} \subseteq Nodes
    BY <1>4 DEF InGraph, Graphs, Before, Nodes
  <2>3. None \notin Nodes BY ReviewAssumption
  <2>4. n = "storyboard" => step["capture_pages"].st = "succeeded"
                            /\ step["discover"].st = "succeeded"
    BY <1>2, <2>2, <2>3 DEF Under
  <2>5. n = "quality" => step["storyboard"].st = "succeeded"
                         /\ step["capture_pages"].st = "succeeded"
                         /\ step["discover"].st = "succeeded"
    BY <1>2, <2>2, <2>3 DEF Under
  <2> QED BY <2>1, <2>4, <2>5 DEF RunStatus, GateShown, Waiting
<1> QED BY <1>1, <1>3, <1>4

LEMMA WaitingGateAdmits ==
  ASSUME IInv, Honest, NEW n \in Nodes, step[n].st = "awaiting_review",
         ~run.cancel, run.status \notin Terminal, NEW dec \in {"approve", "reject"}
  PROVE  LET q == [gate |-> n, dec |-> dec, rev |-> step[n].rev, bytes |-> step[n].out]
         IN  Visible(q, step[n]) /\ Admits(q, step[n]) /\ Accepts(q, step[n])
             <=> ~(n \in SiteGates /\ step[n].away)
<1> DEFINE q == [gate |-> n, dec |-> dec, rev |-> step[n].rev, bytes |-> step[n].out]
<1>1. /\ n \in Gates /\ step[n].review.dec = None
      /\ n \in StaticGates => step[n].out # 0
      /\ n = "screenshot" => Matching(step[n].rev)
  BY DEF Honest, GatesWait
<1>2. q.gate = n /\ q.dec = dec /\ q.rev = step[n].rev /\ q.bytes = step[n].out
  OBVIOUS
<1> HIDE DEF q
<1>3. Accepts(q, step[n]) BY <1>2 DEF Accepts
<1>4. CASE n \in SiteGates
  <2>1. Visible(q, step[n]) <=> step[n].out # 0 /\ ~step[n].away
    BY <1>2, <1>4 DEF Visible, Displayed, SiteGates
  <2>2. Admits(q, step[n]) <=> SiteAdmits(q, step[n]) BY <1>2, <1>4 DEF Admits, SiteGates
  <2>3. Admits(q, step[n]) /\ step[n].out # 0
    BY <1>1, <1>2, <1>4, <2>2 DEF SiteAdmits, StaticGates
  <2> QED BY <1>3, <1>4, <2>1, <2>3 DEF q
<1>5. CASE n = "screenshot"
  <2>1. n \notin SiteGates BY <1>5 DEF SiteGates
  <2>2. Visible(q, step[n]) <=> step[n].out = q.bytes /\ Matching(q.rev)
    BY <1>2, <1>5, <2>1 DEF Visible
  <2>3. Admits(q, step[n]) <=> CaptureAdmits(q, step[n])
    BY <1>2, <1>5, <2>1 DEF Admits
  <2>4. Visible(q, step[n]) /\ Admits(q, step[n])
    BY <1>1, <1>2, <1>5, <2>2, <2>3 DEF CaptureAdmits
  <2> QED BY <1>3, <2>1, <2>4 DEF q
<1>6. CASE n = "quality"
  <2>1. n \notin SiteGates /\ n # "screenshot" BY <1>6 DEF SiteGates
  <2>2. Visible(q, step[n]) /\ Admits(q, step[n])
    BY <1>2, <2>1 DEF Visible, Admits
  <2> QED BY <1>3, <2>1, <2>2 DEF q
<1> QED BY <1>1, <1>4, <1>5, <1>6 DEF Gates, StaticGates

LEMMA FailedIsFailed ==
  ASSUME IInv, Honest, RunStatus = "failed" PROVE run.status = "failed"
<1>1. CASE run.status \in Terminal
  BY <1>1 DEF RunStatus
<1>2. CASE run.status \notin Terminal /\ ~run.cancel /\ Some(step, {"awaiting_review"})
  <2>1. PICK n \in Nodes : InGraph(n) /\ step[n].st = "awaiting_review"
    BY <1>2 DEF Some
  <2>2. n \in Gates BY <2>1 DEF Honest, GatesWait
  <2>3. RunStatus = GateShown(n) BY <1>2, <2>1, GateShows
  <2>4. GateShown(n) # "failed"
    BY <2>2 DEF GateShown, Gates, StaticGates, SiteGates
  <2> QED BY <2>3, <2>4
<1>3. CASE run.status \notin Terminal /\ (run.cancel \/ ~Some(step, {"awaiting_review"}))
  BY <1>3 DEF RunStatus
<1> QED BY <1>1, <1>2, <1>3

LEMMA HonestAnswers == IInv /\ Honest => CaptureCanEnd /\ GateCanBeDecided
<1> SUFFICES ASSUME IInv, Honest PROVE CaptureCanEnd /\ GateCanBeDecided OBVIOUS
<1>1. CaptureCanEnd
  BY DEF CaptureCanEnd, Unrecorded, Honest, AttemptsPast
<1>2. GateCanBeDecided
  BY GateShows, WaitingGateAdmits, FailedIsFailed DEF GateCanBeDecided
<1> QED BY <1>1, <1>2

-----------------------------------------------------------------------------
(* Each action advances what it writes.                                    *)

LEMMA InitHonest == Init => Honest
<1> SUFFICES ASSUME Init PROVE Honest OBVIOUS
<1>1. \A n \in Nodes : step[n] = Row(n)
  BY DEF Init
<1>2. \A n \in Nodes : /\ step[n].st = "queued" /\ step[n].rev = 1
                       /\ step[n].review.rev = 0
  <2> TAKE n \in Nodes
  <2>1. NoReview.rev = 0 BY DEF NoReview
  <2>2. /\ Row(n).st = "queued" /\ Row(n).rev = 1 /\ Row(n).review = NoReview
    BY DEF Row
  <2> QED BY ONLY <1>1, <2>1, <2>2
<1>3. AttemptsPast /\ InOrder /\ GatesWait
  BY <1>2 DEF Init, AttemptsPast, InOrder, GatesWait, Under
<1>4. ReviewsLogged
  BY <1>2 DEF ReviewsLogged, ReviewLogged
<1>5. CommandsLogged
  BY DEF Init, CommandsLogged, NoCommand, Sent
<1> QED BY <1>3, <1>4, <1>5 DEF Honest

\* Commands that stay as they are go on.
LEMMA CommandsStay ==
  ASSUME client' = client
  PROVE  CommandsAdvance
BY DEF CommandsAdvance

\* What a step that writes row n, and no command or decision, has to show.
LEMMA RowHonest ==
  ASSUME IInv, IInv', Honest, NEW n \in Nodes, NEW row \in RowType,
         graph' = graph, client' = client, actions' = actions,
         step' = [step EXCEPT ![n] = row], Advanced(n), AttemptsAdvance
  PROVE  Honest'
<1>1. RowsAdvance
  BY DEF IInv, TypeOK, RowsAdvance
<1>2. actions \subseteq actions'
  OBVIOUS
<1>3. CommandsAdvance
  BY CommandsStay
<1> QED BY <1>1, <1>2, <1>3, HonestStays

\* A step that writes no row.
LEMMA NoRowHonest ==
  ASSUME IInv, IInv', Honest, graph' = graph, step' = step, actions' = actions,
         attempts' = attempts, CommandsAdvance
  PROVE  Honest'
<1>1. RowsAdvance /\ AttemptsAdvance /\ actions \subseteq actions'
  BY DEF RowsAdvance, AttemptsAdvance
<1> QED BY <1>1, HonestStays

\* A row that ends its attempt, or stops waiting for one, keeps its evidence and
\* its review.
LEMMA EndedAdvances ==
  ASSUME IInv, NEW n \in Nodes, NEW row \in RowType,
         step' = [step EXCEPT ![n] = row], step[n].st # "succeeded",
         row.st \in {"queued", "retrying", "failed", "cancelled"}
                    \/ (row.st = "running" /\ step[n].st = "running"),
         row.rev # 0, row.att = step[n].att, row.out = step[n].out,
         row.review = step[n].review
  PROVE  Advanced(n)
<1>1. step'[n] = row /\ step[n].att \in Nat
  BY DEF IInv, TypeOK, RowType
<1> QED BY <1>1 DEF Advanced

\* What an attempt recorded with the row it ends says of that attempt.
LEMMA RecordAdvances ==
  ASSUME IInv, NEW n \in Nodes, NEW row \in RowType, NEW ok \in BOOLEAN,
         step' = [step EXCEPT ![n] = row], row.st # "running",
         row.att = step[n].att, attempts' = Recorded(n, row, ok)
  PROVE  AttemptsAdvance
<1>1. step'[n] = row
  BY DEF IInv, TypeOK
<1>2. CASE n # "screenshot"
  BY <1>2 DEF AttemptsAdvance, Recorded
<1>3. CASE n = "screenshot"
  <2> DEFINE new == [att |-> row.att, rev |-> row.rev, ok |-> ok,
                     bytes |-> IF ok THEN row.out ELSE 0]
  <2>1. attempts' = attempts \union {new} /\ new.att = row.att
    BY <1>3 DEF Recorded
  <2> HIDE DEF new
  <2> QED BY <1>1, <1>3, <2>1 DEF AttemptsAdvance
<1> QED BY <1>2, <1>3

\* fail_step keeps the attempt, the evidence and the review.
LEMMA FailKeeps ==
  ASSUME NEW r \in RowType, NEW retry \in BOOLEAN
  PROVE  LET f == FailStep(r, retry) IN
         /\ f \in RowType /\ f.st \in {"retrying", "failed"} /\ f.rev # 0
         /\ f.att = r.att /\ f.out = r.out /\ f.review = r.review
<1> DEFINE status == IF retry /\ r.att < r.max THEN "retrying" ELSE "failed"
<1>1. status \in States /\ status \in {"retrying", "failed"}
  BY DEF States, Waiting, Terminal
<1>2. FailStep(r, retry) = Write(r, status)
  BY DEF FailStep
<1>3. r.rev \in Nat
  BY DEF RowType
<1> HIDE DEF status
<1>4. Write(r, status).rev # 0
  BY <1>1, <1>3, WriteFacts
<1> QED BY <1>1, <1>2, <1>4, WriteFacts

LEMMA CopyForgets ==
  ASSUME NEW v \in ReviewType
  PROVE  WorkerCopy(v) \in ReviewType /\ WorkerCopy(v).rev = 0
<1>1. WorkerCopy(v).rev = 0
  BY DEF WorkerCopy, ReviewType
<1> QED BY <1>1, WorkerCopyType

\* A new attempt: the worker's copy of the review names no revision.
LEMMA StartKeeps ==
  ASSUME NEW r \in RowType
  PROVE  LET f == StartStep(r) IN
         /\ f \in RowType /\ f.st = "running" /\ f.rev # 0
         /\ f.att = r.att + 1 /\ f.out = r.out /\ f.review.rev = 0
<1> DEFINE w == Write(r, "running")
<1>1. "running" \in States
  BY DEF States
<1>2. w \in RowType /\ w.rev = r.rev + 1 /\ w.st = "running" /\ w.att = r.att /\ w.out = r.out
  BY <1>1, WriteFacts
<1>3. WorkerCopy(w.review).rev = 0 /\ WorkerCopy(w.review) \in ReviewType
      /\ w.att + 1 \in Nat /\ r.rev + 1 # 0
  <2> HIDE DEF w
  <2>1. w.review \in ReviewType /\ w.att \in Nat /\ r.rev \in Nat
    BY <1>2 DEF RowType
  <2> QED BY <2>1, CopyForgets
<1>4. StartStep(r) = [w EXCEPT !.att = w.att + 1, !.review = WorkerCopy(w.review)]
  BY DEF StartStep
<1> HIDE DEF w
<1> QED BY <1>2, <1>3, <1>4 DEF RowType

LEMMA FinishKeeps ==
  ASSUME NEW r \in RowType, NEW status \in States, NEW bytes \in Nat, NEW away \in BOOLEAN,
         NEW from \in FromType
  PROVE  LET f == FinishStep(r, status, bytes, away, from) IN
         /\ f \in RowType /\ f.st = status /\ f.rev # 0
         /\ f.att = r.att /\ f.out = bytes /\ f.review.rev = 0
         /\ status = "awaiting_review" => f.review.dec = None
<1> DEFINE w == Write(r, status)
           v == IF status = "awaiting_review" THEN NoReview ELSE WorkerCopy(w.review)
<1>1. w \in RowType /\ w.rev = r.rev + 1 /\ w.st = status /\ w.att = r.att
  BY WriteFacts
<1>2. NoReview \in ReviewType /\ NoReview.rev = 0 /\ NoReview.dec = None
  BY DEF NoReview, ReviewType
<1>3. WorkerCopy(w.review).rev = 0 /\ WorkerCopy(w.review) \in ReviewType /\ r.rev + 1 # 0
  <2> HIDE DEF w
  <2>1. w.review \in ReviewType /\ r.rev \in Nat
    BY <1>1 DEF RowType
  <2> QED BY <2>1, CopyForgets
<1>4. v \in ReviewType /\ v.rev = 0 /\ (status = "awaiting_review" => v.dec = None)
  BY <1>2, <1>3
<1>5. FinishStep(r, status, bytes, away, from)
        = [w EXCEPT !.out = bytes, !.away = away, !.from = from, !.review = v]
  BY DEF FinishStep
<1> HIDE DEF w, v
<1> QED BY <1>1, <1>3, <1>4, <1>5 DEF RowType

\* A decision is written with the revision and the evidence it fell on.
LEMMA ReviewedKeeps ==
  ASSUME NEW r \in RowType, NEW q \in CommandType, q.dec \in Decisions
  PROVE  LET f == Reviewed(q, r) IN
         /\ f \in RowType /\ f.rev # 0 /\ f.att = r.att /\ f.out = r.out
         /\ f.st \in {"succeeded", "retrying", "failed"}
         /\ f.review.dec = q.dec /\ f.review.rev = r.rev
         /\ f.review.bytes = r.out /\ f.review.choice = q.choice
<1> DEFINE status == IF q.dec = "approve" THEN "succeeded"
                     ELSE IF q.dec = "revise" /\ r.att < r.max THEN "retrying"
                     ELSE "failed"
           w == Write(r, status)
           v == [dec |-> q.dec, rev |-> r.rev, bytes |-> r.out, choice |-> q.choice]
<1>1. status \in States /\ status \in {"succeeded", "retrying", "failed"}
  BY DEF States, Waiting, Terminal
<1>2. w \in RowType /\ w.rev = r.rev + 1 /\ w.out = r.out /\ w.att = r.att /\ w.st = status
  BY <1>1, WriteFacts
<1>3. /\ v \in ReviewType /\ v.choice = q.choice /\ v.dec = q.dec /\ v.rev = r.rev
      /\ v.bytes = r.out /\ r.rev + 1 # 0
  BY DEF ReviewType, RowType, CommandType
<1>4. Reviewed(q, r) = [w EXCEPT !.review = v]
  BY DEF Reviewed
<1> HIDE DEF w, v, status
<1> QED BY <1>1, <1>2, <1>3, <1>4 DEF RowType

LEMMA ClaimHonest ==
  ASSUME IInv, IInv', Honest, NEW n \in Nodes, Claim(n)
  PROVE  Honest'
<1> DEFINE row == StartStep(step[n])
<1>1. step \in [Nodes -> RowType] /\ step[n] \in RowType /\ step[n].att \in Nat
  BY DEF IInv, TypeOK, RowType
<1>2. /\ row \in RowType /\ row.st = "running" /\ row.rev # 0
      /\ row.att = step[n].att + 1 /\ row.review.rev = 0
  BY <1>1, StartKeeps
<1>3. /\ step' = [step EXCEPT ![n] = row] /\ step[n].st \in Waiting
      /\ InGraph(n) /\ (Before(n) # None => step[Before(n)].st = "succeeded")
      /\ UNCHANGED <<graph, client, actions, attempts>>
  BY DEF Claim
<1> HIDE DEF row
<1>4. step'[n] = row
  BY <1>1, <1>3
<1>5. step[n].st # "succeeded"
  BY <1>3 DEF Waiting
<1>6. ReviewLogged(actions', n, step'[n])
  BY <1>2, <1>4 DEF ReviewLogged
<1>7. Advanced(n)
  BY <1>1, <1>2, <1>3, <1>4, <1>5, <1>6 DEF Advanced
<1>8. AttemptsAdvance
  BY <1>3 DEF AttemptsAdvance
<1> QED BY <1>2, <1>3, <1>7, <1>8, RowHonest

LEMMA FinishHonest ==
  ASSUME IInv, IInv', Honest, NEW e \in work, Finish(e)
  PROVE  Honest'
<1>1. /\ step \in [Nodes -> RowType] /\ e.n \in Nodes /\ step[e.n] \in RowType
      /\ e.from \in FromType /\ step[e.n].att \in Nat /\ step[e.n].out \in Nat
  BY DEF IInv, TypeOK, WorkType, RowType
<1>2. UNCHANGED <<graph, client, actions>> /\ step[e.n].st = "running"
  BY DEF Finish, IInv, WorkKnows
<1>3. PICK bytes \in Contents(e.n) : \E away \in Redirects(e.n, bytes) :
        \E risk \in (IF e.n = "quality" THEN BOOLEAN ELSE {FALSE}) :
        LET status == IF e.n \in StaticGates \/ risk THEN "awaiting_review" ELSE "succeeded"
            row == FinishStep(step[e.n], status, bytes, away, e.from)
        IN  /\ step' = [step EXCEPT ![e.n] = row]
            /\ attempts' = Recorded(e.n, row, TRUE)
  BY DEF Finish
<1>a. PICK away \in Redirects(e.n, bytes) :
        \E risk \in (IF e.n = "quality" THEN BOOLEAN ELSE {FALSE}) :
        LET status == IF e.n \in StaticGates \/ risk THEN "awaiting_review" ELSE "succeeded"
            row == FinishStep(step[e.n], status, bytes, away, e.from)
        IN  /\ step' = [step EXCEPT ![e.n] = row]
            /\ attempts' = Recorded(e.n, row, TRUE)
  BY <1>3
<1>r. PICK risk \in (IF e.n = "quality" THEN BOOLEAN ELSE {FALSE}) :
        LET status == IF e.n \in StaticGates \/ risk THEN "awaiting_review" ELSE "succeeded"
            row == FinishStep(step[e.n], status, bytes, away, e.from)
        IN  /\ step' = [step EXCEPT ![e.n] = row]
            /\ attempts' = Recorded(e.n, row, TRUE)
  BY <1>a
<1> DEFINE status == IF e.n \in StaticGates \/ risk THEN "awaiting_review" ELSE "succeeded"
           row == FinishStep(step[e.n], status, bytes, away, e.from)
<1>4. step' = [step EXCEPT ![e.n] = row] /\ attempts' = Recorded(e.n, row, TRUE)
  BY <1>r
<1>5. /\ status \in States /\ status \in {"awaiting_review", "succeeded"}
      /\ status = "awaiting_review" => e.n \in Gates
  BY DEF States, Terminal, Gates
<1>b. away \in BOOLEAN
  BY <1>1 DEF Redirects, RowType
<1>6. bytes \in Nat /\ (e.n \in StaticGates => bytes # 0)
  BY <1>1 DEF Contents
<1> HIDE DEF status
<1>7. /\ row \in RowType /\ row.st = status /\ row.rev # 0
      /\ row.att = step[e.n].att /\ row.out = bytes /\ row.review.rev = 0
      /\ status = "awaiting_review" => row.review.dec = None
  <2>1. status \in States
    BY <1>5
  <2>2. step[e.n] \in RowType /\ e.from \in FromType
    BY <1>1
  <2> QED BY <2>1, <2>2, <1>6, <1>b, FinishKeeps
<1> HIDE DEF row
<1>8. step'[e.n] = row
  BY <1>1, <1>4
<1>9. e.n = "screenshot" => Matching(step[e.n].rev)'
  <2> SUFFICES ASSUME e.n = "screenshot"
               PROVE  \E a \in attempts' : /\ a.ok /\ a.rev = row.rev
                                           /\ a.att = row.att /\ a.bytes = row.out
    BY <1>8 DEF Matching
  <2> DEFINE new == [att |-> row.att, rev |-> row.rev, ok |-> TRUE,
                     bytes |-> IF TRUE THEN row.out ELSE 0]
  <2>1. new \in attempts'
    BY <1>4 DEF Recorded
  <2> QED BY <2>1
<1>10. ReviewLogged(actions', e.n, step'[e.n])
  BY <1>7, <1>8 DEF ReviewLogged
<1>11. Advanced(e.n)
  BY <1>1, <1>2, <1>5, <1>6, <1>7, <1>8, <1>9, <1>10 DEF Advanced, Under
<1>12. row.st # "running"
  BY <1>5, <1>7
<1>13. AttemptsAdvance
  BY <1>1, <1>4, <1>7, <1>12, RecordAdvances
<1> QED BY <1>1, <1>2, <1>4, <1>7, <1>11, <1>13, RowHonest

\* A row that fails, with its attempt recorded.
LEMMA FailedHonest ==
  ASSUME IInv, IInv', Honest, NEW n \in Nodes, NEW retry \in BOOLEAN,
         step[n].st = "running",
         step' = [step EXCEPT ![n] = FailStep(step[n], retry)],
         attempts' = Recorded(n, FailStep(step[n], retry), FALSE),
         graph' = graph, client' = client, actions' = actions
  PROVE  Honest'
<1> DEFINE row == FailStep(step[n], retry)
<1>1. step[n] \in RowType
  BY DEF IInv, TypeOK
<1>2. /\ row \in RowType /\ row.st \in {"retrying", "failed"} /\ row.rev # 0
      /\ row.att = step[n].att /\ row.out = step[n].out /\ row.review = step[n].review
  BY <1>1, FailKeeps
<1>3. step' = [step EXCEPT ![n] = row] /\ attempts' = Recorded(n, row, FALSE)
  OBVIOUS
<1> HIDE DEF row
<1>4. Advanced(n)
  <2>1. row.st \in {"queued", "retrying", "failed", "cancelled"}
          \/ (row.st = "running" /\ step[n].st = "running")
    BY <1>2
  <2>2. step[n].st # "succeeded"
    OBVIOUS
  <2> QED BY ONLY IInv, n \in Nodes, <1>2, <1>3, <2>1, <2>2, EndedAdvances
<1>5. AttemptsAdvance
  <2>1. row.st # "running" /\ FALSE \in BOOLEAN
    BY <1>2
  <2> QED BY ONLY IInv, n \in Nodes, <1>2, <1>3, <2>1, RecordAdvances
<1> QED BY <1>2, <1>3, <1>4, <1>5, RowHonest

LEMMA FailHonest ==
  ASSUME IInv, IInv', Honest, NEW e \in work, Fail(e)
  PROVE  Honest'
<1>1. e.n \in Nodes
  BY DEF IInv, TypeOK, WorkType
<1>2. UNCHANGED <<graph, client, actions>>
  BY DEF Fail
<1>3. PICK retryable \in BOOLEAN :
        LET row == FailStep(step[e.n], retryable /\ ~Refuses(e)) IN
        IF Holds(e) /\ Unrecorded(e.n, e.att)
        THEN /\ step' = [step EXCEPT ![e.n] = row]
             /\ attempts' = Recorded(e.n, row, FALSE)
        ELSE UNCHANGED <<step, attempts>>
  BY DEF Fail
<1> DEFINE retry == retryable /\ ~Refuses(e)
<1>4. retry \in BOOLEAN
  OBVIOUS
<1>5. CASE Holds(e) /\ Unrecorded(e.n, e.att)
  <2>1. /\ step' = [step EXCEPT ![e.n] = FailStep(step[e.n], retry)]
        /\ attempts' = Recorded(e.n, FailStep(step[e.n], retry), FALSE)
        /\ step[e.n].st = "running"
    BY <1>3, <1>5 DEF Holds
  <2> HIDE DEF retry
  <2> QED BY <1>1, <1>2, <1>4, <2>1, FailedHonest
<1>6. CASE ~(Holds(e) /\ Unrecorded(e.n, e.att))
  BY <1>2, <1>3, <1>6, CommandsStay, NoRowHonest
<1> QED BY <1>5, <1>6

LEMMA RecoverHonest ==
  ASSUME IInv, IInv', Honest, NEW n \in Nodes, Recover(n)
  PROVE  Honest'
BY FailedHonest DEF Recover

\* A cancelled row keeps everything but its status.
LEMMA CancelledHonest ==
  ASSUME IInv, IInv', Honest, NEW n \in Nodes, step[n].st # "succeeded",
         step' = [step EXCEPT ![n] = Write(step[n], "cancelled")],
         graph' = graph, client' = client, actions' = actions, attempts' = attempts
  PROVE  Honest'
<1> DEFINE row == Write(step[n], "cancelled")
<1>1. step[n] \in RowType /\ step[n].rev \in Nat /\ "cancelled" \in States
  BY DEF IInv, TypeOK, RowType, States, Terminal
<1>2. /\ row \in RowType /\ row.st = "cancelled" /\ row.rev # 0
      /\ row.att = step[n].att /\ row.out = step[n].out /\ row.review = step[n].review
  BY <1>1, WriteFacts
<1>3. step' = [step EXCEPT ![n] = row]
  OBVIOUS
<1> HIDE DEF row
<1>4. Advanced(n)
  BY <1>2, <1>3, EndedAdvances
<1>5. AttemptsAdvance
  BY DEF AttemptsAdvance
<1> QED BY <1>2, <1>3, <1>4, <1>5, RowHonest

LEMMA StopHonest ==
  ASSUME IInv, IInv', Honest, NEW e \in work, StopCancelled(e)
  PROVE  Honest'
<1>1. e.n \in Nodes /\ UNCHANGED <<graph, client, actions, attempts>>
  BY DEF IInv, TypeOK, WorkType, StopCancelled
<1>2. CASE Holds(e)
  <2>1. /\ step' = [step EXCEPT ![e.n] = Write(step[e.n], "cancelled")]
        /\ step[e.n].st # "succeeded"
    BY <1>2 DEF Holds, StopCancelled
  <2> QED BY <1>1, <2>1, CancelledHonest
<1>3. CASE ~Holds(e)
  BY <1>1, <1>3, CommandsStay, NoRowHonest DEF StopCancelled
<1> QED BY <1>2, <1>3

LEMMA CancelBlockedHonest ==
  ASSUME IInv, IInv', Honest, NEW n \in Nodes, CancelBlocked(n)
  PROVE  Honest'
BY CancelledHonest DEF CancelBlocked, Waiting

LEMMA RetryHonest ==
  ASSUME IInv, IInv', Honest, RetryQuality
  PROVE  Honest'
<1> DEFINE n == "quality"
           w == Write(step[n], "retrying")
           max == IF step[n].max > step[n].att THEN step[n].max ELSE step[n].att + 1
           row == [w EXCEPT !.max = max]
<1>1. n \in Nodes /\ step[n] \in RowType /\ step[n].rev \in Nat
  BY DEF IInv, TypeOK, Nodes, RowType
<1>2. /\ w \in RowType /\ w.st = "retrying" /\ w.rev # 0
      /\ w.att = step[n].att /\ w.out = step[n].out /\ w.review = step[n].review
  BY <1>1, WriteFacts DEF States, Waiting
<1>3. max \in Nat
  BY <1>1 DEF RowType
<1>4. /\ step' = [step EXCEPT ![n] = row] /\ step[n].st # "succeeded"
      /\ UNCHANGED <<graph, client, actions, attempts>>
  BY DEF RetryQuality
<1> HIDE DEF w, max
<1>5. /\ row \in RowType /\ row.st = "retrying" /\ row.rev # 0
      /\ row.att = step[n].att /\ row.out = step[n].out /\ row.review = step[n].review
  BY <1>2, <1>3 DEF RowType
<1> HIDE DEF row
<1>6. Advanced(n)
  <2>1. row.st \in {"queued", "retrying", "failed", "cancelled"}
          \/ (row.st = "running" /\ step[n].st = "running")
    BY <1>5
  <2> QED BY <1>1, <1>4, <1>5, <2>1, EndedAdvances
<1>7. AttemptsAdvance
  BY <1>4 DEF AttemptsAdvance
<1> QED BY <1>1, <1>4, <1>5, <1>6, <1>7, RowHonest

LEMMA CancelHonest ==
  ASSUME IInv, IInv', Honest, Cancel
  PROVE  Honest'
<1> DEFINE open(n) == InGraph(n) /\ step[n].st \notin Terminal
           row(n) == Write(step[n], IF step[n].st = "running" THEN "running" ELSE "cancelled")
<1>1. step \in [Nodes -> RowType]
  BY DEF IInv, TypeOK
<1>2. ASSUME NEW n \in Nodes
      PROVE  /\ row(n).st = IF step[n].st = "running" THEN "running" ELSE "cancelled"
             /\ row(n).rev # 0 /\ row(n).att = step[n].att /\ step[n].att \in Nat
             /\ row(n).out = step[n].out /\ row(n).review = step[n].review
  <2>1. /\ step[n] \in RowType /\ "running" \in States /\ "cancelled" \in States
        /\ step[n].rev \in Nat /\ step[n].att \in Nat
    BY <1>1 DEF States, Terminal, RowType
  <2> QED BY <2>1, WriteFacts
<1>3. step' = [n \in Nodes |-> IF ~open(n) THEN step[n] ELSE row(n)]
  BY DEF Cancel
<1>4. UNCHANGED <<graph, client, actions, attempts>>
  BY DEF Cancel
<1>5. \A n \in Nodes : step'[n] = step[n] \/ (step'[n] = row(n) /\ step[n].st \notin Terminal)
  BY <1>3
<1> HIDE DEF row, open
<1>6. RowsAdvance
  <2> SUFFICES ASSUME NEW n \in Nodes, step'[n] = row(n), step[n].st \notin Terminal
               PROVE  Advanced(n)
    BY <1>5 DEF RowsAdvance
  <2> QED BY <1>2 DEF Advanced, Terminal
<1>7. AttemptsAdvance /\ actions \subseteq actions'
  BY <1>4 DEF AttemptsAdvance
<1>8. CommandsAdvance
  BY <1>4, CommandsStay
<1> QED BY <1>4, <1>6, <1>7, <1>8, HonestStays

\* An answer that is kept is an answer that is logged.
LEMMA AnswerAdvances ==
  ASSUME IInv, NEW c \in Clients, Sent(client[c]),
         \/ \E kept \in BOOLEAN :
              /\ Tell(c, kept)
              /\ kept => client[c].kept
                         \/ Logged(actions', client[c].gate, client[c].dec, client[c].rev,
                                   client[c].bytes, client[c].choice)
         \/ Refuse(c)
         \/ client' = [client EXCEPT ![c].pc = "decide"]
  PROVE  CommandsAdvance
<1>1. client \in [Clients -> CommandType] /\ client[c] \in CommandType
  BY DEF IInv, TypeOK
<1>2. \A pc \in {"idle", "told"} : ~Sent(NoCommand(pc))
  BY DEF NoCommand, Sent
<1>3. CASE \E pc \in {"idle", "told"} : client' = [client EXCEPT ![c] = NoCommand(pc)]
  BY <1>1, <1>2, <1>3 DEF CommandsAdvance
<1>4. CASE client' = [client EXCEPT ![c].pc = "decide"]
  <2> DEFINE q == [client[c] EXCEPT !.pc = "decide"]
  <2>1. /\ q.gate = client[c].gate /\ q.dec = client[c].dec /\ q.rev = client[c].rev
        /\ q.bytes = client[c].bytes /\ q.choice = client[c].choice /\ q.kept = client[c].kept
    BY <1>1 DEF CommandType
  <2>2. \A d \in Clients : client'[d] = IF d = c THEN q ELSE client[d]
    BY <1>1, <1>4
  <2> HIDE DEF q
  <2> QED BY <2>1, <2>2 DEF CommandsAdvance
<1>5. ASSUME NEW kept \in BOOLEAN,
             client' = [client EXCEPT ![c].pc = "send", ![c].kept = kept],
             kept => client[c].kept
                     \/ Logged(actions', client[c].gate, client[c].dec, client[c].rev,
                               client[c].bytes, client[c].choice)
      PROVE  CommandsAdvance
  <2> DEFINE q == [client[c] EXCEPT !.pc = "send", !.kept = kept]
  <2>1. /\ q.gate = client[c].gate /\ q.dec = client[c].dec /\ q.rev = client[c].rev
        /\ q.bytes = client[c].bytes /\ q.choice = client[c].choice /\ q.kept = kept
    BY <1>1 DEF CommandType
  <2>2. \A d \in Clients : client'[d] = IF d = c THEN q ELSE client[d]
    BY <1>1, <1>5
  <2> HIDE DEF q
  <2>3. q.kept => client[c].kept \/ KeptLogged(actions', q)
    BY <1>5, <2>1 DEF KeptLogged
  <2> QED BY <2>1, <2>2, <2>3 DEF CommandsAdvance
<1>6. CASE \E kept \in BOOLEAN :
              /\ Tell(c, kept)
              /\ kept => client[c].kept
                         \/ Logged(actions', client[c].gate, client[c].dec, client[c].rev,
                                   client[c].bytes, client[c].choice)
  <2>1. PICK kept \in BOOLEAN :
              /\ Tell(c, kept)
              /\ kept => client[c].kept
                         \/ Logged(actions', client[c].gate, client[c].dec, client[c].rev,
                                   client[c].bytes, client[c].choice)
    BY <1>6
  <2> QED BY <1>3, <1>5, <2>1 DEF Tell
<1> QED BY <1>3, <1>4, <1>6 DEF Refuse

LEMMA CheckHonest ==
  ASSUME IInv, IInv', Honest, NEW c \in Clients, Check(c)
  PROVE  Honest'
<1>1. Sent(client[c]) /\ client[c].kept \in BOOLEAN
  BY DEF Check, Sent, IInv, TypeOK, CommandType
<1>2. /\ \/ Tell(c, client[c].kept)
         \/ Refuse(c)
         \/ client' = [client EXCEPT ![c].pc = "decide"]
      /\ UNCHANGED <<graph, step, actions, attempts>>
  BY DEF Check
<1>3. CommandsAdvance
  BY <1>1, <1>2, AnswerAdvances
<1> QED BY <1>2, <1>3, NoRowHonest

LEMMA OpenHonest ==
  ASSUME IInv, IInv', Honest, NEW c \in Clients, NEW n \in Gates, Open(c, n)
  PROVE  Honest'
<1>1. n \in Nodes /\ client \in [Clients -> CommandType]
  BY GateFacts DEF IInv, TypeOK
<1>2. PICK dec \in Decisions :
        \E choice \in (IF n \in SiteGates THEN Choices ELSE {None}) :
          client' = [client EXCEPT ![c] =
            [pc |-> "send", gate |-> n, dec |-> dec, rev |-> step[n].rev,
             bytes |-> step[n].out, choice |-> choice, kept |-> FALSE]]
  BY DEF Open
<1>3. PICK choice \in (IF n \in SiteGates THEN Choices ELSE {None}) :
        client' = [client EXCEPT ![c] =
          [pc |-> "send", gate |-> n, dec |-> dec, rev |-> step[n].rev,
           bytes |-> step[n].out, choice |-> choice, kept |-> FALSE]]
  BY <1>2
<1> DEFINE q == [pc |-> "send", gate |-> n, dec |-> dec, rev |-> step[n].rev,
                 bytes |-> step[n].out, choice |-> choice, kept |-> FALSE]
<1>4. q.rev # 0 /\ q.kept = FALSE
  BY <1>1 DEF Honest, ReviewsLogged
<1>5. \A d \in Clients : client'[d] = IF d = c THEN q ELSE client[d]
  BY <1>1, <1>3
<1> HIDE DEF q
<1>6. CommandsAdvance
  BY <1>4, <1>5 DEF CommandsAdvance
<1> QED BY <1>6, NoRowHonest DEF Open

\* A decision that is accepted is recorded with the revision and the bytes that
\* the command named.
LEMMA DecisionLogged ==
  ASSUME IInv, NEW c \in Clients, NEW g \in Gates, g = client[c].gate, Sent(client[c]),
         Accepts(client[c], step[g]),
         actions' = actions \union
           {[gate |-> g, dec |-> client[c].dec, rev |-> step[g].rev,
             choice |-> client[c].choice, seen |-> client[c].bytes]}
  PROVE  /\ client[c].bytes = step[g].out /\ client[c].rev = step[g].rev
         /\ Logged(actions', g, client[c].dec, client[c].rev, client[c].bytes,
                   client[c].choice)
<1> DEFINE a == [gate |-> g, dec |-> client[c].dec, rev |-> step[g].rev,
                 choice |-> client[c].choice, seen |-> client[c].bytes]
<1>1. client[c].rev = step[g].rev
  BY DEF Accepts
<1>2. client[c].bytes = step[g].out
  BY <1>1 DEF IInv, CommandsKnow, Knows
<1>3. /\ a.gate = g /\ a.dec = client[c].dec /\ a.rev = step[g].rev
      /\ a.choice = client[c].choice /\ a.seen = client[c].bytes /\ a \in actions'
  OBVIOUS
<1> HIDE DEF a
<1> QED BY <1>1, <1>2, <1>3 DEF Logged

LEMMA DecideHonest ==
  ASSUME IInv, IInv', Honest, NEW c \in Clients, Decide(c)
  PROVE  Honest'
<1> DEFINE q == client[c]
<1>1. Sent(q) /\ Knows(q) /\ q \in CommandType
  BY DEF Decide, Sent, IInv, TypeOK, CommandsKnow
<1>g. PICK g \in Gates : g = q.gate
  BY <1>1 DEF Knows
<1>2. /\ step \in [Nodes -> RowType] /\ g \in Nodes /\ step[g] \in RowType
      /\ q.dec \in Decisions
  BY <1>1, GateFacts DEF IInv, TypeOK, Knows
<1>3. UNCHANGED <<graph, attempts>>
  BY DEF Decide
<1>4. CASE q.kept /\ Tell(c, TRUE) /\ UNCHANGED <<step, run, actions>>
  <2>1. CommandsAdvance
    BY <1>1, <1>4, AnswerAdvances
  <2> QED BY <1>3, <1>4, <2>1, NoRowHonest
<1>5. CASE Refuse(c) /\ UNCHANGED <<step, run, actions>>
  <2>1. CommandsAdvance
    BY <1>1, <1>5, AnswerAdvances
  <2> QED BY <1>3, <1>5, <2>1, NoRowHonest
<1>6. CASE /\ Accepts(q, step[g]) /\ step' = [step EXCEPT ![g] = Reviewed(q, step[g])]
           /\ actions' = actions \union {[gate |-> g, dec |-> q.dec, rev |-> step[g].rev,
                                         choice |-> q.choice, seen |-> q.bytes]}
           /\ Tell(c, TRUE)
  <2> DEFINE row == Reviewed(q, step[g])
  <2>1. /\ q.bytes = step[g].out /\ q.rev = step[g].rev
        /\ Logged(actions', g, q.dec, q.rev, q.bytes, q.choice)
    BY <1>1, <1>g, <1>6, DecisionLogged
  <2>2. /\ row \in RowType /\ row.out = step[g].out /\ row.rev # 0
        /\ row.st \in {"succeeded", "retrying", "failed"} /\ row.att = step[g].att
        /\ row.review.dec = q.dec /\ row.review.rev = step[g].rev
        /\ row.review.bytes = step[g].out /\ row.review.choice = q.choice
    BY <1>1, <1>2, ReviewedKeeps
  <2>3. step' = [step EXCEPT ![g] = row] /\ step[g].st = "awaiting_review"
    BY <1>6 DEF Accepts
  <2>4. CommandsAdvance
    BY <1>1, <1>6, <1>g, <2>1, AnswerAdvances
  <2>5. actions \subseteq actions' /\ step[g].att \in Nat
    BY <1>2, <1>6 DEF RowType
  <2> HIDE DEF row
  <2>6. step'[g] = row
    BY <1>2, <2>3
  <2>7. ReviewLogged(actions', g, step'[g])
    BY <2>1, <2>2, <2>6 DEF ReviewLogged
  <2>8. Advanced(g)
    BY <2>2, <2>3, <2>5, <2>6, <2>7 DEF Advanced, Under
  <2>9. RowsAdvance
    BY <1>2, <2>3, <2>8 DEF RowsAdvance
  <2>10. AttemptsAdvance
    BY <1>3 DEF AttemptsAdvance
  <2> QED BY <1>3, <2>4, <2>5, <2>9, <2>10, HonestStays
<1> QED BY <1>g, <1>4, <1>5, <1>6 DEF Decide

LEMMA NextHonest == IInv /\ IInv' /\ Honest /\ [Next]_vars => Honest'
<1> SUFFICES ASSUME IInv, IInv', Honest, [Next]_vars PROVE Honest'
  OBVIOUS
<1>1. CASE UNCHANGED vars
  BY <1>1, CommandsStay, NoRowHonest DEF vars
<1>2. CASE SyncRun
  BY <1>2, CommandsStay, NoRowHonest DEF SyncRun
<1>3. CASE Cancel
  BY <1>3, CancelHonest
<1>4. CASE RetryQuality
  BY <1>4, RetryHonest
<1>5. ASSUME NEW n \in Nodes, Claim(n) \/ Recover(n) \/ CancelBlocked(n)
      PROVE  Honest'
  BY <1>5, ClaimHonest, RecoverHonest, CancelBlockedHonest
<1>6. ASSUME NEW e \in work, Finish(e) \/ Fail(e) \/ StopCancelled(e)
      PROVE  Honest'
  BY <1>6, FinishHonest, FailHonest, StopHonest
<1>7. ASSUME NEW c \in Clients, Check(c) \/ Decide(c) \/ \E n \in Gates : Open(c, n)
      PROVE  Honest'
  BY <1>7, CheckHonest, DecideHonest, OpenHonest
<1> QED BY <1>1, <1>2, <1>3, <1>4, <1>5, <1>6, <1>7 DEF Next

\* Only Check, which found the command's decision in the row, and Decide, which
\* has kept or just written it, tell anyone that a command was accepted.
LEMMA ToldIsLogged ==
  ASSUME IInv, Honest, [Next]_vars, NEW c \in Clients,
         client[c].pc # "told", client'[c].pc = "told"
  PROVE  Logged(actions', client[c].gate, client[c].dec, client[c].rev,
                client[c].bytes, client[c].choice)
<1> DEFINE q == client[c]
<1>1. client \in [Clients -> CommandType] /\ q \in CommandType
  BY DEF IInv, TypeOK
<1>2. ASSUME NEW d \in Clients, NEW n \in Gates, Open(d, n)
      PROVE  FALSE
  <2>1. PICK dec \in Decisions :
          \E choice \in (IF n \in SiteGates THEN Choices ELSE {None}) :
            client' = [client EXCEPT ![d] =
              [pc |-> "send", gate |-> n, dec |-> dec, rev |-> step[n].rev,
               bytes |-> step[n].out, choice |-> choice, kept |-> FALSE]]
    BY <1>2 DEF Open
  <2>2. \A e \in Clients : e # d => client'[e] = client[e]
    BY <1>1, <2>1
  <2>3. client'[d].pc = "send"
    BY <1>1, <2>1
  <2> QED BY <2>2, <2>3
<1>3. ASSUME NEW d \in Clients, Check(d) \/ Decide(d)
      PROVE  d = c /\ Sent(q)
  <2>1. \A e \in Clients : e # d => client'[e] = client[e]
    BY <1>1, <1>3 DEF Check, Decide, Tell, Refuse
  <2>2. d = c
    BY <2>1
  <2> QED BY <1>3, <2>2 DEF Check, Decide, Sent
<1>4. ASSUME Sent(q)
      PROVE  q.gate \in Nodes /\ q.gate \in Gates /\ q.rev # 0 /\ KeptLogged(actions, q)
  BY <1>4, GateFacts DEF IInv, TypeOK, CommandsKnow, Knows, Honest, CommandsLogged
<1>5. ASSUME Refuse(c) \/ client' = [client EXCEPT ![c].pc = "decide"]
      PROVE  FALSE
  <2>1. client'[c].pc \in {"idle", "decide"}
    BY <1>1, <1>5 DEF Refuse, NoCommand, CommandType
  <2> QED BY <2>1
<1>6. CASE Check(c)
  <2>1. Replays(q, step[q.gate]) /\ actions' = actions /\ q.gate \in Nodes /\ q.rev # 0
    BY <1>3, <1>4, <1>5, <1>6 DEF Check
  <2>2. /\ step[q.gate].review.dec = q.dec /\ step[q.gate].review.rev = q.rev
        /\ step[q.gate].out = q.bytes /\ step[q.gate].review.choice = q.choice
    BY <2>1 DEF Replays
  <2>3. ReviewLogged(actions, q.gate, step[q.gate])
    BY <2>1 DEF Honest, ReviewsLogged
  <2> QED BY <2>1, <2>2, <2>3 DEF ReviewLogged
<1>7. CASE Decide(c)
  <2>1. Sent(q) /\ q.gate \in Gates
    BY <1>3, <1>4, <1>7
  <2>2. CASE q.kept /\ UNCHANGED actions
    BY <1>4, <2>1, <2>2 DEF KeptLogged
  <2>3. CASE Accepts(q, step[q.gate]) /\
             actions' = actions \union
               {[gate |-> q.gate, dec |-> q.dec, rev |-> step[q.gate].rev,
                 choice |-> q.choice, seen |-> q.bytes]}
    BY <2>1, <2>3, DecisionLogged
  <2> QED BY <1>5, <1>7, <2>2, <2>3 DEF Decide
<1>8. ASSUME client' = client
      PROVE  FALSE
  BY <1>8
<1> QED
  BY <1>2, <1>3, <1>6, <1>7, <1>8
     DEF Next, vars, Claim, Recover, CancelBlocked, Finish, Fail, StopCancelled,
         SyncRun, Cancel, RetryQuality

\* A gate whose manifest lists pages elsewhere is not what a worker writes, and a
\* command that gets as far as the decision is about another version of it.
LEMMA AwayWaits ==
  ASSUME IInv, [Next]_vars
  PROVE  OnlyCancelled
<1> SUFFICES ASSUME NEW n \in SiteGates, step[n].st = "awaiting_review", step[n].away,
                    ~run'.cancel
             PROVE  step'[n] = step[n]
  BY DEF OnlyCancelled
<1>1. step \in [Nodes -> RowType] /\ n \in Nodes /\ n # "quality"
  BY DEF IInv, TypeOK, SiteGates, Nodes
<1>2. CASE UNCHANGED vars \/ SyncRun \/ RetryQuality
  BY <1>1, <1>2 DEF vars, SyncRun, RetryQuality
<1>3. ~Cancel
  BY DEF Cancel
<1>4. ASSUME NEW m \in Nodes, Claim(m) \/ Recover(m) \/ CancelBlocked(m)
      PROVE  step'[n] = step[n]
  <2>1. step[m].st # "awaiting_review" /\ \E row : step' = [step EXCEPT ![m] = row]
    BY <1>4 DEF Claim, Recover, CancelBlocked, Waiting
  <2> QED BY <1>1, <2>1
<1>5. ASSUME NEW e \in work, Finish(e) \/ Fail(e) \/ StopCancelled(e)
      PROVE  step'[n] = step[n]
  <2>1. step' = step \/ (step[e.n].st = "running" /\ \E row : step' = [step EXCEPT ![e.n] = row])
    BY <1>5 DEF Finish, Fail, StopCancelled, Holds, IInv, WorkKnows
  <2> QED BY <1>1, <2>1
<1>6. ASSUME NEW c \in Clients, Check(c) \/ \E m \in Gates : Open(c, m)
      PROVE  step'[n] = step[n]
  BY <1>6 DEF Check, Open
<1>7. ASSUME NEW c \in Clients, Decide(c)
      PROVE  step'[n] = step[n]
  <2>1. CASE step' = step
    BY <2>1
  <2>2. CASE Accepts(client[c], step[client[c].gate])
             /\ \E row : step' = [step EXCEPT ![client[c].gate] = row]
    <3>1. Knows(client[c]) /\ client[c].pc = "decide"
      BY <1>7 DEF Decide, IInv, CommandsKnow, Sent
    <3>2. client[c].gate # n
      BY <2>2, <3>1 DEF Accepts, Knows, Informed
    <3> QED BY <1>1, <2>2, <3>2
  <2> QED BY <1>7, <2>1, <2>2 DEF Decide
<1> QED BY <1>2, <1>3, <1>4, <1>5, <1>6, <1>7 DEF Next

\* Recorded attempts are past, steps run in the order of the graph, a gate waits
\* with evidence and no decision, and every review in a row and every kept answer
\* is among the recorded decisions (save_step, review_capture,
\* review_run_step_idempotently).
THEOREM HonestInvariance == Spec => [](IInv /\ Honest)
BY InitIInv, InitHonest, NextIInv, NextHonest, PTL DEF Spec

\* Whoever is told that a command was accepted finds it recorded as the decision
\* on the evidence it named; a waiting gate is the one the run shows and can be
\* decided on, except when its manifest lists pages of another origin: then no
\* command is accepted, and only a cancellation ends the wait; a running capture
\* can still be recorded (_run_status, _matching_attempt, review_capture,
\* review_site_manifest, _site_review_metadata, _site_manifest_content).
THEOREM AnswersAreSo == Spec => AnswersAreTrue
<1>1. IInv /\ Honest /\ [Next]_vars => [AcceptedIsRecorded]_vars
  <2> SUFFICES ASSUME IInv, Honest, [Next]_vars PROVE AcceptedIsRecorded
    OBVIOUS
  <2> QED BY ToldIsLogged DEF AcceptedIsRecorded, Logged
<1>2. IInv /\ [Next]_vars => [OnlyCancelled]_vars
  BY AwayWaits
<1>3. Spec => [](CaptureCanEnd /\ GateCanBeDecided)
  BY HonestInvariance, HonestAnswers, PTL
<1>4. Spec => [][AcceptedIsRecorded /\ OnlyCancelled]_vars
  BY HonestInvariance, <1>1, <1>2, PTL DEF Spec
<1> QED BY <1>3, <1>4, PTL DEF AnswersAreTrue
=============================================================================
