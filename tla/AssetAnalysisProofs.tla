------------------------ MODULE AssetAnalysisProofs ------------------------
(***************************************************************************)
(* Machine-checked: media analysis publishes only what its holder finished,*)
(* shows nothing unscanned and agrees with itself on every verdict, for    *)
(* any number of workers, assets, jobs, attempts, crashes, lapsed leases   *)
(* and commands.  The argument: an item's revision tells its holder from   *)
(* whoever has lost it (Fits: a worker nobody overtook owns the running    *)
(* item, at the stage it believes), and while leases hold every worker at  *)
(* an item is its holder, so that a verdict written outside the item's own *)
(* transaction is still the item's.                                        *)
(*                                                                         *)
(* The last two sections prove that no started job is forgotten: Care says *)
(* that a job without a verdict is either still delivered or in the hand   *)
(* of the worker that will pass it on, and Told that a batch is noted as   *)
(* reported only once the parked step runs after the verdicts of all its   *)
(* jobs.                                                                   *)
(***************************************************************************)
EXTENDS AssetAnalysis, FiniteSetTheorems, TLAPS

-----------------------------------------------------------------------------
(* The inductive invariant.                                                *)

\* TypeOK by rows, with what it leaves open of the workers.
AssetRow(r) ==
  r \in [st : DOMAIN AllowedTransitions,
         an : {"pending", "running", "completed", "failed"}, rights : BOOLEAN,
         scan : {"pending", "clean", "rejected", "failed"},
         prev : DOMAIN AllowedTransitions, preview : BOOLEAN]
BatchRow(r) == r \in [st : BatchStates, sent : BOOLEAN]
ItemRow(r) ==
  /\ r \in [st : ItemStates, att : Nat, done : 0..Stages,
            owner : Workers \union {NoWorker}, exp : BOOLEAN, due : BOOLEAN]
  /\ (r.st = "running") = (r.owner # NoWorker)
MsgRow(r) ==
  /\ r \in [st : {"none", "ready", "leased", "done", "failed"},
            by : Workers \union {NoWorker}, n : 0..Deliveries]
  /\ (r.st = "leased") = (r.by # NoWorker)

\* Where a worker is at its item.
AtItem == {"stage", "work", "cancel", "abort", "publish", "fail"}
WorkerRow(r) ==
  r \in [pc : AtItem \union {"idle", "serve", "claim", "refresh", "settle",
                             "resume", "review", "mark"},
         job : Jobs, tool : BOOLEAN, fresh : BOOLEAN, att : Nat, done : 0..Stages,
         rights : BOOLEAN, retry : BOOLEAN, act : {"ack", "release"},
         group : SUBSET Parked]

Function(f, S) == f = [x \in S |-> f[x]]
AssetsShaped  == Function(asset, Assets) /\ \A a \in Assets : AssetRow(asset[a])
JobsShaped    == job \in [Jobs -> {"none", "queued", "running", "succeeded", "failed"}]
BatchesShaped == Function(batch, Jobs) /\ \A j \in Jobs : BatchRow(batch[j])
ItemsShaped   == Function(item, Jobs) /\ \A j \in Jobs : ItemRow(item[j])
MsgsShaped    == Function(msg, Jobs) /\ \A j \in Jobs : MsgRow(msg[j])
WorkersShaped == Function(wk, Workers) /\ \A w \in Workers : WorkerRow(wk[w])
RestShaped ==
  /\ outbox \subseteq Jobs /\ hand \subseteq Jobs
  /\ patch \in [open : BOOLEAN, of : Assets, rights : BOOLEAN, preview : BOOLEAN, fresh : BOOLEAN]
  /\ step \in [st : {"running", "awaiting_review", "retrying", "succeeded"}, saw : SUBSET Parked]
  /\ used \in [Events -> Nat]
Shapes ==
  /\ AssetsShaped /\ JobsShaped /\ BatchesShaped /\ ItemsShaped
  /\ MsgsShaped /\ WorkersShaped /\ RestShaped

\* An item comes with its batch, and a delivery after its job was recorded.
Together == \A j \in Jobs : (batch[j].st = "none") = (item[j].st = "none")
Delivered ==
  \A j \in Jobs : /\ job[j] = "none" \/ j \in outbox => msg[j].st = "none"
                  /\ j \in outbox => job[j] # "none"

\* Worker w, where it is r, next to its item i and its batch b.  If nobody
\* wrote the item since, the item runs, is its own and is at its stage; calm
\* says that no lease lapsed under a live worker and nobody interfered: then
\* nobody else can have written it.
Fits(w, r, i, b, calm) ==
  /\ r.pc \in AtItem \union {"claim", "refresh"} => b.st # "none"
  /\ r.pc \in {"stage", "work"} => r.done < Stages
  /\ r.pc = "publish" => r.done = Stages
  /\ r.pc \in AtItem /\ r.fresh => i.st = "running" /\ i.owner = w /\ i.done = r.done
  /\ r.pc \in AtItem /\ calm => r.fresh /\ ~i.exp
Calm(j, u, h) == u.lapse = 0 /\ j \notin h
Crew ==
  \A w \in Workers : Fits(w, wk[w], item[Mine(w)], batch[Mine(w)], Calm(Mine(w), used, hand))

IInv ==
  /\ Shapes /\ Together /\ Delivered /\ Crew
  /\ ReadyWasScanned /\ VerdictsAgree

LEMMA ShapesGiveTypes == Shapes => TypeOK
<1> SUFFICES ASSUME Shapes PROVE TypeOK
  OBVIOUS
<1>1. asset \in [Assets -> [st : DOMAIN AllowedTransitions,
                 an : {"pending", "running", "completed", "failed"}, rights : BOOLEAN,
                 scan : {"pending", "clean", "rejected", "failed"},
                 prev : DOMAIN AllowedTransitions, preview : BOOLEAN]]
  BY DEF Shapes, AssetsShaped, AssetRow, Function
<1>2. batch \in [Jobs -> [st : BatchStates, sent : BOOLEAN]]
  BY DEF Shapes, BatchesShaped, BatchRow, Function
<1>3. item \in [Jobs -> [st : ItemStates, att : Nat, done : 0..Stages,
                         owner : Workers \union {NoWorker}, exp : BOOLEAN, due : BOOLEAN]]
  BY DEF Shapes, ItemsShaped, ItemRow, Function
<1>4. msg \in [Jobs -> [st : {"none", "ready", "leased", "done", "failed"},
                        by : Workers \union {NoWorker}, n : 0..Deliveries]]
  BY DEF Shapes, MsgsShaped, MsgRow, Function
<1>5. \A j \in Jobs : /\ item[j].st = "running" <=> item[j].owner # NoWorker
                      /\ msg[j].st = "leased" <=> msg[j].by # NoWorker
  BY DEF Shapes, ItemsShaped, ItemRow, MsgsShaped, MsgRow
<1>6. \A w \in Workers : /\ wk[w].job \in Jobs /\ wk[w].done \in 0..Stages
                         /\ wk[w].group \subseteq Parked
  BY DEF Shapes, WorkersShaped, WorkerRow
<1> QED
  BY <1>1, <1>2, <1>3, <1>4, <1>5, <1>6 DEF TypeOK, Shapes, JobsShaped, RestShaped

-----------------------------------------------------------------------------
(* What the write of one row keeps.                                        *)

LEMMA StartRows ==
  /\ WorkerRow(IdleWorker)
  /\ ItemRow(NoItem) /\ AssetRow(NewAsset)
  /\ (CHOOSE j \in Jobs : TRUE) \in Jobs
<1>1. (CHOOSE j \in Jobs : TRUE) \in Jobs
  BY JobAssumption
<1>2. ItemRow(NoItem)
  BY DEF NoItem, ItemRow, ItemStates, Stages
<1>3. AssetRow(NewAsset)
  BY DEF NewAsset, AssetRow, AllowedTransitions
<1>4. WorkerRow(IdleWorker)
  BY <1>1 DEF IdleWorker, WorkerRow, AtItem, Stages
<1> QED BY <1>1, <1>2, <1>3, <1>4

\* A step of worker w that writes nothing but its own row.
LEMMA OwnRow ==
  ASSUME IInv, NEW w \in Workers, NEW row, WorkerRow(row),
         Fits(w, row, item[row.job], batch[row.job], Calm(row.job, used, hand)),
         wk' = [wk EXCEPT ![w] = row],
         UNCHANGED <<asset, job, batch, item, msg, outbox, patch, step>>,
         hand \subseteq hand' /\ hand' \subseteq Jobs,
         used' \in [Events -> Nat], used'.lapse = 0 => used.lapse = 0
  PROVE  IInv'
<1>1. /\ Function(wk', Workers)
      /\ \A v \in Workers : wk'[v] = IF v = w THEN row ELSE wk[v]
  BY DEF IInv, Shapes, WorkersShaped, Function
<1>2. Shapes'
  BY <1>1 DEF IInv, Shapes, WorkersShaped, AssetsShaped, JobsShaped, BatchesShaped,
              ItemsShaped, MsgsShaped, RestShaped
<1>3. Together' /\ Delivered'
  BY DEF IInv, Together, Delivered
<1>4. Crew'
  <2> SUFFICES ASSUME NEW v \in Workers
               PROVE  Fits(v, wk'[v], item[wk'[v].job], batch[wk'[v].job],
                           Calm(wk'[v].job, used', hand'))
    BY DEF Crew, Mine
  <2>1. wk'[v].job \in Jobs
    BY <1>1 DEF IInv, Shapes, WorkersShaped, WorkerRow
  <2>2. Calm(wk'[v].job, used', hand') => Calm(wk'[v].job, used, hand)
    BY DEF Calm
  <2>3. Fits(v, wk'[v], item[wk'[v].job], batch[wk'[v].job], Calm(wk'[v].job, used, hand))
    BY <1>1 DEF IInv, Crew, Mine
  <2> QED BY <2>2, <2>3 DEF Fits
<1>5. ReadyWasScanned' /\ VerdictsAgree'
  BY DEF IInv, ReadyWasScanned, VerdictsAgree
<1> QED BY <1>2, <1>3, <1>4, <1>5 DEF IInv

LEMMA LocalRow ==
  ASSUME IInv, NEW w \in Workers, NEW row, WorkerRow(row),
         Fits(w, row, item[row.job], batch[row.job], Calm(row.job, used, hand)),
         LocalStep(w, row)
  PROVE  IInv'
<1>1. hand \subseteq hand' /\ hand' \subseteq Jobs /\ used' \in [Events -> Nat]
      /\ used'.lapse = used.lapse
  BY DEF LocalStep, IInv, Shapes, RestShaped
<1> QED BY <1>1, OwnRow DEF LocalStep

\* The rows a worker may go to, and what it needs there.
LEMMA GotoRow ==
  ASSUME IInv, NEW w \in Workers,
         NEW pc \in AtItem \union {"idle", "serve", "claim", "refresh", "settle",
                                   "resume", "review", "mark"}
  PROVE  WorkerRow(Goto(w, pc)) /\ Goto(w, pc).job = Mine(w)
         /\ Goto(w, pc).pc = pc /\ Goto(w, pc).fresh = wk[w].fresh
         /\ Goto(w, pc).done = wk[w].done
BY DEF IInv, Shapes, WorkersShaped, WorkerRow, Goto, Mine

LEMMA SpendGrows ==
  ASSUME IInv, NEW e \in Events, Spend(e)
  PROVE  /\ used' \in [Events -> Nat]
         /\ used'.lapse = 0 => used.lapse = 0 /\ e # "lapse"
BY DEF Spend, IInv, Shapes, RestShaped, Events

LEMMA StageStartsKeeps ==
  ASSUME IInv, NEW w \in Workers, StageStarts(w)
  PROVE  IInv'
<1>1. LocalStep(w, Goto(w, "cancel")) \/ LocalStep(w, Goto(w, "work"))
  BY DEF StageStarts
<1>2. ASSUME NEW pc \in {"cancel", "work"}
      PROVE  /\ WorkerRow(Goto(w, pc))
             /\ Fits(w, Goto(w, pc), item[Goto(w, pc).job], batch[Goto(w, pc).job],
                     Calm(Goto(w, pc).job, used, hand))
  BY GotoRow DEF StageStarts, At, IInv, Crew, Fits, AtItem
<1> QED BY <1>1, <1>2, LocalRow

LEMMA FailingRow ==
  ASSUME IInv, NEW w \in Workers, NEW retry \in BOOLEAN, wk[w].pc \in AtItem
  PROVE  /\ WorkerRow(Failing(w, retry))
         /\ Fits(w, Failing(w, retry), item[Failing(w, retry).job],
                 batch[Failing(w, retry).job], Calm(Failing(w, retry).job, used, hand))
<1>1. /\ WorkerRow(Failing(w, retry)) /\ Failing(w, retry).job = Mine(w)
      /\ Failing(w, retry).pc = "fail" /\ Failing(w, retry).fresh = wk[w].fresh
      /\ Failing(w, retry).done = wk[w].done
  BY DEF IInv, Shapes, WorkersShaped, WorkerRow, Goto, Mine, Failing, AtItem
<1> QED BY <1>1 DEF IInv, Crew, Fits, AtItem

LEMMA StageFailsKeeps ==
  ASSUME IInv, NEW w \in Workers, StageFails(w)
  PROVE  IInv'
<1>1. PICK retry \in BOOLEAN : LocalStep(w, Failing(w, retry))
  BY DEF StageFails
<1>2. wk[w].pc \in AtItem
  BY DEF StageFails, At, AtItem
<1> QED BY <1>1, <1>2, FailingRow, LocalRow

LEMMA StageAbortsKeeps ==
  ASSUME IInv, NEW w \in Workers, StageAborts(w)
  PROVE  IInv'
<1>1. /\ WorkerRow(Goto(w, "abort"))
      /\ Fits(w, Goto(w, "abort"), item[Goto(w, "abort").job],
              batch[Goto(w, "abort").job], Calm(Goto(w, "abort").job, used, hand))
  BY GotoRow DEF StageAborts, At, IInv, Crew, Fits, AtItem
<1> QED BY <1>1, LocalRow DEF StageAborts

\* Nothing is asked of a worker that is not at an item.
LEMMA AwayFits ==
  ASSUME NEW w, NEW r, NEW i, NEW b, NEW calm,
         r.pc \notin AtItem \union {"claim", "refresh"}
  PROVE  Fits(w, r, i, b, calm)
BY DEF Fits, AtItem

LEMMA ResumeReadKeeps ==
  ASSUME IInv, NEW w \in Workers, ResumeRead(w)
  PROVE  IInv'
<1>1. Targets \subseteq Parked
  BY DEF Targets
<1> DEFINE woken(pc) == [IdleWorker EXCEPT !.group = Targets, !.pc = pc]
<1>2. LocalStep(w, IdleWorker) \/ LocalStep(w, woken("review")) \/ LocalStep(w, woken("mark"))
  BY DEF ResumeRead
<1>3. ASSUME NEW pc \in {"review", "mark"}
      PROVE  WorkerRow(woken(pc)) /\ woken(pc).pc = pc
  BY <1>1, StartRows DEF IdleWorker, WorkerRow, AtItem, Stages
<1>4. WorkerRow(IdleWorker) /\ IdleWorker.pc = "idle"
  BY StartRows DEF IdleWorker
<1> HIDE DEF woken
<1>5. CASE LocalStep(w, IdleWorker)
  BY <1>4, <1>5, AwayFits, LocalRow DEF AtItem
<1>6. ASSUME NEW pc \in {"review", "mark"}, LocalStep(w, woken(pc))
      PROVE  IInv'
  BY <1>3, <1>6, AwayFits, LocalRow DEF AtItem
<1> QED BY <1>2, <1>5, <1>6

LEMMA CrashKeeps ==
  ASSUME IInv, NEW w \in Workers, Crash(w)
  PROVE  IInv'
<1>1. WorkerRow(IdleWorker) /\ IdleWorker.pc = "idle"
  BY StartRows DEF IdleWorker
<1>2. /\ hand \subseteq hand' /\ hand' \subseteq Jobs
      /\ used' \in [Events -> Nat]
      /\ used'.lapse = 0 => used.lapse = 0
  BY SpendGrows DEF Crash, IInv, Shapes, RestShaped, Events
<1>3. Fits(w, IdleWorker, item[IdleWorker.job], batch[IdleWorker.job],
          Calm(IdleWorker.job, used, hand))
  BY <1>1, AwayFits DEF AtItem
<1> QED BY <1>1, <1>2, <1>3, OwnRow DEF Crash

LEMMA RunToolKeeps ==
  ASSUME IInv, NEW w \in Workers, NEW j \in Jobs, RunTool(w, j)
  PROVE  IInv'
<1> DEFINE row == [IdleWorker EXCEPT !.pc = "claim", !.job = j, !.tool = TRUE]
<1>1. WorkerRow(row) /\ row.pc = "claim" /\ row.job = j
  BY StartRows DEF IdleWorker, WorkerRow, AtItem
<1>2. /\ hand \subseteq hand' /\ hand' \subseteq Jobs
      /\ used' \in [Events -> Nat]
      /\ used'.lapse = 0 => used.lapse = 0
  BY SpendGrows DEF RunTool, ByHand, IInv, Shapes, RestShaped, Events
<1>3. wk' = [wk EXCEPT ![w] = row] /\ batch[j].st # "none"
      /\ UNCHANGED <<asset, job, batch, item, msg, outbox, patch, step>>
  BY DEF RunTool
<1> HIDE DEF row
<1>4. Fits(w, row, item[row.job], batch[row.job], Calm(row.job, used, hand))
  BY <1>1, <1>3 DEF Fits, AtItem
<1> QED BY <1>1, <1>2, <1>3, <1>4, OwnRow

-----------------------------------------------------------------------------
(* Steps that leave the items alone.                                       *)

\* What keeps a worker where it is: its batch stays, and the item it holds
\* stays as it is.
LEMMA StillFits ==
  ASSUME NEW w, NEW r, NEW i, NEW b, NEW calm, Fits(w, r, i, b, calm),
         NEW i2, NEW b2, NEW calm2 \in BOOLEAN,
         b.st # "none" => b2.st # "none", calm2 => calm,
         r.pc \in AtItem /\ i.st = "running" /\ i.owner = w =>
           /\ i2.st = "running" /\ i2.owner = w /\ i2.done = i.done
           /\ calm2 /\ i2.exp => i.exp
  PROVE  Fits(w, r, i2, b2, calm2)
BY DEF Fits

LEMMA CrewKept ==
  ASSUME IInv, UNCHANGED wk, hand \subseteq hand',
         used'.lapse = 0 => used.lapse = 0,
         \A j \in Jobs : /\ batch[j].st # "none" => batch'[j].st # "none"
                         /\ item[j].st = "running" => item'[j] = item[j]
  PROVE  Crew'
<1> SUFFICES ASSUME NEW w \in Workers
             PROVE  Fits(w, wk[w], item'[wk[w].job], batch'[wk[w].job],
                         Calm(wk[w].job, used', hand'))
  BY DEF Crew, Mine
<1>1. wk[w].job \in Jobs
  BY DEF IInv, Shapes, WorkersShaped, WorkerRow
<1>2. Fits(w, wk[w], item[wk[w].job], batch[wk[w].job], Calm(wk[w].job, used, hand))
  BY DEF IInv, Crew, Mine
<1>3. Calm(wk[w].job, used', hand') => Calm(wk[w].job, used, hand)
  BY DEF Calm
<1>4. Calm(wk[w].job, used', hand') \in BOOLEAN
  BY DEF Calm
<1> QED BY <1>1, <1>2, <1>3, <1>4, StillFits

\* The same with a worker that goes somewhere.
LEMMA CrewMoves ==
  ASSUME IInv, hand \subseteq hand',
         used'.lapse = 0 => used.lapse = 0,
         NEW w \in Workers, NEW row, row.job \in Jobs, wk' = [wk EXCEPT ![w] = row],
         Fits(w, row, item'[row.job], batch'[row.job], Calm(row.job, used', hand')),
         \A j \in Jobs : /\ batch[j].st # "none" => batch'[j].st # "none"
                         /\ item[j].st = "running" /\ item[j].owner # w => item'[j] = item[j]
  PROVE  Crew'
<1> SUFFICES ASSUME NEW v \in Workers
             PROVE  Fits(v, wk'[v], item'[wk'[v].job], batch'[wk'[v].job],
                         Calm(wk'[v].job, used', hand'))
  BY DEF Crew, Mine
<1>0. wk'[v] = IF v = w THEN row ELSE wk[v]
  BY DEF IInv, Shapes, WorkersShaped, Function
<1>1. wk[v].job \in Jobs
  BY DEF IInv, Shapes, WorkersShaped, WorkerRow
<1>2. Fits(v, wk[v], item[wk[v].job], batch[wk[v].job], Calm(wk[v].job, used, hand))
  BY DEF IInv, Crew, Mine
<1>3. Calm(wk[v].job, used', hand') => Calm(wk[v].job, used, hand)
  BY DEF Calm
<1>4. Calm(wk[v].job, used', hand') \in BOOLEAN
  BY DEF Calm
<1>5. v # w => Fits(v, wk[v], item'[wk[v].job], batch'[wk[v].job],
                    Calm(wk[v].job, used', hand'))
  BY <1>1, <1>2, <1>3, <1>4, StillFits
<1> QED BY <1>0, <1>5

\* One row of a table is written.
LEMMA OneMsg ==
  ASSUME MsgsShaped, NEW j \in Jobs, NEW row, MsgRow(row), msg' = [msg EXCEPT ![j] = row]
  PROVE  MsgsShaped' /\ \A k \in Jobs : msg'[k] = IF k = j THEN row ELSE msg[k]
<1>1. /\ Function(msg', Jobs)
      /\ \A k \in Jobs : msg'[k] = IF k = j THEN row ELSE msg[k]
  BY DEF MsgsShaped, Function
<1> QED BY <1>1 DEF MsgsShaped
LEMMA OneWorker ==
  ASSUME WorkersShaped, NEW w \in Workers, NEW row, WorkerRow(row),
         wk' = [wk EXCEPT ![w] = row]
  PROVE  WorkersShaped'
<1>1. /\ Function(wk', Workers)
      /\ \A v \in Workers : wk'[v] = IF v = w THEN row ELSE wk[v]
  BY DEF WorkersShaped, Function
<1> QED BY <1>1 DEF WorkersShaped
LEMMA OneBatch ==
  ASSUME BatchesShaped, NEW j \in Jobs, NEW row, BatchRow(row),
         batch' = [batch EXCEPT ![j] = row]
  PROVE  BatchesShaped' /\ \A k \in Jobs : batch'[k] = IF k = j THEN row ELSE batch[k]
<1>1. /\ Function(batch', Jobs)
      /\ \A k \in Jobs : batch'[k] = IF k = j THEN row ELSE batch[k]
  BY DEF BatchesShaped, Function
<1> QED BY <1>1 DEF BatchesShaped
LEMMA OneItem ==
  ASSUME ItemsShaped, NEW j \in Jobs, NEW row, ItemRow(row), item' = [item EXCEPT ![j] = row]
  PROVE  ItemsShaped' /\ \A k \in Jobs : item'[k] = IF k = j THEN row ELSE item[k]
<1>1. /\ Function(item', Jobs)
      /\ \A k \in Jobs : item'[k] = IF k = j THEN row ELSE item[k]
  BY DEF ItemsShaped, Function
<1> QED BY <1>1 DEF ItemsShaped
LEMMA OneAsset ==
  ASSUME AssetsShaped, NEW a \in Assets, NEW row, AssetRow(row),
         asset' = [asset EXCEPT ![a] = row]
  PROVE  AssetsShaped' /\ \A b \in Assets : asset'[b] = IF b = a THEN row ELSE asset[b]
<1>1. /\ Function(asset', Assets)
      /\ \A b \in Assets : asset'[b] = IF b = a THEN row ELSE asset[b]
  BY DEF AssetsShaped, Function
<1> QED BY <1>1 DEF AssetsShaped

\* Steps of the queue.
LEMMA MsgStep ==
  ASSUME IInv, NEW j \in Jobs, NEW row, MsgRow(row), msg' = [msg EXCEPT ![j] = row],
         UNCHANGED <<asset, job, batch, item, patch, step>>,
         RestShaped', WorkersShaped', Crew', hand \subseteq hand',
         used'.lapse = 0 => used.lapse = 0, outbox' \subseteq outbox,
         job[j] = "none" \/ j \in outbox' => row.st = "none"
  PROVE  IInv'
<1>1. /\ MsgsShaped'
      /\ \A k \in Jobs : msg'[k] = IF k = j THEN row ELSE msg[k]
  BY OneMsg DEF IInv, Shapes
<1>2. Shapes'
  BY <1>1 DEF IInv, Shapes, AssetsShaped, JobsShaped, BatchesShaped, ItemsShaped
<1>3. Together' /\ Delivered'
  BY <1>1 DEF IInv, Together, Delivered
<1>4. ReadyWasScanned' /\ VerdictsAgree'
  BY DEF IInv, ReadyWasScanned, VerdictsAgree
<1> QED BY <1>2, <1>3, <1>4 DEF IInv

LEMMA SameMsg ==
  ASSUME IInv, UNCHANGED <<asset, job, batch, item, msg, patch, step>>,
         RestShaped', WorkersShaped', Crew', hand \subseteq hand',
         used'.lapse = 0 => used.lapse = 0, outbox' \subseteq outbox
  PROVE  IInv'
<1>1. Shapes'
  BY DEF IInv, Shapes, AssetsShaped, JobsShaped, BatchesShaped, ItemsShaped, MsgsShaped
<1>2. Together' /\ Delivered'
  BY DEF IInv, Together, Delivered
<1>3. ReadyWasScanned' /\ VerdictsAgree'
  BY DEF IInv, ReadyWasScanned, VerdictsAgree
<1> QED BY <1>1, <1>2, <1>3 DEF IInv

LEMMA ReserveKeeps ==
  ASSUME IInv, NEW w \in Workers, Reserve(w)
  PROVE  IInv'
<1>1. PICK j \in Jobs :
        /\ msg[j].st = "ready"
        /\ IF msg[j].n < Deliveries
           THEN /\ msg' = [msg EXCEPT ![j] = [st |-> "leased", by |-> w, n |-> @.n + 1]]
                /\ wk' = [wk EXCEPT ![w] = [IdleWorker EXCEPT !.pc = "serve", !.job = j]]
           ELSE msg' = [msg EXCEPT ![j].st = "failed"] /\ UNCHANGED wk
  BY DEF Reserve
<1>2. UNCHANGED <<asset, job, batch, item, outbox, patch, step, hand, used>>
  BY DEF Reserve
<1>3. RestShaped'
  BY <1>2 DEF IInv, Shapes, RestShaped
<1>4. MsgRow(msg[j]) /\ ~(job[j] = "none" \/ j \in outbox)
  BY <1>1 DEF IInv, Shapes, MsgsShaped, Delivered
<1>5. CASE msg[j].n < Deliveries
  <2> DEFINE row == [IdleWorker EXCEPT !.pc = "serve", !.job = j]
             sent == [st |-> "leased", by |-> w, n |-> msg[j].n + 1]
  <2>1. WorkerRow(row) /\ row.job \in Jobs /\ row.pc = "serve"
    BY StartRows DEF IdleWorker, WorkerRow, AtItem
  <2>2. MsgRow(sent)
    BY <1>4, <1>5, JobAssumption, LimitAssumption DEF MsgRow
  <2>3. wk' = [wk EXCEPT ![w] = row] /\ msg' = [msg EXCEPT ![j] = sent]
    BY <1>1, <1>5
  <2> HIDE DEF row, sent
  <2>4. WorkersShaped'
    BY <2>1, <2>3, OneWorker DEF IInv, Shapes
  <2>5. Fits(w, row, item'[row.job], batch'[row.job], Calm(row.job, used', hand'))
    BY <2>1, AwayFits DEF AtItem
  <2>6. Crew'
    BY <1>2, <2>1, <2>3, <2>5, CrewMoves
  <2> QED BY <1>2, <1>3, <1>4, <2>2, <2>3, <2>4, <2>6, MsgStep
<1>6. CASE ~(msg[j].n < Deliveries)
  <2> DEFINE lost == [msg[j] EXCEPT !.st = "failed"]
  <2>1. msg' = [msg EXCEPT ![j] = lost] /\ UNCHANGED wk
    BY <1>1, <1>6
  <2>2. MsgRow(lost)
    BY <1>1, <1>4 DEF MsgRow
  <2> HIDE DEF lost
  <2>3. WorkersShaped' /\ Crew'
    BY <1>2, <2>1, CrewKept DEF IInv, Shapes, WorkersShaped
  <2> QED BY <1>2, <1>3, <1>4, <2>1, <2>2, <2>3, MsgStep
<1> QED BY <1>5, <1>6

LEMMA SettleKeeps ==
  ASSUME IInv, NEW w \in Workers, Settle(w)
  PROVE  IInv'
<1> DEFINE j == Mine(w)
           st == IF wk[w].act = "ack" THEN "done" ELSE "ready"
           left == [msg[j] EXCEPT !.st = st, !.by = NoWorker]
           row == Goto(w, "resume")
<1>1. /\ wk' = [wk EXCEPT ![w] = row]
      /\ UNCHANGED <<asset, job, batch, item, outbox, patch, step, hand, used>>
      /\ HoldsMsg(w) => msg' = [msg EXCEPT ![j] = left]
      /\ ~HoldsMsg(w) => msg' = msg
  BY DEF Settle
<1>2. WorkerRow(row) /\ row.job \in Jobs /\ row.pc = "resume" /\ j \in Jobs
  BY GotoRow DEF AtItem, IInv, Shapes, WorkersShaped, WorkerRow, Mine
<1>3. RestShaped'
  BY <1>1 DEF IInv, Shapes, RestShaped
<1>4. Fits(w, row, item[row.job], batch[row.job], Calm(row.job, used, hand))
  BY <1>2, AwayFits DEF AtItem
<1>5. MsgRow(msg[j])
  BY <1>2 DEF IInv, Shapes, MsgsShaped
<1>6. MsgRow(left)
  BY <1>5 DEF MsgRow
<1>7. HoldsMsg(w) => ~(job[j] = "none" \/ j \in outbox)
  BY <1>2 DEF HoldsMsg, IInv, Delivered
<1> HIDE DEF row, left, j, st
<1>8. Crew' /\ WorkersShaped'
  BY <1>1, <1>2, <1>4, CrewMoves, OneWorker DEF IInv, Shapes
<1>9. CASE HoldsMsg(w)
  BY <1>1, <1>2, <1>3, <1>6, <1>7, <1>8, <1>9, MsgStep
<1>10. CASE ~HoldsMsg(w)
  BY <1>1, <1>2, <1>4, <1>10, LocalRow DEF LocalStep
<1> QED BY <1>9, <1>10

LEMMA MsgLeaseLapsesKeeps ==
  ASSUME IInv, NEW j \in Jobs, MsgLeaseLapses(j)
  PROVE  IInv'
<1> DEFINE back == [msg[j] EXCEPT !.st = "ready", !.by = NoWorker]
<1>1. /\ msg' = [msg EXCEPT ![j] = back] /\ msg[j].st = "leased"
      /\ UNCHANGED <<asset, job, batch, item, outbox, patch, step, wk, hand>>
  BY DEF MsgLeaseLapses
<1>2. /\ used' \in [Events -> Nat]
      /\ used'.lapse = 0 => used.lapse = 0
  BY SpendGrows DEF MsgLeaseLapses, Lapse, Events, IInv, Shapes, RestShaped
<1>3. MsgRow(msg[j]) /\ ~(job[j] = "none" \/ j \in outbox)
  BY <1>1 DEF IInv, Shapes, MsgsShaped, Delivered
<1>4. MsgRow(back)
  BY <1>3 DEF MsgRow
<1> HIDE DEF back
<1>5. RestShaped' /\ WorkersShaped' /\ Crew'
  BY <1>1, <1>2, CrewKept DEF IInv, Shapes, RestShaped, WorkersShaped
<1> QED BY <1>1, <1>2, <1>3, <1>4, <1>5, MsgStep

LEMMA EnqueueKeeps ==
  ASSUME IInv, EnqueueAnalysis
  PROVE  IInv'
<1>1. PICK j \in outbox :
        /\ outbox' = outbox \ {j}
        /\ \/ msg' = [msg EXCEPT ![j].st = "ready"] /\ UNCHANGED hand
                 /\ UNCHANGED used
           \/ Spend("crash") /\ hand' = hand \union {j} /\ UNCHANGED msg
  BY DEF EnqueueAnalysis
<1>2. UNCHANGED <<asset, job, batch, item, patch, step, wk>>
  BY DEF EnqueueAnalysis
<1>3. j \in Jobs /\ msg[j].st = "none" /\ MsgRow(msg[j])
  BY DEF IInv, Shapes, RestShaped, MsgsShaped, Delivered
<1>4. RestShaped' /\ WorkersShaped' /\ hand \subseteq hand'
  BY <1>1, <1>2, <1>3, SpendGrows DEF IInv, Shapes, RestShaped, WorkersShaped, Events
<1>5. used'.lapse = 0 => used.lapse = 0
  BY <1>1, SpendGrows DEF Events
<1>6. Crew'
  BY <1>2, <1>4, <1>5, CrewKept
<1>7. CASE UNCHANGED msg
  BY <1>1, <1>2, <1>3, <1>4, <1>5, <1>6, <1>7, SameMsg
<1>8. CASE msg' = [msg EXCEPT ![j].st = "ready"]
  <2> DEFINE row == [msg[j] EXCEPT !.st = "ready"]
  <2>1. MsgRow(row) /\ msg' = [msg EXCEPT ![j] = row]
    BY <1>3, <1>8 DEF MsgRow
  <2>2. ~(job[j] = "none" \/ j \in outbox')
    BY <1>1, <1>3 DEF IInv, Delivered
  <2> HIDE DEF row
  <2> QED BY <1>1, <1>2, <1>3, <1>4, <1>5, <1>6, <2>1, <2>2, MsgStep
<1> QED BY <1>1, <1>7, <1>8

-----------------------------------------------------------------------------
(* Steps of the batches, the media step and the assets.                    *)

\* The batches change, and none disappears.
LEMMA BatchStep ==
  ASSUME IInv, BatchesShaped', WorkersShaped', Crew',
         UNCHANGED <<asset, job, item, msg, outbox, patch, step, hand, used>>,
         \A j \in Jobs : (batch'[j].st = "none") = (batch[j].st = "none")
  PROVE  IInv'
<1>1. Shapes'
  BY DEF IInv, Shapes, AssetsShaped, JobsShaped, ItemsShaped, MsgsShaped, RestShaped
<1>2. Together' /\ Delivered'
  BY DEF IInv, Together, Delivered
<1>3. ReadyWasScanned' /\ VerdictsAgree'
  BY DEF IInv, ReadyWasScanned, VerdictsAgree
<1> QED BY <1>1, <1>2, <1>3 DEF IInv

LEMMA ResumeMarkKeeps ==
  ASSUME IInv, NEW w \in Workers, ResumeMark(w)
  PROVE  IInv'
<1>1. /\ batch' = [j \in Jobs |-> IF j \in wk[w].group THEN [batch[j] EXCEPT !.sent = TRUE]
                                  ELSE batch[j]]
      /\ wk' = [wk EXCEPT ![w] = IdleWorker]
      /\ UNCHANGED <<asset, job, item, msg, outbox, patch, step, hand, used>>
  BY DEF ResumeMark
<1>2. \A j \in Jobs : batch'[j].st = batch[j].st /\ BatchRow(batch'[j])
  BY <1>1 DEF IInv, Shapes, BatchesShaped, BatchRow
<1>3. BatchesShaped'
  BY <1>1, <1>2 DEF BatchesShaped, Function
<1>4. WorkerRow(IdleWorker) /\ IdleWorker.pc = "idle" /\ IdleWorker.job \in Jobs
  BY StartRows DEF IdleWorker
<1>5. Fits(w, IdleWorker, item'[IdleWorker.job], batch'[IdleWorker.job],
           Calm(IdleWorker.job, used', hand'))
  BY <1>4, AwayFits DEF AtItem
<1>6. WorkersShaped' /\ Crew'
  BY <1>1, <1>2, <1>4, <1>5, OneWorker, CrewMoves DEF IInv, Shapes
<1> QED BY <1>1, <1>2, <1>3, <1>6, BatchStep

LEMMA RefreshKeeps ==
  ASSUME IInv, NEW w \in Workers, Refresh(w)
  PROVE  IInv'
<1> DEFINE j == Mine(w)
           after(act) == [Goto(w, "settle") EXCEPT !.act = act]
           row == IF wk[w].tool THEN IdleWorker
                  ELSE after(IF Pending(j) THEN "release" ELSE "ack")
           seen == [batch[j] EXCEPT !.st = BatchStatus(item[j].st)]
<1>1. /\ batch' = [batch EXCEPT ![j] = seen]
      /\ wk' = [wk EXCEPT ![w] = row]
      /\ UNCHANGED <<asset, job, item, msg, outbox, patch, step, hand, used>>
  BY DEF Refresh
<1>2. j \in Jobs /\ batch[j].st # "none"
  BY DEF Refresh, At, IInv, Crew, Fits, Shapes, WorkersShaped, WorkerRow, Mine
<1>3. BatchRow(batch[j])
  BY <1>2 DEF IInv, Shapes, BatchesShaped
<1>4. BatchStatus(item[j].st) \in BatchStates \ {"none"}
  BY DEF BatchStatus, BatchStates, Stopped, Settled
<1>5. BatchRow(seen) /\ seen.st # "none"
  BY <1>3, <1>4 DEF BatchRow
<1>6. ASSUME NEW act \in {"ack", "release"}
      PROVE  WorkerRow(after(act)) /\ after(act).pc = "settle"
  BY GotoRow DEF WorkerRow, AtItem
<1>7. WorkerRow(IdleWorker) /\ IdleWorker.pc = "idle"
  BY StartRows DEF IdleWorker
<1>8. WorkerRow(row) /\ row.pc \notin AtItem \union {"claim", "refresh"} /\ row.job \in Jobs
  BY <1>6, <1>7 DEF AtItem, WorkerRow
<1> HIDE DEF row, seen, j
<1>9. /\ BatchesShaped'
      /\ \A k \in Jobs : batch'[k] = IF k = j THEN seen ELSE batch[k]
  BY <1>1, <1>2, <1>5, OneBatch DEF IInv, Shapes
<1>10. Fits(w, row, item'[row.job], batch'[row.job], Calm(row.job, used', hand'))
  BY <1>8, AwayFits
<1>11. WorkersShaped' /\ Crew'
  BY <1>1, <1>5, <1>8, <1>9, <1>10, OneWorker, CrewMoves DEF IInv, Shapes
<1> QED BY <1>1, <1>2, <1>5, <1>9, <1>11, BatchStep

\* The media step moves.
LEMMA StepStep ==
  ASSUME IInv, UNCHANGED <<asset, job, batch, item, msg, outbox, patch, hand, used>>,
         RestShaped', WorkersShaped', Crew'
  PROVE  IInv'
<1>1. Shapes'
  BY DEF IInv, Shapes, AssetsShaped, JobsShaped, BatchesShaped, ItemsShaped, MsgsShaped
<1>2. Together' /\ Delivered'
  BY DEF IInv, Together, Delivered
<1>3. ReadyWasScanned' /\ VerdictsAgree'
  BY DEF IInv, ReadyWasScanned, VerdictsAgree
<1> QED BY <1>1, <1>2, <1>3 DEF IInv

LEMMA ResumeReviewKeeps ==
  ASSUME IInv, NEW w \in Workers, ResumeReview(w)
  PROVE  IInv'
<1> DEFINE marks == [wk[w] EXCEPT !.pc = "mark"]
<1>1. /\ \/ wk' = [wk EXCEPT ![w] = marks] /\ step' = [step EXCEPT !.st = "retrying"]
         \/ wk' = [wk EXCEPT ![w] = IdleWorker] /\ UNCHANGED step
      /\ UNCHANGED <<asset, job, batch, item, msg, outbox, patch, hand, used>>
  BY DEF ResumeReview
<1>2. RestShaped'
  BY <1>1 DEF IInv, Shapes, RestShaped
<1>3. WorkerRow(marks) /\ marks.pc = "mark" /\ marks.job \in Jobs
  BY DEF IInv, Shapes, WorkersShaped, WorkerRow
<1>4. WorkerRow(IdleWorker) /\ IdleWorker.pc = "idle" /\ IdleWorker.job \in Jobs
  BY StartRows DEF IdleWorker
<1> HIDE DEF marks
<1>5. ASSUME NEW row, WorkerRow(row), row.pc \in {"idle", "mark"}, row.job \in Jobs,
             wk' = [wk EXCEPT ![w] = row]
      PROVE  WorkersShaped' /\ Crew'
  <2>1. Fits(w, row, item'[row.job], batch'[row.job], Calm(row.job, used', hand'))
    BY <1>5, AwayFits DEF AtItem
  <2> QED BY <1>1, <1>5, <2>1, OneWorker, CrewMoves DEF IInv, Shapes
<1>6. WorkersShaped' /\ Crew'
  BY <1>1, <1>3, <1>4, <1>5
<1> QED BY <1>1, <1>2, <1>6, StepStep

LEMMA MediaStepKeeps ==
  ASSUME IInv, StepStarts \/ StepEnds
  PROVE  IInv'
<1>1. UNCHANGED <<asset, job, batch, item, msg, outbox, patch, wk, hand, used>>
  BY DEF StepStarts, StepEnds
<1>2. step' \in [st : {"running", "awaiting_review", "retrying", "succeeded"},
                 saw : SUBSET Parked]
  BY DEF StepStarts, StepEnds, IInv, Shapes, RestShaped
<1>3. RestShaped' /\ WorkersShaped' /\ Crew'
  BY <1>1, <1>2, CrewKept DEF IInv, Shapes, RestShaped, WorkersShaped
<1> QED BY <1>1, <1>3, StepStep

\* A client's write of one asset.
LEMMA AssetStep ==
  ASSUME IInv, NEW a \in Assets, NEW row, AssetRow(row), asset' = [asset EXCEPT ![a] = row],
         row.st = "ready" => row.scan = "clean",
         UNCHANGED <<job, batch, item, msg, outbox, step, wk>>,
         RestShaped', hand \subseteq hand',
         used'.lapse = 0 => used.lapse = 0
  PROVE  IInv'
<1>1. /\ AssetsShaped'
      /\ \A b \in Assets : asset'[b] = IF b = a THEN row ELSE asset[b]
  BY OneAsset DEF IInv, Shapes
<1>2. Shapes'
  BY <1>1 DEF IInv, Shapes, JobsShaped, BatchesShaped, ItemsShaped, MsgsShaped, WorkersShaped
<1>3. Together' /\ Delivered'
  BY DEF IInv, Together, Delivered
<1>4. Crew'
  BY CrewKept
<1>5. ReadyWasScanned' /\ VerdictsAgree'
  BY <1>1 DEF IInv, ReadyWasScanned, VerdictsAgree
<1> QED BY <1>2, <1>3, <1>4, <1>5 DEF IInv

LEMMA TransitionAssetKeeps ==
  ASSUME IInv, NEW a \in Assets, TransitionAsset(a)
  PROVE  IInv'
<1>1. PICK target \in AllowedTransitions[asset[a].st] :
        /\ target = "ready" => ReadyAllowed(a)
        /\ asset' = [asset EXCEPT ![a] = [@ EXCEPT !.st = target,
                       !.prev = IF target = "deleted" THEN asset[a].st ELSE asset[a].prev]]
  BY DEF TransitionAsset
<1> DEFINE row == asset'[a]
<1>2. AssetRow(asset[a])
  BY DEF IInv, Shapes, AssetsShaped
<1>3. target \in DOMAIN AllowedTransitions
  BY <1>1, <1>2 DEF AllowedTransitions, AssetRow
<1>4. row.st = target /\ row.scan = asset[a].scan /\ AssetRow(row)
  <2>1. a \in DOMAIN asset
    BY DEF IInv, Shapes, AssetsShaped, Function
  <2>2. row = [asset[a] EXCEPT !.st = target,
                 !.prev = IF target = "deleted" THEN asset[a].st ELSE asset[a].prev]
    BY <1>1, <2>1
  <2> QED BY <1>2, <1>3, <2>2 DEF AssetRow
<1>8. row.st = "ready" => row.scan = "clean"
  BY <1>1, <1>4 DEF ReadyAllowed
<1>9. asset' = [asset EXCEPT ![a] = row]
  BY <1>1 DEF IInv, Shapes, AssetsShaped, Function
<1> HIDE DEF row
<1>5. /\ UNCHANGED <<job, batch, item, msg, outbox, step, wk>>
      /\ hand \subseteq hand' /\ hand' \subseteq Jobs /\ Spend("call")
      /\ patch' = [patch EXCEPT !.fresh = @ /\ patch.of # a]
  BY DEF TransitionAsset, Call, Touched, IInv, Shapes, RestShaped, Unpatched
<1>6. RestShaped'
  BY <1>5, SpendGrows DEF IInv, Shapes, RestShaped, Events
<1>7. used'.lapse = 0 => used.lapse = 0
  BY <1>5, SpendGrows DEF Events
<1> QED BY <1>4, <1>5, <1>6, <1>7, <1>8, <1>9, AssetStep

LEMMA MetadataKeeps ==
  ASSUME IInv, WriteMetadata \/ \E a \in Assets : ReadMetadata(a)
  PROVE  IInv'
<1>1. CASE WriteMetadata
  <2> DEFINE row == IF patch.fresh
                    THEN [asset[patch.of] EXCEPT !.rights = patch.rights,
                                                 !.preview = patch.preview]
                    ELSE asset[patch.of]
  <2>1. patch.of \in Assets /\ AssetRow(asset[patch.of])
    BY DEF IInv, Shapes, RestShaped, AssetsShaped
  <2>2. AssetRow(row) /\ row.st = asset[patch.of].st /\ row.scan = asset[patch.of].scan
    BY <2>1 DEF AssetRow, IInv, Shapes, RestShaped
  <2>3. asset' = [asset EXCEPT ![patch.of] = row]
    BY <1>1, <2>1 DEF WriteMetadata, IInv, Shapes, AssetsShaped, Function
  <2>4. row.st = "ready" => row.scan = "clean"
    BY <2>1, <2>2 DEF IInv, ReadyWasScanned
  <2> HIDE DEF row
  <2>5. UNCHANGED <<job, batch, item, msg, outbox, step, wk, hand, used>> /\ patch' = NoPatch
    BY <1>1 DEF WriteMetadata
  <2>6. RestShaped'
    BY <2>1, <2>5 DEF IInv, Shapes, RestShaped, NoPatch
  <2> QED BY <2>1, <2>2, <2>3, <2>4, <2>5, <2>6, AssetStep
<1>2. ASSUME NEW a \in Assets, ReadMetadata(a)
      PROVE  IInv'
  <2> DEFINE row == asset[a]
  <2>1. AssetRow(row) /\ asset' = [asset EXCEPT ![a] = row]
    BY <1>2 DEF ReadMetadata, IInv, Shapes, AssetsShaped, Function
  <2>2. row.st = "ready" => row.scan = "clean"
    BY DEF IInv, ReadyWasScanned
  <2>3. /\ UNCHANGED <<job, batch, item, msg, outbox, step, wk, hand>> /\ Spend("call")
        /\ patch' \in [open : BOOLEAN, of : Assets, rights : BOOLEAN, preview : BOOLEAN,
                       fresh : BOOLEAN]
    BY <1>2, <2>1 DEF ReadMetadata, Call, AssetRow
  <2>4. RestShaped'
    BY <2>3, SpendGrows DEF IInv, Shapes, RestShaped, Events
  <2>5. used'.lapse = 0 => used.lapse = 0
    BY <2>3, SpendGrows DEF Events
  <2> HIDE DEF row
  <2> QED BY <2>1, <2>2, <2>3, <2>4, <2>5, AssetStep
<1> QED BY <1>1, <1>2

-----------------------------------------------------------------------------
(* Steps that write an item.                                               *)

\* Item and job agree, as the API shows them.
Agree(i, st) ==
  /\ (i.st = "failed") = (st = "failed")
  /\ i.st \in {"ready", "awaiting_review"} => st = "succeeded"

LEMMA AgreeGives ==
  ASSUME used'.lapse = 0 => \A j \in Jobs \ hand' : Agree(item'[j], job'[j])
  PROVE  VerdictsAgree'
BY DEF VerdictsAgree, Agree
LEMMA AgreeHeld ==
  ASSUME IInv, used.lapse = 0, NEW j \in Jobs \ hand
  PROVE  Agree(item[j], job[j])
BY DEF IInv, VerdictsAgree, Agree

\* The write of one item, and of nothing else but the bounds.
LEMMA ItemStep ==
  ASSUME IInv, NEW j \in Jobs, NEW row, ItemRow(row), item' = [item EXCEPT ![j] = row],
         UNCHANGED <<asset, job, batch, msg, outbox, patch, step>>,
         (row.st = "none") = (item[j].st = "none"),
         RestShaped', WorkersShaped', Crew', hand \subseteq hand',
         used'.lapse = 0 => used.lapse = 0,
         j \in hand' \/ (used.lapse = 0 /\ j \notin hand => Agree(row, job[j]))
  PROVE  IInv'
<1>1. /\ ItemsShaped'
      /\ \A k \in Jobs : item'[k] = IF k = j THEN row ELSE item[k]
  BY OneItem DEF IInv, Shapes
<1>2. Shapes'
  BY <1>1 DEF IInv, Shapes, JobsShaped, BatchesShaped, AssetsShaped, MsgsShaped
<1>3. Together' /\ Delivered'
  BY <1>1 DEF IInv, Together, Delivered
<1>4. ReadyWasScanned'
  BY DEF IInv, ReadyWasScanned
<1>5. VerdictsAgree'
  BY <1>1, AgreeGives, AgreeHeld
<1> QED BY <1>2, <1>3, <1>4, <1>5 DEF IInv

LEMMA ItemBecomesDueKeeps ==
  ASSUME IInv, NEW j \in Jobs, ItemBecomesDue(j)
  PROVE  IInv'
<1> DEFINE row == [item[j] EXCEPT !.due = TRUE]
<1>1. /\ item' = [item EXCEPT ![j] = row] /\ item[j].st = "retry_wait"
      /\ UNCHANGED <<asset, job, batch, msg, outbox, patch, step, wk, hand, used>>
  BY DEF ItemBecomesDue
<1>2. ItemRow(row) /\ row.st = item[j].st
  BY DEF IInv, Shapes, ItemsShaped, ItemRow
<1>3. used.lapse = 0 /\ j \notin hand => Agree(row, job[j])
  BY <1>2, AgreeHeld DEF Agree
<1> HIDE DEF row
<1>4. \A k \in Jobs : item[k].st = "running" => item'[k] = item[k]
  BY <1>1 DEF IInv, Shapes, ItemsShaped, Function
<1>5. RestShaped' /\ WorkersShaped' /\ Crew'
  BY <1>1, <1>4, CrewKept DEF IInv, Shapes, RestShaped, WorkersShaped
<1> QED BY <1>1, <1>2, <1>3, <1>5, ItemStep

LEMMA RenewItemKeeps ==
  ASSUME IInv, NEW w \in Workers, RenewItem(w)
  PROVE  IInv'
<1> DEFINE j == Mine(w)
           row == [item[j] EXCEPT !.exp = FALSE]
<1>1. /\ item' = [item EXCEPT ![j] = row] /\ item[j].st = "running"
      /\ UNCHANGED <<asset, job, batch, msg, outbox, patch, step, wk, hand, used>>
  BY DEF RenewItem
<1>2. j \in Jobs
  BY DEF IInv, Shapes, WorkersShaped, WorkerRow, Mine
<1>3. /\ ItemRow(row) /\ row.st = item[j].st /\ row.owner = item[j].owner
      /\ row.done = item[j].done /\ ~row.exp
  BY <1>2 DEF IInv, Shapes, ItemsShaped, ItemRow
<1>4. used.lapse = 0 /\ j \notin hand => Agree(row, job[j])
  BY <1>2, <1>3, AgreeHeld DEF Agree
<1> HIDE DEF row, j
<1>5. \A k \in Jobs : item'[k] = IF k = j THEN row ELSE item[k]
  BY <1>1, <1>2 DEF IInv, Shapes, ItemsShaped, Function
<1>6. Crew'
  <2> SUFFICES ASSUME NEW v \in Workers
               PROVE  Fits(v, wk[v], item'[wk[v].job], batch[wk[v].job],
                           Calm(wk[v].job, used, hand))
    BY <1>1 DEF Crew, Mine
  <2>1. wk[v].job \in Jobs
    BY DEF IInv, Shapes, WorkersShaped, WorkerRow
  <2>2. Fits(v, wk[v], item[wk[v].job], batch[wk[v].job], Calm(wk[v].job, used, hand))
    BY DEF IInv, Crew, Mine
  <2>3. Calm(wk[v].job, used, hand) \in BOOLEAN
    BY DEF Calm
  <2> QED BY <1>3, <1>5, <2>1, <2>2, <2>3, StillFits
<1>7. RestShaped' /\ WorkersShaped'
  BY <1>1 DEF IInv, Shapes, RestShaped, WorkersShaped
<1> QED BY <1>1, <1>2, <1>3, <1>4, <1>6, <1>7, ItemStep

\* While leases hold, none lapses under a worker at the item.
LEMMA ItemLeaseLapsesKeeps ==
  ASSUME IInv, NEW j \in Jobs, ItemLeaseLapses(j)
  PROVE  IInv'
<1> DEFINE row == [item[j] EXCEPT !.exp = TRUE]
           live == item[j].owner \in Workers /\ Works(item[j].owner, j)
<1>1. /\ item' = [item EXCEPT ![j] = row] /\ item[j].st = "running"
      /\ Lapse(live)
      /\ UNCHANGED <<asset, job, batch, msg, outbox, patch, step, wk, hand>>
  BY DEF ItemLeaseLapses
<1>2. /\ ItemRow(row) /\ row.st = item[j].st /\ row.owner = item[j].owner
      /\ row.done = item[j].done
  BY DEF IInv, Shapes, ItemsShaped, ItemRow
<1>3. used.lapse = 0 /\ j \notin hand => Agree(row, job[j])
  BY <1>2, AgreeHeld DEF Agree
<1>4. /\ used' \in [Events -> Nat]
      /\ used'.lapse = 0 => used.lapse = 0 /\ ~live
  BY <1>1, SpendGrows DEF Lapse, Events, IInv, Shapes, RestShaped
<1> HIDE DEF row
<1>5. \A k \in Jobs : item'[k] = IF k = j THEN row ELSE item[k]
  BY <1>1 DEF IInv, Shapes, ItemsShaped, Function
<1>6. Crew'
  <2> SUFFICES ASSUME NEW v \in Workers
               PROVE  Fits(v, wk[v], item'[wk[v].job], batch[wk[v].job],
                           Calm(wk[v].job, used', hand))
    BY <1>1 DEF Crew, Mine
  <2>1. wk[v].job \in Jobs
    BY DEF IInv, Shapes, WorkersShaped, WorkerRow
  <2>2. Fits(v, wk[v], item[wk[v].job], batch[wk[v].job], Calm(wk[v].job, used, hand))
    BY DEF IInv, Crew, Mine
  <2>3. Calm(wk[v].job, used', hand) \in BOOLEAN
    BY DEF Calm
  <2>4. Calm(wk[v].job, used', hand) => Calm(wk[v].job, used, hand) /\ ~live
    BY <1>4 DEF Calm
  <2>5. wk[v].pc \in AtItem /\ wk[v].job = j /\ item[j].owner = v => live
    BY DEF Works, AtItem
  <2> QED BY <1>2, <1>5, <2>1, <2>2, <2>3, <2>4, <2>5, StillFits
<1>7. RestShaped' /\ WorkersShaped'
  BY <1>1, <1>4 DEF IInv, Shapes, RestShaped, WorkersShaped
<1> QED BY <1>1, <1>2, <1>3, <1>4, <1>6, <1>7, ItemStep

LEMMA CheckpointKeeps ==
  ASSUME IInv, NEW w \in Workers, Checkpoint(w)
  PROVE  IInv'
<1> DEFINE j == Mine(w)
           done == wk[w].done + 1
           row == [item[j] EXCEPT !.done = done, !.exp = FALSE]
           mine == [Goto(w, IF done = Stages THEN "publish" ELSE "stage") EXCEPT !.done = done]
<1>0. j \in Jobs /\ wk[w].pc = "work"
  BY DEF IInv, Shapes, WorkersShaped, WorkerRow, Mine, Checkpoint, At
<1>1. CASE ~wk[w].fresh
  <2>1. LocalStep(w, Failing(w, TRUE))
    BY <1>1 DEF Checkpoint
  <2> QED BY <1>0, <2>1, FailingRow, LocalRow DEF AtItem
<1>2. CASE wk[w].fresh
  <2>1. /\ item' = [item EXCEPT ![j] = row] /\ wk' = [wk EXCEPT ![w] = mine]
        /\ UNCHANGED <<asset, job, batch, msg, outbox, patch, step, hand, used>>
    BY <1>0, <1>2 DEF Checkpoint, IInv, Shapes, ItemsShaped, Function
  <2>2. Fits(w, wk[w], item[j], batch[j], Calm(j, used, hand))
    BY DEF IInv, Crew
  <2>3. done \in 0..Stages
    BY <1>0, <2>2 DEF Fits, Stages, IInv, Shapes, WorkersShaped, WorkerRow
  <2>4. item[j].st = "running" /\ item[j].owner = w
    BY <1>0, <1>2, <2>2 DEF Fits, AtItem
  <2>5. /\ ItemRow(row) /\ row.st = "running" /\ row.owner = w /\ row.done = done /\ ~row.exp
    BY <1>0, <2>3, <2>4 DEF IInv, Shapes, ItemsShaped, ItemRow
  <2>6. /\ WorkerRow(mine) /\ mine.job = j /\ mine.done = done /\ mine.fresh = wk[w].fresh
        /\ mine.pc = IF done = Stages THEN "publish" ELSE "stage"
    <3> DEFINE pc == IF done = Stages THEN "publish" ELSE "stage"
               base == Goto(w, pc)
    <3>1. pc \in AtItem
      BY DEF AtItem
    <3>2. WorkerRow(base) /\ base.job = j /\ base.pc = pc /\ base.fresh = wk[w].fresh
      BY <3>1, GotoRow
    <3> HIDE DEF pc, base, done
    <3>3. LET new == [base EXCEPT !.done = done] IN
          WorkerRow(new) /\ new.job = j /\ new.done = done /\ new.fresh = wk[w].fresh
            /\ new.pc = pc
      BY <2>3, <3>2 DEF WorkerRow
    <3> QED BY <3>3 DEF pc, base
  <2>7. used.lapse = 0 /\ j \notin hand => Agree(row, job[j])
    BY <1>0, <2>4, <2>5, AgreeHeld DEF Agree
  <2>8. batch[j].st # "none"
    BY <1>0, <2>2 DEF Fits, AtItem
  <2> HIDE DEF row, mine, j, done
  <2>9. \A k \in Jobs : item'[k] = IF k = j THEN row ELSE item[k]
    BY <1>0, <2>1 DEF IInv, Shapes, ItemsShaped, Function
  <2>10. Fits(w, mine, item'[mine.job], batch'[mine.job], Calm(mine.job, used', hand'))
    BY <1>0, <1>2, <2>1, <2>3, <2>5, <2>6, <2>8, <2>9 DEF Fits, AtItem, Stages
  <2>11. Crew'
    <3>1. \A k \in Jobs :
            /\ batch[k].st # "none" => batch'[k].st # "none"
            /\ item[k].st = "running" /\ item[k].owner # w => item'[k] = item[k]
      BY <2>1, <2>4, <2>9
    <3>2. hand \subseteq hand' /\ (used'.lapse = 0 => used.lapse = 0) /\ mine.job \in Jobs
      BY <1>0, <2>1, <2>6
    <3> QED BY <2>1, <2>10, <3>1, <3>2, CrewMoves
  <2>12. RestShaped' /\ WorkersShaped'
    BY <2>1, <2>6, OneWorker DEF IInv, Shapes, RestShaped
  <2> QED BY <1>0, <2>1, <2>4, <2>5, <2>7, <2>11, <2>12, ItemStep
<1> QED BY <1>1, <1>2

-----------------------------------------------------------------------------
(* Steps that write several tables.                                        *)

LEMMA TablesStep ==
  ASSUME IInv, UNCHANGED <<msg, outbox>>,
         AssetsShaped', JobsShaped', BatchesShaped', ItemsShaped', WorkersShaped', RestShaped',
         Crew', hand \subseteq hand',
         used'.lapse = 0 => used.lapse = 0,
         \A j \in Jobs : /\ (batch'[j].st = "none") = (item'[j].st = "none")
                         /\ job[j] # "none" => job'[j] # "none",
         \A a \in Assets : asset'[a].st = "ready" => asset'[a].scan = "clean",
         used.lapse = 0 => \A j \in Jobs \ hand' : Agree(item'[j], job'[j])
  PROVE  IInv'
<1>1. Shapes'
  BY DEF IInv, Shapes, MsgsShaped
<1>2. Together' /\ Delivered'
  BY DEF IInv, Together, Delivered
<1>3. ReadyWasScanned'
  BY DEF ReadyWasScanned
<1>4. VerdictsAgree'
  BY AgreeGives
<1> QED BY <1>1, <1>2, <1>3, <1>4 DEF IInv

\* The rows of workers whose item somebody else wrote.
Late(r, S) == [r EXCEPT !.fresh = @ /\ r.job \notin S]

LEMMA LateRow ==
  ASSUME NEW r, WorkerRow(r), NEW S
  PROVE  /\ WorkerRow(Late(r, S)) /\ Late(r, S).pc = r.pc /\ Late(r, S).job = r.job
         /\ Late(r, S).done = r.done
         /\ Late(r, S).fresh = (r.fresh /\ r.job \notin S)
BY DEF WorkerRow, Late

LEMMA OutdatedRows ==
  ASSUME IInv, NEW S
  PROVE  /\ Function(Outdated(S), Workers)
         /\ \A v \in Workers : Outdated(S)[v] = Late(wk[v], S)
BY DEF Outdated, Late, Function

\* Whoever loses its item by the write is known to have lost it; while leases
\* hold, nobody does.
LEMMA CrewOutdated ==
  ASSUME IInv, NEW S, hand \subseteq hand',
         used'.lapse = 0 => used.lapse = 0,
         \A v \in Workers :
           \/ wk'[v] = Late(wk[v], S)
           \/ Fits(v, wk'[v], item'[wk'[v].job], batch'[wk'[v].job],
                   Calm(wk'[v].job, used', hand')),
         \A j \in Jobs : batch[j].st # "none" => batch'[j].st # "none",
         \A j \in Jobs \ S : item[j].st = "running" => item'[j] = item[j],
         \A v \in Workers : wk[v].pc \in AtItem /\ wk[v].job \in S =>
                              ~Calm(wk[v].job, used', hand')
  PROVE  Crew'
<1> SUFFICES ASSUME NEW v \in Workers
             PROVE  Fits(v, wk'[v], item'[wk'[v].job], batch'[wk'[v].job],
                         Calm(wk'[v].job, used', hand'))
  BY DEF Crew, Mine
<1>1. WorkerRow(wk[v]) /\ wk[v].job \in Jobs
  BY DEF IInv, Shapes, WorkersShaped, WorkerRow
<1>2. Fits(v, wk[v], item[wk[v].job], batch[wk[v].job], Calm(wk[v].job, used, hand))
  BY DEF IInv, Crew, Mine
<1>3. Calm(wk[v].job, used', hand') => Calm(wk[v].job, used, hand)
  BY DEF Calm
<1>4. Calm(wk[v].job, used', hand') \in BOOLEAN
  BY DEF Calm
<1>5. CASE wk'[v] = Late(wk[v], S)
  <2>1. /\ wk'[v].pc = wk[v].pc /\ wk'[v].job = wk[v].job /\ wk'[v].done = wk[v].done
        /\ wk'[v].fresh = (wk[v].fresh /\ wk[v].job \notin S)
    BY <1>1, <1>5, LateRow
  <2>2. CASE wk[v].job \in S
    <3>1. ~wk'[v].fresh
      BY <2>1, <2>2
    <3>2. wk[v].pc \in AtItem => ~Calm(wk[v].job, used', hand')
      BY <2>2
    <3>3. wk[v].pc \in AtItem \union {"claim", "refresh"} => batch'[wk[v].job].st # "none"
      BY <1>1, <1>2 DEF Fits
    <3> QED BY <1>2, <2>1, <3>1, <3>2, <3>3 DEF Fits
  <2>3. CASE wk[v].job \notin S
    <3>1. Fits(v, wk[v], item'[wk[v].job], batch'[wk[v].job], Calm(wk[v].job, used', hand'))
      BY <1>1, <1>2, <1>3, <1>4, <2>3, StillFits
    <3> QED BY <2>1, <2>3, <3>1 DEF Fits
  <2> QED BY <2>2, <2>3
<1> QED BY <1>5

LEMMA ClaimKeeps ==
  ASSUME IInv, NEW w \in Workers, Claim(w)
  PROVE  IInv'
<1> DEFINE j == Mine(w)
           row == [item[j] EXCEPT !.st = "running", !.att = item[j].att + 1,
                                  !.owner = w, !.exp = FALSE]
           seen == [batch[j] EXCEPT !.st = IF @ = "pending" THEN "running" ELSE @]
           mine == [Goto(w, IF item[j].done = Stages THEN "publish" ELSE "stage") EXCEPT
                      !.fresh = TRUE, !.att = item[j].att + 1,
                      !.done = item[j].done, !.rights = Asset(w).rights]
<1>1. /\ j \in Jobs /\ wk[w].pc = "claim" /\ WorkerRow(wk[w])
      /\ ItemRow(item[j]) /\ BatchRow(batch[j]) /\ batch[j].st # "none"
  BY DEF IInv, Shapes, WorkersShaped, WorkerRow, Mine, Claim, At, ItemsShaped, BatchesShaped,
         Crew, Fits
<1>2. CASE ~Claimable(j)
  <2>1. LocalStep(w, Goto(w, "refresh"))
    BY <1>2 DEF Claim
  <2>2. /\ WorkerRow(Goto(w, "refresh")) /\ Goto(w, "refresh").job = j
        /\ Goto(w, "refresh").pc = "refresh"
    BY GotoRow DEF AtItem
  <2>3. Fits(w, Goto(w, "refresh"), item[Goto(w, "refresh").job],
             batch[Goto(w, "refresh").job], Calm(Goto(w, "refresh").job, used, hand))
    BY <1>1, <2>2 DEF Fits, AtItem
  <2> QED BY <2>1, <2>2, <2>3, LocalRow
<1>3. CASE Claimable(j)
  <2>1. /\ item' = [item EXCEPT ![j] = row] /\ batch' = [batch EXCEPT ![j] = seen]
        /\ wk' = [TakenOver(w) EXCEPT ![w] = mine]
        /\ UNCHANGED <<asset, job, msg, outbox, patch, step, hand, used>>
    BY <1>1, <1>3 DEF Claim, IInv, Shapes, ItemsShaped, BatchesShaped, Function
  <2>2. /\ ItemRow(row) /\ row.st = "running" /\ row.owner = w /\ row.done = item[j].done
        /\ ~row.exp
    <3>1. item[j].att \in Nat /\ item[j].att + 1 \in Nat
      BY <1>1 DEF ItemRow
    <3>2. row \in [st : ItemStates, att : Nat, done : 0..Stages,
                   owner : Workers \union {NoWorker}, exp : BOOLEAN, due : BOOLEAN]
      BY <1>1, <3>1 DEF ItemRow, ItemStates, Active
    <3>3. /\ row.st = "running" /\ row.owner = w /\ row.done = item[j].done
          /\ ~row.exp
      BY <1>1 DEF ItemRow
    <3> HIDE DEF row
    <3>4. w # NoWorker
      BY JobAssumption
    <3> QED BY <3>2, <3>3, <3>4 DEF ItemRow
  <2>3. BatchRow(seen) /\ seen.st # "none"
    BY <1>1 DEF BatchRow, BatchStates
  <2>4. item[j].st \in {"pending", "retry_wait"} \/ (item[j].st = "running" /\ item[j].exp)
    BY <1>3 DEF Claimable
  <2>5. Asset(w).rights \in BOOLEAN
    BY <1>1, JobAssumption DEF Asset, IInv, Shapes, AssetsShaped, AssetRow
  <2>6. /\ WorkerRow(mine) /\ mine.job = j /\ mine.fresh /\ mine.done = item[j].done
        /\ mine.pc = IF item[j].done = Stages THEN "publish" ELSE "stage"
    <3> DEFINE pc == IF item[j].done = Stages THEN "publish" ELSE "stage"
    <3>1. WorkerRow(Goto(w, pc)) /\ Goto(w, pc).pc = pc /\ Goto(w, pc).job = j
      BY GotoRow DEF AtItem
    <3>2. item[j].att + 1 \in Nat /\ item[j].done \in 0..Stages
      BY <1>1 DEF ItemRow
    <3> QED BY <2>5, <3>1, <3>2 DEF WorkerRow
  <2>7. item[j].done \in 0..Stages
    BY <1>1 DEF ItemRow
  <2> HIDE DEF row, seen, mine, j
  <2>8. /\ \A k \in Jobs : item'[k] = IF k = j THEN row ELSE item[k]
        /\ ItemsShaped'
    BY <1>1, <2>1, <2>2, OneItem DEF IInv, Shapes
  <2>9. /\ \A k \in Jobs : batch'[k] = IF k = j THEN seen ELSE batch[k]
        /\ BatchesShaped'
    BY <1>1, <2>1, <2>3, OneBatch DEF IInv, Shapes
  <2>10. /\ Function(wk', Workers)
         /\ \A v \in Workers : wk'[v] = IF v = w THEN mine ELSE Late(wk[v], {j})
    BY <2>1, OutdatedRows DEF TakenOver, Function, j
  <2>11. WorkersShaped'
    BY <2>6, <2>10, LateRow DEF IInv, Shapes, WorkersShaped
  <2>12. Fits(w, mine, item'[mine.job], batch'[mine.job], Calm(mine.job, used', hand'))
    BY <1>1, <2>2, <2>3, <2>6, <2>7, <2>8, <2>9 DEF Fits, AtItem, Stages
  <2>13. ASSUME NEW v \in Workers, wk[v].pc \in AtItem, wk[v].job = j
         PROVE  ~Calm(wk[v].job, used', hand')
    BY <2>1, <2>4, <2>13 DEF IInv, Crew, Fits, Mine
  <2>14. Crew'
    <3>1. \A k \in Jobs : batch[k].st # "none" => batch'[k].st # "none"
      BY <2>3, <2>9
    <3>2. \A k \in Jobs \ {j} : item[k].st = "running" => item'[k] = item[k]
      BY <2>8
    <3>3. \A v \in Workers :
            \/ wk'[v] = Late(wk[v], {j})
            \/ Fits(v, wk'[v], item'[wk'[v].job], batch'[wk'[v].job],
                    Calm(wk'[v].job, used', hand'))
      BY <2>10, <2>12
    <3>4. \A v \in Workers : wk[v].pc \in AtItem /\ wk[v].job \in {j} =>
                               ~Calm(wk[v].job, used', hand')
      BY <2>13
    <3>5. hand \subseteq hand' /\ (used'.lapse = 0 => used.lapse = 0)
      BY <2>1
    <3> QED BY <3>1, <3>2, <3>3, <3>4, <3>5, CrewOutdated
  <2>15. /\ AssetsShaped' /\ JobsShaped' /\ RestShaped'
    BY <2>1 DEF IInv, Shapes, AssetsShaped, JobsShaped, RestShaped
  <2>16. used.lapse = 0 => \A k \in Jobs \ hand' : Agree(item'[k], job'[k])
    BY <2>1, <2>2, <2>4, <2>8, AgreeHeld DEF Agree
  <2>17. \A k \in Jobs : (batch'[k].st = "none") = (item'[k].st = "none")
    BY <2>2, <2>3, <2>8, <2>9 DEF IInv, Together
  <2>18. \A a \in Assets : asset'[a].st = "ready" => asset'[a].scan = "clean"
    BY <2>1 DEF IInv, ReadyWasScanned
  <2> QED BY <2>1, <2>8, <2>9, <2>11, <2>14, <2>15, <2>16, <2>17, <2>18, TablesStep
<1> QED BY <1>2, <1>3

\* A holder that ends its item, and where it goes.
LEMMA NextRow ==
  ASSUME IInv, NEW w \in Workers, wk[w].pc \in AtItem
  PROVE  /\ WorkerRow(NextItem(w)) /\ NextItem(w).job = Mine(w)
         /\ NextItem(w).pc \in {"claim", "refresh"} /\ Mine(w) \in Jobs
         /\ batch[Mine(w)].st # "none"
<1>1. /\ WorkerRow(NextItem(w)) /\ NextItem(w).job = Mine(w)
      /\ NextItem(w).pc \in {"claim", "refresh"}
  BY GotoRow DEF NextItem, AtItem
<1>2. Mine(w) \in Jobs /\ batch[Mine(w)].st # "none"
  BY DEF IInv, Crew, Fits, Shapes, WorkersShaped, WorkerRow, Mine
<1> QED BY <1>1, <1>2

LEMMA RaisedRow ==
  ASSUME IInv, NEW w \in Workers
  PROVE  /\ WorkerRow(Raised(w)) /\ Raised(w).job \in Jobs
         /\ Raised(w).pc \notin AtItem \union {"claim", "refresh"}
<1>1. WorkerRow(IdleWorker) /\ IdleWorker.pc = "idle"
  BY StartRows DEF IdleWorker
<1> DEFINE after == [Goto(w, "settle") EXCEPT !.act = "release"]
<1>2. WorkerRow(after) /\ after.pc = "settle"
  BY GotoRow DEF WorkerRow, AtItem
<1>3. Raised(w) = IdleWorker \/ Raised(w) = after
  BY DEF Raised
<1> HIDE DEF after
<1> QED BY <1>1, <1>2, <1>3 DEF WorkerRow, AtItem

LEMMA EndedRow ==
  ASSUME NEW row, ItemRow(row), NEW st \in ItemStates \ {"running"}
  PROVE  /\ ItemRow([row EXCEPT !.st = st, !.owner = NoWorker, !.exp = FALSE])
         /\ [row EXCEPT !.st = st, !.owner = NoWorker, !.exp = FALSE].st = st
BY DEF ItemRow

\* The step of a holder that ends its item as st, whatever it writes of the
\* asset and the job.
LEMMA EndStep ==
  ASSUME IInv, NEW w \in Workers, wk[w].pc \in AtItem, wk[w].fresh,
         NEW row, ItemRow(row), row.st \notin {"none", "running"},
         item' = [item EXCEPT ![Mine(w)] = row],
         wk' = [wk EXCEPT ![w] = NextItem(w)],
         UNCHANGED <<batch, msg, outbox, step, hand, used>>,
         RestShaped', AssetsShaped', JobsShaped',
         \A a \in Assets : asset'[a].st = "ready" => asset'[a].scan = "clean",
         \A k \in Jobs : k # Mine(w) => job'[k] = job[k],
         job[Mine(w)] # "none" => job'[Mine(w)] # "none",
         used.lapse = 0 /\ Mine(w) \notin hand => Agree(row, job'[Mine(w)])
  PROVE  IInv'
<1> DEFINE j == Mine(w)
           next == NextItem(w)
<1>1. /\ WorkerRow(next) /\ next.job = j /\ next.pc \in {"claim", "refresh"}
      /\ j \in Jobs /\ batch[j].st # "none"
  BY NextRow
<1>2. item[j].st = "running" /\ item[j].owner = w
  BY DEF IInv, Crew, Fits
<1>0. item' = [item EXCEPT ![j] = row]
  OBVIOUS
<1> HIDE DEF j, next
<1>3. /\ \A k \in Jobs : item'[k] = IF k = j THEN row ELSE item[k]
      /\ ItemsShaped'
  <2>1. ItemsShaped
    BY DEF IInv, Shapes
  <2>2. Function(item', Jobs) /\ \A k \in Jobs : item'[k] = IF k = j THEN row ELSE item[k]
    BY <1>0, <1>1, <2>1 DEF ItemsShaped, Function
  <2> QED BY <2>1, <2>2 DEF ItemsShaped
<1>4. Fits(w, next, item'[next.job], batch'[next.job], Calm(next.job, used', hand'))
  BY <1>1 DEF Fits, AtItem
<1>5. Crew'
  <2>1. \A k \in Jobs :
          /\ batch[k].st # "none" => batch'[k].st # "none"
          /\ item[k].st = "running" /\ item[k].owner # w => item'[k] = item[k]
    BY <1>2, <1>3
  <2>2. hand \subseteq hand' /\ next.job \in Jobs
    BY <1>1
  <2>3. used'.lapse = 0 => used.lapse = 0
    OBVIOUS
  <2>4. wk' = [wk EXCEPT ![w] = next]
    BY DEF next
  <2> HIDE DEF next
  <2> QED BY ONLY IInv, w \in Workers, <1>4, <2>1, <2>2, <2>3, <2>4, CrewMoves
<1>6. WorkersShaped' /\ BatchesShaped'
  BY <1>1, OneWorker DEF IInv, Shapes, BatchesShaped, next
<1>7. used.lapse = 0 => \A k \in Jobs \ hand' : Agree(item'[k], job'[k])
  BY <1>3, AgreeHeld DEF j
<1>8. \A k \in Jobs : /\ (batch'[k].st = "none") = (item'[k].st = "none")
                      /\ job[k] # "none" => job'[k] # "none"
  BY <1>1, <1>2, <1>3 DEF IInv, Together, j
<1> QED BY <1>3, <1>5, <1>6, <1>7, <1>8, TablesStep

LEMMA MarkCancelledKeeps ==
  ASSUME IInv, NEW w \in Workers, MarkCancelled(w)
  PROVE  IInv'
<1>0. wk[w].pc \in {"cancel", "abort"} /\ wk[w].pc \in AtItem /\ Mine(w) \in Jobs
  BY DEF MarkCancelled, At, AtItem, IInv, Shapes, WorkersShaped, WorkerRow, Mine
<1>1. CASE ~wk[w].fresh
  <2>1. LocalStep(w, Failing(w, TRUE)) \/ LocalStep(w, Raised(w))
    BY <1>1 DEF MarkCancelled
  <2>2. CASE LocalStep(w, Failing(w, TRUE))
    BY <1>0, <2>2, FailingRow, LocalRow
  <2>3. CASE LocalStep(w, Raised(w))
    <3>1. Fits(w, Raised(w), item[Raised(w).job], batch[Raised(w).job],
               Calm(Raised(w).job, used, hand))
      BY RaisedRow, AwayFits
    <3> QED BY <2>3, <3>1, RaisedRow, LocalRow
  <2> QED BY <2>1, <2>2, <2>3
<1>2. CASE wk[w].fresh
  <2> DEFINE j == Mine(w)
             row == [item[j] EXCEPT !.st = "cancelled", !.owner = NoWorker, !.exp = FALSE]
  <2>1. /\ item' = [item EXCEPT ![j] = row]
        /\ wk' = [wk EXCEPT ![w] = NextItem(w)]
        /\ UNCHANGED <<asset, job, batch, msg, outbox, patch, step, hand, used>>
    BY <1>0, <1>2 DEF MarkCancelled, Ended, IInv, Shapes, ItemsShaped, Function
  <2>2. ItemRow(row) /\ row.st = "cancelled"
    BY <1>0, EndedRow DEF IInv, Shapes, ItemsShaped, ItemStates
  <2>3. item[j].st = "running"
    BY <1>0, <1>2 DEF IInv, Crew, Fits
  <2>4. used.lapse = 0 /\ j \notin hand => Agree(row, job'[j])
    BY <1>0, <2>1, <2>2, <2>3, AgreeHeld DEF Agree
  <2>5. RestShaped' /\ AssetsShaped' /\ JobsShaped'
    BY <2>1 DEF IInv, Shapes, RestShaped, AssetsShaped, JobsShaped
  <2>6. \A a \in Assets : asset'[a].st = "ready" => asset'[a].scan = "clean"
    BY <2>1 DEF IInv, ReadyWasScanned
  <2> HIDE DEF row
  <2> QED BY <1>0, <1>2, <2>1, <2>2, <2>4, <2>5, <2>6, EndStep
<1> QED BY <1>1, <1>2

LEMMA PublishKeeps ==
  ASSUME IInv, NEW w \in Workers, Publish(w)
  PROVE  IInv'
<1> DEFINE j == Mine(w)
           a == AssetOf[j]
<1>0. wk[w].pc \in AtItem /\ j \in Jobs /\ a \in Assets /\ AssetRow(asset[a])
      /\ ItemRow(item[j])
  BY JobAssumption DEF Publish, At, AtItem, IInv, Shapes, WorkersShaped, WorkerRow, Mine,
                       AssetsShaped, ItemsShaped
<1>1. CASE ~MayPublish(w)
  <2>1. LocalStep(w, Failing(w, TRUE))
    BY <1>1 DEF Publish
  <2> QED BY <1>0, <2>1, FailingRow, LocalRow
<1>2. CASE MayPublish(w)
  <2>1. PICK target \in {"ready", "awaiting_review"} :
          /\ asset' = [asset EXCEPT ![a] = [@ EXCEPT !.st = target, !.an = "completed",
                                              !.scan = "clean", !.preview = TRUE]]
          /\ item' = Ended(<<j, target>>)
    BY <1>2 DEF Publish
  <2>2. /\ job' = [job EXCEPT ![j] = "succeeded"]
        /\ wk' = [wk EXCEPT ![w] = NextItem(w)]
        /\ UNCHANGED <<batch, msg, outbox, patch, step, hand, used>>
    BY <1>2 DEF Publish
  <2> DEFINE row == [item[j] EXCEPT !.st = target, !.owner = NoWorker, !.exp = FALSE]
             shown == [asset[a] EXCEPT !.st = target, !.an = "completed",
                                       !.scan = "clean", !.preview = TRUE]
  <2>3. item' = [item EXCEPT ![j] = row] /\ asset' = [asset EXCEPT ![a] = shown]
    BY <1>0, <2>1 DEF Ended, IInv, Shapes, ItemsShaped, AssetsShaped, Function
  <2>4. ItemRow(row) /\ row.st = target
    BY <1>0, EndedRow DEF ItemStates
  <2>5. AssetRow(shown) /\ shown.scan = "clean"
    BY <1>0 DEF AssetRow, AllowedTransitions
  <2> HIDE DEF row, shown
  <2>6. /\ AssetsShaped'
        /\ \A b \in Assets : asset'[b] = IF b = a THEN shown ELSE asset[b]
    BY <1>0, <2>3, <2>5, OneAsset DEF IInv, Shapes
  <2>7. \A b \in Assets : asset'[b].st = "ready" => asset'[b].scan = "clean"
    BY <2>5, <2>6 DEF IInv, ReadyWasScanned
  <2>8. JobsShaped' /\ \A k \in Jobs : job'[k] = IF k = j THEN "succeeded" ELSE job[k]
    BY <1>0, <2>2 DEF IInv, Shapes, JobsShaped
  <2>9. RestShaped'
    BY <2>2 DEF IInv, Shapes, RestShaped
  <2>10. Agree(row, job'[j])
    BY <1>0, <2>4, <2>8 DEF Agree
  <2>11. wk[w].fresh
    BY <1>2 DEF MayPublish
  <2> HIDE DEF j, a
  <2>12. item' = [item EXCEPT ![Mine(w)] = row]
    BY <2>3 DEF j
  <2>13. /\ \A k \in Jobs : k # Mine(w) => job'[k] = job[k]
         /\ job'[Mine(w)] # "none"
         /\ Agree(row, job'[Mine(w)])
    BY <1>0, <2>8, <2>10 DEF j
  <2> QED BY <1>0, <2>2, <2>4, <2>6, <2>7, <2>8, <2>9, <2>11, <2>12, <2>13, EndStep
<1> QED BY <1>1, <1>2

LEMMA UnpatchedShaped ==
  ASSUME IInv, NEW a, patch' = Unpatched(a) \/ UNCHANGED patch,
         UNCHANGED <<outbox, hand, step, used>>
  PROVE  RestShaped'
BY DEF IInv, Shapes, RestShaped, Unpatched

\* What a failure shows of the asset and the job.
LEMMA Shown ==
  ASSUME IInv, NEW w \in Workers, MarkFailure(w), Mine(w) \in Jobs
  PROVE  /\ AssetsShaped' /\ JobsShaped' /\ RestShaped'
         /\ \A a \in Assets : asset'[a].st = "ready" => asset'[a].scan = "clean"
         /\ \A k \in Jobs : k # Mine(w) => job'[k] = job[k]
         /\ job[Mine(w)] # "none" => job'[Mine(w)] # "none"
         /\ job'[Mine(w)] = IF Retries(w) THEN job[Mine(w)] ELSE "failed"
<1> DEFINE j == Mine(w)
           a == AssetOf[j]
<1>1. a \in Assets /\ AssetRow(asset[a])
  BY JobAssumption DEF IInv, Shapes, AssetsShaped
<1>2. UNCHANGED <<outbox, step, hand, used>>
  BY DEF MarkFailure
<1>3. CASE Retries(w)
  <2>1. UNCHANGED <<asset, job, patch>>
    BY <1>3 DEF MarkFailure, GivesUp
  <2> QED BY <1>2, <1>3, <2>1, UnpatchedShaped
          DEF IInv, Shapes, AssetsShaped, JobsShaped, ReadyWasScanned
<1>4. CASE ~Retries(w)
  <2>1. PICK scan \in {asset[a].scan, "rejected", "failed"} :
          asset' = [asset EXCEPT ![a] = [@ EXCEPT !.st = "quarantined",
                                           !.an = "failed", !.scan = scan]]
    BY <1>4 DEF MarkFailure, GivesUp
  <2>2. job' = [job EXCEPT ![j] = "failed"] /\ patch' = Unpatched(a)
    BY <1>4 DEF MarkFailure, GivesUp
  <2> DEFINE shown == [asset[a] EXCEPT !.st = "quarantined", !.an = "failed", !.scan = scan]
  <2>3. AssetRow(shown) /\ shown.st = "quarantined" /\ asset' = [asset EXCEPT ![a] = shown]
    BY <1>1, <2>1 DEF AssetRow, AllowedTransitions
  <2> HIDE DEF shown
  <2>4. /\ AssetsShaped'
        /\ \A b \in Assets : asset'[b] = IF b = a THEN shown ELSE asset[b]
    BY <1>1, <2>3, OneAsset DEF IInv, Shapes
  <2>5. \A b \in Assets : asset'[b].st = "ready" => asset'[b].scan = "clean"
    BY <2>3, <2>4 DEF IInv, ReadyWasScanned
  <2>6. JobsShaped' /\ \A k \in Jobs : job'[k] = IF k = j THEN "failed" ELSE job[k]
    BY <2>2 DEF IInv, Shapes, JobsShaped
  <2>7. RestShaped'
    BY <1>2, <2>2, UnpatchedShaped
  <2> QED BY <1>4, <2>4, <2>5, <2>6, <2>7
<1> QED BY <1>3, <1>4

LEMMA MarkFailureKeeps ==
  ASSUME IInv, NEW w \in Workers, MarkFailure(w)
  PROVE  IInv'
<1> DEFINE j == Mine(w)
<1>0. /\ wk[w].pc = "fail" /\ wk[w].pc \in AtItem /\ j \in Jobs /\ ItemRow(item[j])
      /\ UNCHANGED <<batch, msg, outbox, step, hand, used>>
  BY DEF MarkFailure, At, AtItem, IInv, Shapes, WorkersShaped, WorkerRow, Mine, ItemsShaped
<1>1. /\ AssetsShaped' /\ JobsShaped' /\ RestShaped'
      /\ \A a \in Assets : asset'[a].st = "ready" => asset'[a].scan = "clean"
      /\ \A k \in Jobs : k # Mine(w) => job'[k] = job[k]
      /\ job[Mine(w)] # "none" => job'[Mine(w)] # "none"
      /\ job'[Mine(w)] = IF Retries(w) THEN job[Mine(w)] ELSE "failed"
  BY <1>0, Shown
<1>2. Fits(w, wk[w], item[j], batch[j], Calm(j, used, hand))
  BY DEF IInv, Crew
<1>3. CASE ~wk[w].fresh
  <2>1. UNCHANGED item /\ wk' = [wk EXCEPT ![w] = Raised(w)]
    BY <1>3 DEF MarkFailure
  <2>2. ~Calm(j, used, hand)
    BY <1>0, <1>2, <1>3 DEF Fits
  <2>3. Fits(w, Raised(w), item'[Raised(w).job], batch'[Raised(w).job],
             Calm(Raised(w).job, used', hand'))
    BY RaisedRow, AwayFits
  <2>4. \A k \in Jobs :
          /\ batch[k].st # "none" => batch'[k].st # "none"
          /\ item[k].st = "running" /\ item[k].owner # w => item'[k] = item[k]
    BY <1>0, <2>1
  <2>5. hand \subseteq hand' /\ Raised(w).job \in Jobs
    BY <1>0, RaisedRow
  <2>6. used'.lapse = 0 => used.lapse = 0
    BY <1>0
  <2>7. Crew'
    BY <2>1, <2>3, <2>4, <2>5, <2>6, CrewMoves
  <2>8. WorkersShaped' /\ BatchesShaped' /\ ItemsShaped'
    BY <1>0, <2>1, RaisedRow, OneWorker DEF IInv, Shapes, BatchesShaped, ItemsShaped
  <2>9. used.lapse = 0 => \A k \in Jobs \ hand' : Agree(item'[k], job'[k])
    BY <1>0, <1>1, <2>1, <2>2, AgreeHeld DEF Calm
  <2>10. \A k \in Jobs : /\ (batch'[k].st = "none") = (item'[k].st = "none")
                         /\ job[k] # "none" => job'[k] # "none"
    BY <1>0, <1>1, <2>1 DEF IInv, Together
  <2> QED BY <1>0, <1>1, <2>5, <2>6, <2>7, <2>8, <2>9, <2>10, TablesStep
<1>4. CASE wk[w].fresh
  <2>1. wk' = [wk EXCEPT ![w] = NextItem(w)]
    BY <1>4 DEF MarkFailure
  <2>2. item[j].st = "running"
    BY <1>0, <1>2, <1>4 DEF Fits
  <2>3. CASE Retries(w)
    <3> DEFINE ended == [item[j] EXCEPT !.st = "retry_wait", !.owner = NoWorker, !.exp = FALSE]
               row == [ended EXCEPT !.due = FALSE]
    <3>1. ItemRow(ended) /\ ended.st = "retry_wait"
      BY <1>0, EndedRow DEF ItemStates, Active
    <3>2. item' = [item EXCEPT ![j] = row]
      BY <1>0, <1>4, <2>3 DEF MarkFailure, Ended, IInv, Shapes, ItemsShaped, Function
    <3> HIDE DEF ended
    <3>3. ItemRow(row) /\ row.st = "retry_wait"
      BY <3>1 DEF ItemRow
    <3>4. used.lapse = 0 /\ j \notin hand => Agree(row, job'[j])
      BY <1>0, <1>1, <2>2, <2>3, <3>3, AgreeHeld DEF Agree
    <3> HIDE DEF row
    <3> QED BY <1>0, <1>1, <1>4, <2>1, <3>2, <3>3, <3>4, EndStep
  <2>4. CASE ~Retries(w)
    <3> DEFINE row == [item[j] EXCEPT !.st = "failed", !.owner = NoWorker, !.exp = FALSE]
    <3>1. ItemRow(row) /\ row.st = "failed"
      BY <1>0, EndedRow DEF ItemStates
    <3>2. item' = [item EXCEPT ![j] = row]
      BY <1>0, <1>4, <2>4 DEF MarkFailure, Ended, IInv, Shapes, ItemsShaped, Function
    <3>3. Agree(row, job'[j])
      BY <1>1, <2>4, <3>1 DEF Agree
    <3> HIDE DEF row
    <3> QED BY <1>0, <1>1, <1>4, <2>1, <3>1, <3>2, <3>3, EndStep
  <2> QED BY <2>3, <2>4
<1> QED BY <1>3, <1>4

LEMMA RequestAnalysisKeeps ==
  ASSUME IInv, NEW j \in Jobs, RequestAnalysis(j)
  PROVE  IInv'
<1> DEFINE a == AssetOf[j]
           shown == [asset[a] EXCEPT !.st = "processing", !.an = "pending"]
<1>1. /\ job[j] = "none" /\ job' = [job EXCEPT ![j] = "queued"]
      /\ outbox' = outbox \union {j} /\ patch' = Unpatched(a)
      /\ UNCHANGED <<batch, item, msg, step, wk, hand>>
  BY DEF RequestAnalysis
<1>2. /\ used' \in [Events -> Nat]
      /\ used'.lapse = 0 => used.lapse = 0
  BY SpendGrows DEF RequestAnalysis, Call, Events, IInv, Shapes, RestShaped
<1>3. a \in Assets /\ AssetRow(asset[a])
  BY JobAssumption DEF IInv, Shapes, AssetsShaped
<1>4. AssetRow(shown) /\ shown.st = "processing" /\ asset' = [asset EXCEPT ![a] = shown]
  <2>1. asset' = [asset EXCEPT ![a].st = "processing", ![a].an = "pending"]
    BY DEF RequestAnalysis
  <2> QED BY <1>3, <2>1 DEF AssetRow, AllowedTransitions, IInv, Shapes, AssetsShaped, Function
<1> HIDE DEF shown
<1>5. /\ AssetsShaped'
      /\ \A b \in Assets : asset'[b] = IF b = a THEN shown ELSE asset[b]
  BY <1>3, <1>4, OneAsset DEF IInv, Shapes
<1>6. JobsShaped' /\ \A k \in Jobs : job'[k] = IF k = j THEN "queued" ELSE job[k]
  BY <1>1 DEF IInv, Shapes, JobsShaped
<1>7. RestShaped'
  BY <1>1, <1>2 DEF IInv, Shapes, RestShaped, Unpatched
<1>8. Shapes'
  BY <1>1, <1>5, <1>6, <1>7
     DEF IInv, Shapes, BatchesShaped, ItemsShaped, MsgsShaped, WorkersShaped
<1>9. Together' /\ Delivered'
  BY <1>1, <1>6 DEF IInv, Together, Delivered
<1>10. Crew'
  BY <1>1, <1>2, CrewKept
<1>11. ReadyWasScanned'
  BY <1>4, <1>5 DEF IInv, ReadyWasScanned
<1>12. VerdictsAgree'
  BY <1>1, <1>2, <1>6, AgreeGives, AgreeHeld DEF Agree
<1> QED BY <1>8, <1>9, <1>10, <1>11, <1>12 DEF IInv

LEMMA ByHandKnown ==
  ASSUME IInv, NEW j \in Jobs, ByHand(j)
  PROVE  /\ hand \subseteq hand' /\ hand' \subseteq Jobs /\ j \in hand'
         /\ used' \in [Events -> Nat]
         /\ used'.lapse = 0 => used.lapse = 0
BY SpendGrows DEF ByHand, Events, IInv, Shapes, RestShaped

LEMMA ReviewItemKeeps ==
  ASSUME IInv, NEW j \in Jobs, ReviewItem(j)
  PROVE  IInv'
<1> DEFINE a == AssetOf[j]
<1>1. /\ a \in Assets /\ AssetRow(asset[a]) /\ ItemRow(item[j])
      /\ item[j].st = "awaiting_review"
      /\ UNCHANGED <<job, batch, msg, outbox, patch, step, wk>>
  BY JobAssumption DEF IInv, Shapes, AssetsShaped, ItemsShaped, ReviewItem
<1>2. PICK st \in {"ready", "retry_wait", "cancelled"}, done \in 0..Stages,
           shown \in {"ready", "quarantined"} :
        /\ item' = [item EXCEPT ![j] = [@ EXCEPT !.st = st, !.done = done, !.due = TRUE]]
        /\ asset' = [asset EXCEPT ![a].st = shown]
        /\ shown = "ready" => Approvable(a)
  <2> DEFINE decide(st, done, shown) ==
        /\ item' = [item EXCEPT ![j] = [@ EXCEPT !.st = st, !.done = done, !.due = TRUE]]
        /\ asset' = [asset EXCEPT ![a].st = shown]
  <2>1. \/ Approvable(a) /\ decide("ready", item[j].done, "ready")
        \/ decide("retry_wait", Inspect, "quarantined")
        \/ decide("cancelled", item[j].done, "quarantined")
    BY DEF ReviewItem
  <2>2. item[j].done \in 0..Stages /\ Inspect \in 0..Stages
    BY <1>1 DEF ItemRow, Inspect, Stages
  <2> HIDE DEF decide
  <2>3. \E st \in {"ready", "retry_wait", "cancelled"}, done \in 0..Stages,
           shown \in {"ready", "quarantined"} :
             decide(st, done, shown) /\ (shown = "ready" => Approvable(a))
    BY <2>1, <2>2
  <2> QED BY <2>3 DEF decide
<1> DEFINE row == [item[j] EXCEPT !.st = st, !.done = done, !.due = TRUE]
           now == [asset[a] EXCEPT !.st = shown]
<1>3. ItemRow(row) /\ row.st # "none"
  BY <1>1 DEF ItemRow, ItemStates, Active
<1>4. AssetRow(now) /\ now.st = shown /\ now.scan = asset[a].scan
  BY <1>1 DEF AssetRow, AllowedTransitions
<1>5. item' = [item EXCEPT ![j] = row] /\ asset' = [asset EXCEPT ![a] = now]
  BY <1>1, <1>2 DEF IInv, Shapes, ItemsShaped, AssetsShaped, Function
<1> HIDE DEF row, now
<1>6. ItemsShaped' /\ \A k \in Jobs : item'[k] = IF k = j THEN row ELSE item[k]
  BY <1>3, <1>5, OneItem DEF IInv, Shapes
<1>7. AssetsShaped' /\ \A b \in Assets : asset'[b] = IF b = a THEN now ELSE asset[b]
  BY <1>1, <1>4, <1>5, OneAsset DEF IInv, Shapes
<1>8. \A b \in Assets : asset'[b].st = "ready" => asset'[b].scan = "clean"
  BY <1>2, <1>4, <1>7 DEF IInv, ReadyWasScanned, Approvable
<1>9. /\ hand \subseteq hand' /\ hand' \subseteq Jobs /\ j \in hand'
      /\ used' \in [Events -> Nat]
      /\ used'.lapse = 0 => used.lapse = 0
  BY ByHandKnown DEF ReviewItem
<1>10. RestShaped' /\ WorkersShaped' /\ BatchesShaped' /\ JobsShaped'
  BY <1>1, <1>9 DEF IInv, Shapes, RestShaped, WorkersShaped, BatchesShaped, JobsShaped
<1>11. Crew'
  BY <1>1, <1>6, <1>9, CrewKept
<1>12. used.lapse = 0 => \A k \in Jobs \ hand' : Agree(item'[k], job'[k])
  BY <1>1, <1>6, <1>9, AgreeHeld
<1>13. \A k \in Jobs : /\ (batch'[k].st = "none") = (item'[k].st = "none")
                       /\ job[k] # "none" => job'[k] # "none"
  BY <1>1, <1>3, <1>6 DEF IInv, Together
<1> QED BY <1>1, <1>6, <1>7, <1>8, <1>9, <1>10, <1>11, <1>12, <1>13, TablesStep

\* A command of the operator's tool on the item and the batch of j.
LEMMA HandStep ==
  ASSUME IInv, NEW j \in Jobs, ByHand(j), NEW row, NEW seen, ItemRow(row), BatchRow(seen),
         row.st # "none", seen.st # "none", batch[j].st # "none",
         NEW S \in {{}, {j}}, S = {} => row = item[j],
         item' = [item EXCEPT ![j] = row], batch' = [batch EXCEPT ![j] = seen],
         wk' = Outdated(S), UNCHANGED <<asset, job, msg, outbox, patch, step>>
  PROVE  IInv'
<1>1. ItemsShaped' /\ \A k \in Jobs : item'[k] = IF k = j THEN row ELSE item[k]
  BY OneItem DEF IInv, Shapes
<1>2. BatchesShaped' /\ \A k \in Jobs : batch'[k] = IF k = j THEN seen ELSE batch[k]
  BY OneBatch DEF IInv, Shapes
<1>3. /\ hand \subseteq hand' /\ hand' \subseteq Jobs /\ j \in hand'
      /\ used' \in [Events -> Nat]
      /\ used'.lapse = 0 => used.lapse = 0
  BY ByHandKnown
<1>4. Function(wk', Workers) /\ \A v \in Workers : wk'[v] = Late(wk[v], S)
  BY OutdatedRows
<1>5. WorkersShaped'
  BY <1>4, LateRow DEF IInv, Shapes, WorkersShaped
<1>6. Crew'
  <2>1. \A k \in Jobs : batch[k].st # "none" => batch'[k].st # "none"
    BY <1>2
  <2>2. \A k \in Jobs \ S : item[k].st = "running" => item'[k] = item[k]
    BY <1>1
  <2>3. \A v \in Workers : wk[v].pc \in AtItem /\ wk[v].job \in S =>
                             ~Calm(wk[v].job, used', hand')
    BY <1>3 DEF Calm
  <2>4. \A v \in Workers :
           \/ wk'[v] = Late(wk[v], S)
           \/ Fits(v, wk'[v], item'[wk'[v].job], batch'[wk'[v].job],
                   Calm(wk'[v].job, used', hand'))
    BY <1>4
  <2> QED BY ONLY IInv, <1>3, <2>1, <2>2, <2>3, <2>4, CrewOutdated
<1>7. RestShaped' /\ AssetsShaped' /\ JobsShaped'
  BY <1>3 DEF IInv, Shapes, RestShaped, AssetsShaped, JobsShaped
<1>8. used.lapse = 0 => \A k \in Jobs \ hand' : Agree(item'[k], job'[k])
  BY <1>1, <1>3, AgreeHeld
<1>9. \A k \in Jobs : /\ (batch'[k].st = "none") = (item'[k].st = "none")
                      /\ job[k] # "none" => job'[k] # "none"
  BY <1>1, <1>2 DEF IInv, Together
<1>10. \A b \in Assets : asset'[b].st = "ready" => asset'[b].scan = "clean"
  BY DEF IInv, ReadyWasScanned
<1> QED BY <1>1, <1>2, <1>3, <1>5, <1>6, <1>7, <1>8, <1>9, <1>10, TablesStep

LEMMA RequestCancelKeeps ==
  ASSUME IInv, NEW j \in Jobs, RequestCancel(j)
  PROVE  IInv'
<1> DEFINE dropped == IF item[j].st \in {"pending", "retry_wait"} THEN {j} ELSE {}
           row == IF item[j].st \in {"pending", "retry_wait"}
                  THEN [item[j] EXCEPT !.st = "cancelled"] ELSE item[j]
           seen == [batch[j] EXCEPT !.st =
                      IF @ \in {"pending", "running"} THEN "cancellation_requested" ELSE @]
<1>1. /\ ItemRow(item[j]) /\ BatchRow(batch[j]) /\ batch[j].st # "none"
      /\ item[j].st # "none" /\ ByHand(j)
      /\ UNCHANGED <<asset, job, msg, outbox, patch, step>>
  BY DEF RequestCancel, IInv, Shapes, ItemsShaped, BatchesShaped, Together
<1>2. ItemRow(row) /\ row.st # "none"
  BY <1>1 DEF ItemRow, ItemStates
<1>3. BatchRow(seen) /\ seen.st # "none"
  BY <1>1 DEF BatchRow, BatchStates, Stopped
<1>4. item' = [item EXCEPT ![j] = row]
  <2>1. item' = [k \in Jobs |-> IF k \in dropped THEN [item[k] EXCEPT !.st = "cancelled"]
                                ELSE item[k]]
    BY DEF RequestCancel
  <2> QED BY <2>1 DEF IInv, Shapes, ItemsShaped, Function
<1>5. batch' = [batch EXCEPT ![j] = seen] /\ wk' = Outdated(dropped)
  BY DEF RequestCancel, IInv, Shapes, BatchesShaped, Function
<1>6. dropped \in {{}, {j}} /\ (dropped = {} => row = item[j])
  OBVIOUS
<1> HIDE DEF row, seen, dropped
<1> QED BY <1>1, <1>2, <1>3, <1>4, <1>5, <1>6, HandStep

LEMMA RetryFailedKeeps ==
  ASSUME IInv, NEW j \in Jobs, RetryFailed(j)
  PROVE  IInv'
<1> DEFINE again == item[j].st = "failed" /\ item[j].att < MaxAttempts
           late == IF again THEN {j} ELSE {}
           row == IF again THEN [item[j] EXCEPT !.st = "retry_wait", !.due = TRUE] ELSE item[j]
           seen == [batch[j] EXCEPT !.st = "running"]
<1>1. /\ ItemRow(item[j]) /\ BatchRow(batch[j]) /\ batch[j].st # "none"
      /\ item[j].st # "none" /\ ByHand(j)
      /\ UNCHANGED <<asset, job, msg, outbox, patch, step>>
  BY DEF RetryFailed, IInv, Shapes, ItemsShaped, BatchesShaped, Together
<1>2. ItemRow(row) /\ row.st # "none"
  BY <1>1 DEF ItemRow, ItemStates, Active
<1>3. BatchRow(seen) /\ seen.st # "none"
  BY <1>1 DEF BatchRow, BatchStates
<1>4. item' = [item EXCEPT ![j] = row]
  <2>1. item' = IF again THEN [item EXCEPT ![j].st = "retry_wait", ![j].due = TRUE] ELSE item
    BY DEF RetryFailed
  <2> QED BY <2>1 DEF IInv, Shapes, ItemsShaped, Function
<1>5. batch' = [batch EXCEPT ![j] = seen] /\ wk' = Outdated(late)
  BY DEF RetryFailed, IInv, Shapes, BatchesShaped, Function
<1>6. late \in {{}, {j}} /\ (late = {} => row = item[j])
  OBVIOUS
<1> HIDE DEF row, seen, late, again
<1> QED BY <1>1, <1>2, <1>3, <1>4, <1>5, <1>6, HandStep

LEMMA ServeKeeps ==
  ASSUME IInv, NEW w \in Workers, Serve(w)
  PROVE  IInv'
<1> DEFINE j == Mine(w)
           a == AssetOf[j]
           settle(act) == [Goto(w, "settle") EXCEPT !.act = act]
           next == Goto(w, "claim")
           S == Superseded(j)
           shown == [asset[a] EXCEPT !.st = "processing", !.an = "running"]
           seen == [batch[j] EXCEPT !.st = "pending"]
           new == [NoItem EXCEPT !.st = "pending"]
           dropped(k) == [item[k] EXCEPT !.st = "cancelled"]
<1>0. /\ wk[w].pc = "serve" /\ j \in Jobs /\ a \in Assets /\ AssetRow(asset[a])
      /\ BatchRow(batch[j])
  BY JobAssumption DEF Serve, At, IInv, Shapes, WorkersShaped, WorkerRow, Mine,
                       AssetsShaped, BatchesShaped
<1>1. WorkerRow(next) /\ next.pc = "claim" /\ next.job = j
  BY GotoRow DEF AtItem
<1>2. CASE batch[j].st # "none"
  <2>1. LocalStep(w, next)
    BY <1>2 DEF Serve
  <2>2. Fits(w, next, item[next.job], batch[next.job], Calm(next.job, used, hand))
    BY <1>1, <1>2 DEF Fits, AtItem
  <2> QED BY <1>1, <2>1, <2>2, LocalRow
<1>3. ASSUME NEW act \in {"ack", "release"}, LocalStep(w, settle(act))
      PROVE  IInv'
  <2>1. WorkerRow(settle(act)) /\ settle(act).pc = "settle"
    BY GotoRow DEF WorkerRow, AtItem
  <2>2. LocalStep(w, settle(act))
    BY <1>3
  <2> HIDE DEF settle
  <2>3. Fits(w, settle(act), item[settle(act).job], batch[settle(act).job],
             Calm(settle(act).job, used, hand))
    BY <2>1, AwayFits DEF AtItem
  <2> QED BY <2>1, <2>2, <2>3, LocalRow
<1>4. ASSUME batch[j].st = "none",
             item' = [k \in Jobs |->
                        IF k = j THEN [NoItem EXCEPT !.st = "pending"]
                        ELSE IF k \in Superseded(j) THEN [item[k] EXCEPT !.st = "cancelled"]
                        ELSE item[k]],
             batch' = [batch EXCEPT ![j].st = "pending"],
             asset' = [asset EXCEPT ![a].st = "processing", ![a].an = "running"],
             job' = [job EXCEPT ![j] = "running"],
             patch' = Unpatched(a),
             wk' = [Outdated(Superseded(j)) EXCEPT ![w] = Goto(w, "claim")],
             UNCHANGED <<msg, outbox, step, hand, used>>
      PROVE  IInv'
  <2>1. /\ Function(item', Jobs)
        /\ \A k \in Jobs : item'[k] = IF k = j THEN new
                                      ELSE IF k \in S THEN dropped(k) ELSE item[k]
    BY <1>4 DEF Function
  <2>2. batch' = [batch EXCEPT ![j] = seen] /\ asset' = [asset EXCEPT ![a] = shown]
    BY <1>0, <1>4 DEF IInv, Shapes, BatchesShaped, AssetsShaped, Function
  <2>3. BatchRow(seen) /\ seen.st = "pending"
    BY <1>0 DEF BatchRow, BatchStates
  <2>4. AssetRow(shown) /\ shown.st = "processing"
    BY <1>0 DEF AssetRow, AllowedTransitions
  <2>5. ItemRow(new) /\ new.st = "pending"
    <3>1. ItemRow(NoItem) /\ NoItem.st = "none"
      BY StartRows DEF NoItem
    <3> QED BY <3>1 DEF ItemRow, ItemStates, Active
  <2>6. ASSUME NEW k \in S
        PROVE  k \in Jobs /\ k # j /\ item[k].st = "awaiting_review" /\ ItemRow(dropped(k))
               /\ dropped(k).st = "cancelled"
    BY DEF Superseded, Others, IInv, Shapes, ItemsShaped, ItemRow, ItemStates
  <2>7. item[j].st = "none"
    BY <1>0, <1>4 DEF IInv, Together
  <2>8. /\ Function(wk', Workers)
        /\ \A v \in Workers : wk'[v] = IF v = w THEN next ELSE Late(wk[v], S)
    BY <1>4, OutdatedRows DEF Function
  <2> HIDE DEF new, dropped, shown, seen, S, next
  <2>9. ItemsShaped'
    BY <2>1, <2>5, <2>6 DEF IInv, Shapes, ItemsShaped
  <2>10. BatchesShaped' /\ \A k \in Jobs : batch'[k] = IF k = j THEN seen ELSE batch[k]
    BY <1>0, <2>2, <2>3, OneBatch DEF IInv, Shapes
  <2>11. AssetsShaped' /\ \A b \in Assets : asset'[b] = IF b = a THEN shown ELSE asset[b]
    BY <1>0, <2>2, <2>4, OneAsset DEF IInv, Shapes
  <2>12. WorkersShaped'
    BY <1>1, <2>8, LateRow DEF IInv, Shapes, WorkersShaped
  <2>13. JobsShaped' /\ \A k \in Jobs : job'[k] = IF k = j THEN "running" ELSE job[k]
    BY <1>4 DEF IInv, Shapes, JobsShaped
  <2>14. RestShaped'
    BY <1>4, UnpatchedShaped
  <2>15. Crew'
    <3>1. \A k \in Jobs : batch[k].st # "none" => batch'[k].st # "none"
      BY <2>3, <2>10
    <3>2. \A k \in Jobs \ S : item[k].st = "running" => item'[k] = item[k]
      BY <2>1, <2>7
    <3>3. Fits(w, next, item'[next.job], batch'[next.job], Calm(next.job, used', hand'))
      BY <1>0, <1>1, <2>3, <2>10 DEF Fits, AtItem
    <3>4. \A v \in Workers :
            \/ wk'[v] = Late(wk[v], S)
            \/ Fits(v, wk'[v], item'[wk'[v].job], batch'[wk'[v].job],
                    Calm(wk'[v].job, used', hand'))
      BY <2>8, <3>3
    <3>5. ASSUME NEW v \in Workers, wk[v].pc \in AtItem, wk[v].job \in S
          PROVE  ~Calm(wk[v].job, used', hand')
      BY <1>4, <2>6, <3>5 DEF IInv, Crew, Fits, Mine
    <3>6. \A v \in Workers : wk[v].pc \in AtItem /\ wk[v].job \in S =>
                               ~Calm(wk[v].job, used', hand')
      BY <3>5
    <3>7. hand \subseteq hand'
      BY <1>4
    <3>8. used'.lapse = 0 => used.lapse = 0
      BY <1>4
    <3> QED BY ONLY IInv, <3>1, <3>2, <3>4, <3>6, <3>7, <3>8, CrewOutdated
  <2>16. ASSUME used.lapse = 0, NEW k \in Jobs \ hand'
         PROVE  Agree(item'[k], job'[k])
    <3>1. Agree(item[k], job[k])
      BY <1>4, <2>16, AgreeHeld
    <3> QED BY <2>1, <2>5, <2>6, <2>13, <3>1 DEF Agree
  <2>17. \A k \in Jobs : /\ (batch'[k].st = "none") = (item'[k].st = "none")
                         /\ job[k] # "none" => job'[k] # "none"
    BY <2>1, <2>3, <2>5, <2>6, <2>10, <2>13 DEF IInv, Together
  <2>18. \A b \in Assets : asset'[b].st = "ready" => asset'[b].scan = "clean"
    BY <2>4, <2>11 DEF IInv, ReadyWasScanned
  <2> QED BY <1>4, <2>9, <2>10, <2>11, <2>12, <2>13, <2>14, <2>15, <2>16, <2>17, <2>18,
             TablesStep
<1> QED BY <1>2, <1>3, <1>4 DEF Serve

-----------------------------------------------------------------------------
(* The theorems.                                                           *)

LEMMA InitGood == Init => IInv
<1> SUFFICES ASSUME Init PROVE IInv
  OBVIOUS
<1>1. AssetRow(NewAsset) /\ ItemRow(NoItem) /\ WorkerRow(IdleWorker)
  BY StartRows
<1>2. /\ AssetsShaped /\ JobsShaped /\ BatchesShaped /\ ItemsShaped /\ MsgsShaped
      /\ WorkersShaped
  BY <1>1, LimitAssumption
     DEF Init, AssetsShaped, JobsShaped, BatchesShaped, ItemsShaped, MsgsShaped, WorkersShaped,
         Function, BatchRow, BatchStates, MsgRow
<1>3. RestShaped
  <2>1. (CHOOSE a \in Assets : TRUE) \in Assets
    BY JobAssumption
  <2> QED BY <2>1 DEF Init, RestShaped, NoPatch
<1>4. Together /\ Delivered
  BY DEF Init, Together, Delivered, NoItem
<1>5. Crew
  BY AwayFits DEF Init, Crew, IdleWorker, AtItem
<1>6. ReadyWasScanned /\ VerdictsAgree
  BY DEF Init, ReadyWasScanned, VerdictsAgree, NewAsset, NoItem
<1> QED BY <1>2, <1>3, <1>4, <1>5, <1>6 DEF IInv, Shapes

LEMMA StepKeeps == IInv /\ [Next]_vars => IInv'
<1> SUFFICES ASSUME IInv, [Next]_vars PROVE IInv'
  OBVIOUS
<1>1. CASE UNCHANGED vars
  <2>1. RestShaped' /\ WorkersShaped' /\ Crew'
    BY <1>1, CrewKept DEF vars, IInv, Shapes, RestShaped, WorkersShaped
  <2> QED BY <1>1, <2>1, SameMsg DEF vars
<1>2. ASSUME NEW w \in Workers, WorkerStep(w)
      PROVE  IInv'
  BY <1>2, ServeKeeps, ClaimKeeps, StageStartsKeeps, StageFailsKeeps, StageAbortsKeeps,
     CheckpointKeeps, MarkCancelledKeeps, PublishKeeps, MarkFailureKeeps, RefreshKeeps,
     SettleKeeps, ResumeReviewKeeps, ResumeMarkKeeps DEF WorkerStep
<1>3. ASSUME NEW w \in Workers,
             \/ Reserve(w) \/ ResumeRead(w) \/ RenewItem(w) \/ Crash(w)
             \/ \E j \in Jobs : RunTool(w, j)
      PROVE  IInv'
  BY <1>3, ReserveKeeps, ResumeReadKeeps, RenewItemKeeps, CrashKeeps, RunToolKeeps
<1>4. ASSUME NEW j \in Jobs,
             \/ RequestAnalysis(j) \/ RequestCancel(j) \/ RetryFailed(j)
             \/ ReviewItem(j) \/ ItemLeaseLapses(j) \/ MsgLeaseLapses(j)
             \/ ItemBecomesDue(j)
      PROVE  IInv'
  BY <1>4, RequestAnalysisKeeps, RequestCancelKeeps, RetryFailedKeeps, ReviewItemKeeps,
     ItemLeaseLapsesKeeps, MsgLeaseLapsesKeeps, ItemBecomesDueKeeps
<1>5. ASSUME \/ \E a \in Assets : TransitionAsset(a) \/ ReadMetadata(a)
             \/ EnqueueAnalysis \/ WriteMetadata \/ StepStarts \/ StepEnds
      PROVE  IInv'
  BY <1>5, TransitionAssetKeeps, MetadataKeeps, EnqueueKeeps, MediaStepKeeps
<1> QED BY <1>1, <1>2, <1>3, <1>4, <1>5 DEF Next

\* The inductive invariant holds of every run of the service.
THEOREM Invariance == Spec => []IInv
BY InitGood, StepKeeps, PTL DEF Spec

\* Rows, deliveries and workers keep their shape, for any number of workers,
\* assets and jobs (postgres_asset_jobs.py).
THEOREM TypeCorrect == Spec => []TypeOK
<1>1. IInv => TypeOK
  BY ShapesGiveTypes DEF IInv
<1> QED BY <1>1, Invariance, PTL

\* Nothing is ready that was not scanned clean, by whichever of the four ways
\* an asset becomes ready (asset_policy.py:28, postgres_asset_jobs.py:700).
THEOREM ReadyAssetsWereScanned == Spec => []ReadyWasScanned
<1>1. IInv => ReadyWasScanned
  BY DEF IInv
<1> QED BY <1>1, Invariance, PTL

\* While leases hold, the verdict shown of a job is that of its item, through
\* any number of crashes, retries, later analyses of the asset and commands on
\* other jobs (postgres_asset_jobs.py:445, 502).
THEOREM VerdictsOfItems == Spec => []VerdictsAgree
<1>1. IInv => VerdictsAgree
  BY DEF IInv
<1> QED BY <1>1, Invariance, PTL

\* Nothing but publication turns a running item into a result.
LEMMA PublicationOnly ==
  ASSUME IInv, [Next]_vars, NEW j \in Jobs, item[j].st = "running",
         item'[j].st \in {"ready", "awaiting_review"}
  PROVE  \E w \in Workers : Publish(w) /\ Mine(w) = j
<1>0. ItemsShaped /\ \A w \in Workers : Mine(w) \in Jobs
  BY DEF IInv, Shapes, WorkersShaped, WorkerRow, Mine
<1>1. item' # item
  OBVIOUS
<1>2. ASSUME NEW w \in Workers,
             \/ StageStarts(w) \/ StageFails(w) \/ StageAborts(w) \/ Refresh(w) \/ Settle(w)
             \/ ResumeReview(w) \/ ResumeMark(w) \/ Reserve(w) \/ ResumeRead(w) \/ Crash(w)
             \/ \E k \in Jobs : RunTool(w, k)
      PROVE  FALSE
  BY <1>1, <1>2 DEF StageStarts, StageFails, StageAborts, Refresh, Settle, ResumeReview,
     ResumeMark, Reserve, ResumeRead, Crash, RunTool, LocalStep
<1>3. ASSUME NEW w \in Workers, Claim(w)
      PROVE  FALSE
  <2>1. item' = [item EXCEPT ![Mine(w)] =
                   [@ EXCEPT !.st = "running", !.att = item[Mine(w)].att + 1,
                             !.owner = w, !.exp = FALSE]]
    BY <1>1, <1>3 DEF Claim, LocalStep
  <2>2. item'[j].st \in {item[j].st, "running"}
    BY <1>0, <2>1 DEF ItemsShaped, Function, ItemRow
  <2> QED BY <2>2
<1>4. ASSUME NEW w \in Workers, Checkpoint(w) \/ RenewItem(w)
      PROVE  FALSE
  <2>1. \/ item' = [item EXCEPT ![Mine(w)].done = wk[w].done + 1, ![Mine(w)].exp = FALSE]
        \/ item' = [item EXCEPT ![Mine(w)].exp = FALSE]
    BY <1>1, <1>4 DEF Checkpoint, RenewItem, LocalStep
  <2> DEFINE m == Mine(w)
             row == [item[m] EXCEPT !.done = wk[w].done + 1, !.exp = FALSE]
             held == [item[m] EXCEPT !.exp = FALSE]
  <2>2. item' = [item EXCEPT ![m] = row] \/ item' = [item EXCEPT ![m] = held]
    BY <1>0, <2>1 DEF ItemsShaped, Function
  <2>3. row.st = item[m].st /\ held.st = item[m].st
    BY <1>0 DEF ItemsShaped, ItemRow
  <2> HIDE DEF row, held
  <2>4. item'[j].st = item[j].st
    BY <1>0, <2>2, <2>3 DEF ItemsShaped, Function
  <2> QED BY <2>4
<1>5. ASSUME NEW w \in Workers, MarkCancelled(w)
      PROVE  FALSE
  <2>1. item' = [item EXCEPT ![Mine(w)] =
                   [@ EXCEPT !.st = "cancelled", !.owner = NoWorker, !.exp = FALSE]]
    BY <1>1, <1>5 DEF MarkCancelled, LocalStep, Ended
  <2>2. item'[j].st \in {item[j].st, "cancelled"}
    BY <1>0, <2>1 DEF ItemsShaped, Function, ItemRow
  <2> QED BY <2>2
<1>6. ASSUME NEW w \in Workers, MarkFailure(w)
      PROVE  FALSE
  <2> DEFINE m == Mine(w)
             failed == [item[m] EXCEPT !.st = "failed", !.owner = NoWorker, !.exp = FALSE]
             later == [item[m] EXCEPT !.st = "retry_wait", !.owner = NoWorker, !.exp = FALSE,
                                      !.due = FALSE]
  <2>1. \/ item' = Ended(<<m, "failed">>)
        \/ item' = [Ended(<<m, "retry_wait">>) EXCEPT ![m].due = FALSE]
    BY <1>1, <1>6 DEF MarkFailure
  <2>2. item' = [item EXCEPT ![m] = failed] \/ item' = [item EXCEPT ![m] = later]
    BY <1>0, <2>1 DEF Ended, ItemsShaped, Function
  <2>3. failed.st = "failed" /\ later.st = "retry_wait"
    BY <1>0 DEF ItemsShaped, ItemRow
  <2> HIDE DEF failed, later
  <2>4. item'[j].st \in {item[j].st, "failed", "retry_wait"}
    BY <1>0, <2>2, <2>3 DEF ItemsShaped, Function
  <2> QED BY <2>4
<1>7. ASSUME NEW w \in Workers, Serve(w)
      PROVE  FALSE
  <2>1. item' = [k \in Jobs |->
                   IF k = Mine(w) THEN [NoItem EXCEPT !.st = "pending"]
                   ELSE IF k \in Superseded(Mine(w)) THEN [item[k] EXCEPT !.st = "cancelled"]
                   ELSE item[k]]
    BY <1>1, <1>7 DEF Serve, LocalStep
  <2>2. item'[j].st \in {item[j].st, "pending", "cancelled"}
    BY <1>0, <2>1 DEF NoItem, ItemsShaped, ItemRow
  <2> QED BY <2>2
<1>8. ASSUME NEW w \in Workers, Publish(w)
      PROVE  Mine(w) = j
  BY <1>0, <1>1, <1>8 DEF Publish, LocalStep, Ended, ItemsShaped, Function
<1>9. ASSUME NEW k \in Jobs,
             \/ RequestCancel(k) \/ RetryFailed(k) \/ ReviewItem(k)
             \/ ItemLeaseLapses(k) \/ ItemBecomesDue(k)
      PROVE  FALSE
  BY <1>0, <1>1, <1>9 DEF RequestCancel, RetryFailed, ReviewItem, ItemLeaseLapses,
     ItemBecomesDue, ItemsShaped, Function, ItemRow
<1>10. ASSUME \/ \E k \in Jobs : RequestAnalysis(k) \/ MsgLeaseLapses(k)
              \/ \E a \in Assets : TransitionAsset(a) \/ ReadMetadata(a)
              \/ EnqueueAnalysis \/ WriteMetadata \/ StepStarts \/ StepEnds
       PROVE  FALSE
  BY <1>1, <1>10 DEF RequestAnalysis, MsgLeaseLapses, TransitionAsset, ReadMetadata,
     EnqueueAnalysis, WriteMetadata, StepStarts, StepEnds
<1> QED BY <1>1, <1>2, <1>3, <1>4, <1>5, <1>6, <1>7, <1>8, <1>9, <1>10
       DEF Next, WorkerStep, vars

\* Whoever publishes holds the item, has completed it, and finds the asset
\* still open for analysis, whatever lapsed, crashed or was commanded meanwhile
\* (postgres_asset_jobs.py:519).
THEOREM ResultsFromHolder == Spec => PublishedByHolder
<1>1. IInv /\ [Next]_vars =>
        \A j \in Jobs :
          item[j].st = "running" /\ item'[j].st \in {"ready", "awaiting_review"} =>
            /\ \E w \in Workers : /\ item[j].owner = w /\ At(w, "publish") /\ Mine(w) = j
            /\ item[j].done = Stages /\ asset[AssetOf[j]].st \in Analysable
  <2> SUFFICES ASSUME IInv, [Next]_vars, NEW j \in Jobs, item[j].st = "running",
                      item'[j].st \in {"ready", "awaiting_review"}
               PROVE  /\ \E w \in Workers : /\ item[j].owner = w /\ At(w, "publish")
                                             /\ Mine(w) = j
                      /\ item[j].done = Stages /\ asset[AssetOf[j]].st \in Analysable
    OBVIOUS
  <2>1. PICK w \in Workers : Publish(w) /\ Mine(w) = j
    BY PublicationOnly
  <2>2. MayPublish(w) /\ wk[w].pc = "publish"
    BY <2>1 DEF Publish, LocalStep, At
  <2>3. item[j].owner = w /\ item[j].done = Stages
    BY <2>1, <2>2 DEF MayPublish, IInv, Crew, Fits, AtItem
  <2> QED BY <2>1, <2>2, <2>3 DEF MayPublish, Asset, At
<1> QED BY <1>1, Invariance, PTL DEF Spec, PublishedByHolder
-----------------------------------------------------------------------------
(* A started job keeps its delivery.                                       *)

\* Where a worker has a delivery in hand.
Handling == AtItem \union {"serve", "claim", "refresh", "settle"}

\* Of a calm job: worker w at r holds the delivery m of the item i it works
\* on, finds a running item only where its lease ended, and acknowledges only
\* after the verdict jb.
Minds(w, r, i, m, jb) ==
  /\ ~r.tool /\ r.pc \notin {"cancel", "abort"}
  /\ r.pc \in Handling => m.by = w
  /\ r.pc \in {"serve", "claim"} /\ i.st = "running" => i.exp
  /\ r.pc \in {"refresh", "settle"} => i.st # "running"
  /\ r.pc = "settle" /\ r.act = "ack" => jb # "running"
\* The rows of a calm job: until its verdict its item is open and its delivery
\* is not acknowledged, and whoever runs the item holds the delivery.
Rests(i, m, b, jb) ==
  /\ jb = "running" => i.st \in Active /\ m.st \in {"ready", "leased", "failed"}
  /\ i.st \in Active => b.st \notin Stopped
  /\ i.st = "running" /\ ~i.exp => m.by = i.owner

Minded(w) == Calm(Mine(w), used, hand) =>
               Minds(w, wk[w], item[Mine(w)], msg[Mine(w)], job[Mine(w)])
Rested(j) == Calm(j, used, hand) => Rests(item[j], msg[j], batch[j], job[j])
Care == (\A w \in Workers : Minded(w)) /\ (\A j \in Jobs : Rested(j))

LEMMA CareGives ==
  ASSUME Care
  PROVE  used.lapse = 0 => \A j \in Jobs \ hand :
           job[j] = "running" => msg[j].st \in {"ready", "leased", "failed"}
BY DEF Care, Rested, Rests, Calm

\* A job nobody wrote, or whose item was put away, and a worker that stayed
\* where it was.
Kept(j) ==
  /\ msg'[j].st = msg[j].st /\ msg'[j].by = msg[j].by
  /\ job'[j] = "running" => job[j] = "running"
  /\ batch'[j].st \in Stopped => batch[j].st \in Stopped
  /\ \/ /\ item'[j].st = item[j].st /\ item'[j].owner = item[j].owner
        /\ item[j].exp => item'[j].exp
     \/ item[j].st \notin Active /\ item'[j].st \notin Active
Stays(w) ==
  /\ wk'[w].pc = wk[w].pc /\ wk'[w].job = wk[w].job
  /\ wk'[w].tool = wk[w].tool /\ wk'[w].act = wk[w].act
Calmer == hand \subseteq hand' /\ (used'.lapse = 0 => used.lapse = 0)

LEMMA RestedKept ==
  ASSUME Care, Calmer, NEW j \in Jobs, Kept(j)
  PROVE  Rested(j)'
<1> SUFFICES ASSUME Calm(j, used', hand')
             PROVE  Rests(item'[j], msg'[j], batch'[j], job'[j])
  BY DEF Rested
<1>1. Calm(j, used, hand)
  BY DEF Calm, Calmer
<1>2. Rests(item[j], msg[j], batch[j], job[j])
  BY <1>1 DEF Care, Rested
<1>3. "running" \in Active
  BY DEF Active
<1> QED BY <1>2, <1>3 DEF Rests, Kept

LEMMA MindedKept ==
  ASSUME Care, Calmer, NEW w \in Workers, Stays(w),
         wk[w].pc \in Handling => Kept(wk[w].job)
  PROVE  Minded(w)'
<1> DEFINE j == wk[w].job
<1> SUFFICES ASSUME Calm(j, used', hand')
             PROVE  Minds(w, wk'[w], item'[j], msg'[j], job'[j])
  BY DEF Minded, Mine, Stays
<1>1. Calm(j, used, hand)
  BY DEF Calm, Calmer
<1>2. Minds(w, wk[w], item[j], msg[j], job[j])
  BY <1>1 DEF Care, Minded, Mine
<1>3. "running" \in Active
  BY DEF Active
<1>4. CASE wk[w].pc \notin Handling
  BY <1>2, <1>4 DEF Minds, Stays, Handling, AtItem
<1>5. CASE wk[w].pc \in Handling
  BY <1>2, <1>3, <1>5 DEF Minds, Stays, Kept
<1> QED BY <1>4, <1>5

\* Worker w moves to where it minds its job; nothing is written but the job it
\* has in hand, and that rests.
LEMMA CareMine ==
  ASSUME IInv, Care, Calmer, NEW w \in Workers, NEW j \in Jobs,
         \A v \in Workers : v # w => Stays(v), Minded(w)',
         \A k \in Jobs : k # j => Kept(k),
         \/ Kept(j)
         \/ Rested(j)' /\ wk[w].pc \in Handling /\ Mine(w) = j
  PROVE  Care'
<1>1. \A v \in Workers : wk[v].job \in Jobs
  BY DEF IInv, Shapes, WorkersShaped, WorkerRow
<1>2. ASSUME NEW v \in Workers
      PROVE  Minded(v)'
  <2>1. CASE v = w
    BY <2>1
  <2>2. CASE v # w /\ (wk[v].pc \in Handling => Kept(wk[v].job))
    BY <2>2, MindedKept
  <2>3. CASE v # w /\ wk[v].pc \in Handling /\ ~Kept(wk[v].job)
    <3>1. wk[v].job = j /\ wk'[v].job = j /\ Mine(w) = j /\ wk[w].pc \in Handling
      BY <1>1, <2>3 DEF Stays
    <3>2. ~Calm(j, used, hand)
      BY <2>3, <3>1 DEF Care, Minded, Minds, Mine
    <3>3. ~Calm(j, used', hand')
      BY <3>2 DEF Calm, Calmer
    <3> QED BY <3>1, <3>3 DEF Minded, Mine
  <2> QED BY <2>1, <2>2, <2>3
<1>3. \A k \in Jobs : Rested(k)'
  BY RestedKept
<1> QED BY <1>2, <1>3 DEF Care

\* Nobody moves, and no delivery in hand is written.
LEMMA CareStays ==
  ASSUME IInv, Care, Calmer, \A v \in Workers : Stays(v),
         \A k \in Jobs :
           \/ Kept(k)
           \/ /\ Rested(k)'
              /\ Calm(k, used', hand') =>
                   \A v \in Workers : ~(wk[v].pc \in Handling /\ Mine(v) = k)
  PROVE  Care'
<1>1. \A v \in Workers : wk[v].job \in Jobs
  BY DEF IInv, Shapes, WorkersShaped, WorkerRow
<1>2. ASSUME NEW v \in Workers
      PROVE  Minded(v)'
  <2>1. CASE wk[v].pc \in Handling => Kept(wk[v].job)
    BY <2>1, MindedKept
  <2>2. CASE wk[v].pc \in Handling /\ ~Kept(wk[v].job)
    <3>1. ~Calm(wk[v].job, used', hand')
      BY <1>1, <2>2 DEF Mine
    <3> QED BY <3>1 DEF Minded, Mine, Stays
  <2> QED BY <2>1, <2>2
<1>3. \A k \in Jobs : Rested(k)'
  BY RestedKept
<1> QED BY <1>2, <1>3 DEF Care

\* What is asked of a worker without a delivery.
LEMMA AwayMinds ==
  ASSUME NEW w, NEW r, NEW i, NEW m, NEW jb, r.pc \notin Handling, ~r.tool
  PROVE  Minds(w, r, i, m, jb)
BY DEF Minds, Handling, AtItem

\* One worker's row is written.
LEMMA OthersStay ==
  ASSUME IInv, NEW w \in Workers, NEW row, wk' = [wk EXCEPT ![w] = row]
  PROVE  wk'[w] = row /\ \A v \in Workers : v # w => Stays(v)
BY DEF IInv, Shapes, WorkersShaped, Function, Stays

LEMMA RowsKept ==
  ASSUME UNCHANGED <<job, item, msg>>, NEW j, batch'[j].st = batch[j].st
  PROVE  Kept(j)
BY DEF Kept

\* A step of worker w that writes nothing but its own row.
LEMMA CareGoes ==
  ASSUME IInv, Care, Calmer, NEW w \in Workers, NEW row, wk' = [wk EXCEPT ![w] = row],
         UNCHANGED <<job, item, msg>>, \A j \in Jobs : batch'[j].st = batch[j].st,
         Calm(row.job, used', hand') =>
           Minds(w, row, item[row.job], msg[row.job], job[row.job])
  PROVE  Care'
<1>1. wk'[w] = row /\ \A v \in Workers : v # w => Stays(v)
  BY OthersStay
<1>2. \A j \in Jobs : Kept(j)
  BY RowsKept
<1>3. Minded(w)'
  BY <1>1 DEF Minded, Mine
<1>4. wk[w].job \in Jobs
  BY DEF IInv, Shapes, WorkersShaped, WorkerRow
<1> QED BY <1>1, <1>2, <1>3, <1>4, CareMine

\* What a calm worker at a delivery knows.
LEMMA Knows ==
  ASSUME IInv, Care, Calmer, NEW w \in Workers, Calm(Mine(w), used', hand')
  PROVE  /\ Calm(Mine(w), used, hand) /\ Mine(w) \in Jobs
         /\ Minds(w, wk[w], item[Mine(w)], msg[Mine(w)], job[Mine(w)])
         /\ Rests(item[Mine(w)], msg[Mine(w)], batch[Mine(w)], job[Mine(w)])
         /\ Fits(w, wk[w], item[Mine(w)], batch[Mine(w)], TRUE)
         /\ wk[w].pc \in Handling => msg[Mine(w)].by = w /\ msg[Mine(w)].st = "leased"
<1>1. Calm(Mine(w), used, hand)
  BY DEF Calm, Calmer
<1>2. Mine(w) \in Jobs
  BY DEF IInv, Shapes, WorkersShaped, WorkerRow, Mine
<1>3. /\ Minds(w, wk[w], item[Mine(w)], msg[Mine(w)], job[Mine(w)])
      /\ Rests(item[Mine(w)], msg[Mine(w)], batch[Mine(w)], job[Mine(w)])
  BY <1>1, <1>2 DEF Care, Minded, Rested
<1>4. Fits(w, wk[w], item[Mine(w)], batch[Mine(w)], TRUE)
  BY <1>1 DEF IInv, Crew, Fits
<1>5. wk[w].pc \in Handling => msg[Mine(w)].by = w /\ msg[Mine(w)].st = "leased"
  BY <1>2, <1>3, JobAssumption DEF Minds, IInv, Shapes, MsgsShaped, MsgRow
<1> QED BY <1>1, <1>2, <1>3, <1>4, <1>5

\* At its item a calm worker runs it, and sees no cancellation.
LEMMA KnowsItem ==
  ASSUME IInv, Care, Calmer, NEW w \in Workers, Calm(Mine(w), used', hand'),
         wk[w].pc \in AtItem
  PROVE  /\ wk[w].fresh /\ item[Mine(w)].st = "running" /\ item[Mine(w)].owner = w
         /\ ~CancelSeen(w) /\ ~wk[w].tool /\ wk[w].pc \notin {"cancel", "abort"}
BY Knows DEF Fits, Rests, Minds, CancelSeen, Active

LEMMA LocalCare ==
  ASSUME IInv, Care, NEW w \in Workers, NEW row, LocalStep(w, row),
         Calm(row.job, used, hand) =>
           Minds(w, row, item[row.job], msg[row.job], job[row.job])
  PROVE  Care'
<1>1. /\ wk' = [wk EXCEPT ![w] = row]
      /\ UNCHANGED <<asset, job, batch, item, msg, hand, used>>
  BY DEF LocalStep
<1>2. Calmer
  BY <1>1 DEF Calmer
<1>3. Calm(row.job, used', hand') =>
        Minds(w, row, item[row.job], msg[row.job], job[row.job])
  BY <1>1
<1>4. \A j \in Jobs : batch'[j].st = batch[j].st
  BY <1>1
<1> HIDE DEF LocalStep
<1> QED BY <1>1, <1>2, <1>3, <1>4, CareGoes

\* A worker at its item that goes on to work, or on to a failure.
LEMMA OnwardCare ==
  ASSUME IInv, Care, NEW w \in Workers, wk[w].pc \in AtItem, NEW row, LocalStep(w, row),
         row.job = Mine(w), row.tool = wk[w].tool, row.pc \in {"work", "fail"}
  PROVE  Care'
<1>1. ASSUME Calm(Mine(w), used, hand)
      PROVE  Minds(w, row, item[row.job], msg[row.job], job[row.job])
  <2>1. Calmer /\ Calm(Mine(w), used', hand')
    BY <1>1 DEF LocalStep, Calmer
  <2>2. ~wk[w].tool /\ msg[Mine(w)].by = w
    BY <2>1, Knows, KnowsItem DEF Handling
  <2> QED BY <2>2 DEF Minds
<1> QED BY <1>1, LocalCare

LEMMA GotoSays ==
  ASSUME IInv, NEW w \in Workers, NEW pc
  PROVE  /\ Goto(w, pc).pc = pc /\ Goto(w, pc).job = Mine(w) /\ Goto(w, pc).tool = wk[w].tool
         /\ Goto(w, pc).act = wk[w].act
         /\ \A retry : /\ Failing(w, retry).pc = "fail" /\ Failing(w, retry).job = Mine(w)
                       /\ Failing(w, retry).tool = wk[w].tool
         /\ \A act : LET row == [Goto(w, pc) EXCEPT !.act = act] IN
              row.pc = pc /\ row.job = Mine(w) /\ row.tool = wk[w].tool /\ row.act = act
BY DEF IInv, Shapes, WorkersShaped, WorkerRow, Goto, Mine, Failing

LEMMA FailingCare ==
  ASSUME IInv, Care, NEW w \in Workers, wk[w].pc \in AtItem,
         NEW retry \in BOOLEAN, LocalStep(w, Failing(w, retry))
  PROVE  Care'
<1> DEFINE row == Failing(w, retry)
<1>1. row.pc = "fail" /\ row.job = Mine(w) /\ row.tool = wk[w].tool
  BY GotoSays
<1> HIDE DEF row
<1>2. LocalStep(w, row)
  BY DEF row
<1> QED BY <1>1, <1>2, OnwardCare

LEMMA StageCare ==
  ASSUME IInv, Care, NEW w \in Workers, StageStarts(w) \/ StageFails(w) \/ StageAborts(w)
  PROVE  Care'
<1>1. wk[w].pc \in AtItem
  BY DEF StageStarts, StageFails, StageAborts, At, AtItem
<1>2. \/ LocalStep(w, Goto(w, "work"))
      \/ \E retry \in BOOLEAN : LocalStep(w, Failing(w, retry))
      \/ \E pc \in {"cancel", "abort"} : LocalStep(w, Goto(w, pc)) /\ CancelSeen(w)
  BY DEF StageStarts, StageFails, StageAborts
<1>3. CASE LocalStep(w, Goto(w, "work"))
  BY <1>1, <1>3, OnwardCare, GotoSays
<1>4. ASSUME NEW retry \in BOOLEAN, LocalStep(w, Failing(w, retry))
      PROVE  Care'
  BY <1>1, <1>4, FailingCare
<1>5. ASSUME NEW pc \in {"cancel", "abort"}, LocalStep(w, Goto(w, pc)), CancelSeen(w)
      PROVE  Care'
  <2>1. ~Calm(Mine(w), used, hand)
    BY <1>1, <1>5, KnowsItem DEF Calmer, LocalStep
  <2>2. Goto(w, pc).job = Mine(w)
    BY GotoSays
  <2> QED BY <1>5, <2>1, <2>2, LocalCare
<1> QED BY <1>2, <1>3, <1>4, <1>5

LEMMA IdleSays ==
  /\ IdleWorker.pc = "idle" /\ ~IdleWorker.tool
  /\ \A pc, j, g : LET row == [IdleWorker EXCEPT !.pc = pc, !.job = j]
                       woken == [IdleWorker EXCEPT !.group = g, !.pc = pc]
                   IN  /\ row.pc = pc /\ row.job = j /\ ~row.tool
                       /\ woken.pc = pc /\ ~woken.tool /\ woken.group = g
BY DEF IdleWorker

\* A worker that has done with its job.
LEMMA IdleCare ==
  ASSUME IInv, Care, Calmer, NEW w \in Workers, wk' = [wk EXCEPT ![w] = IdleWorker],
         UNCHANGED <<job, item, msg>>, \A j \in Jobs : batch'[j].st = batch[j].st
  PROVE  Care'
<1>1. Minds(w, IdleWorker, item[IdleWorker.job], msg[IdleWorker.job], job[IdleWorker.job])
  BY IdleSays, AwayMinds DEF Handling, AtItem
<1> QED BY <1>1, CareGoes

LEMMA CrashCare ==
  ASSUME IInv, Care, NEW w \in Workers, Crash(w)
  PROVE  Care'
<1>1. Calmer
  BY SpendGrows DEF Crash, Calmer, Events
<1> QED BY <1>1, IdleCare DEF Crash

LEMMA ResumeMarkCare ==
  ASSUME IInv, Care, NEW w \in Workers, ResumeMark(w)
  PROVE  Care'
<1>1. Calmer
  BY DEF ResumeMark, Calmer
<1>2. \A j \in Jobs : batch'[j].st = batch[j].st
  BY DEF ResumeMark, IInv, Shapes, BatchesShaped, BatchRow
<1> QED BY <1>1, <1>2, IdleCare DEF ResumeMark

LEMMA ResumeReviewCare ==
  ASSUME IInv, Care, NEW w \in Workers, ResumeReview(w)
  PROVE  Care'
<1> DEFINE marks == [wk[w] EXCEPT !.pc = "mark"]
<1>1. /\ wk' = [wk EXCEPT ![w] = marks] \/ wk' = [wk EXCEPT ![w] = IdleWorker]
      /\ UNCHANGED <<job, batch, item, msg, hand, used>> /\ wk[w].pc = "review"
  BY DEF ResumeReview, At
<1>2. marks.pc = "mark" /\ marks.tool = wk[w].tool /\ marks.job = Mine(w)
  BY DEF IInv, Shapes, WorkersShaped, WorkerRow, Mine
<1> HIDE DEF marks
<1>3. Calmer /\ \A j \in Jobs : batch'[j].st = batch[j].st
  BY <1>1 DEF Calmer
<1>4. Calm(marks.job, used', hand') =>
        Minds(w, marks, item[marks.job], msg[marks.job], job[marks.job])
  <2>1. Calm(marks.job, used', hand') => ~wk[w].tool
    BY <1>2, <1>3, Knows DEF Minds
  <2>2. marks.pc \notin Handling
    BY <1>2 DEF Handling, AtItem
  <2> QED BY <1>2, <2>1, <2>2, AwayMinds
<1>5. CASE wk' = [wk EXCEPT ![w] = marks]
  BY <1>1, <1>3, <1>4, <1>5, CareGoes
<1>6. CASE wk' = [wk EXCEPT ![w] = IdleWorker]
  BY <1>1, <1>3, <1>6, IdleCare
<1> QED BY <1>1, <1>5, <1>6

LEMMA ResumeReadCare ==
  ASSUME IInv, Care, NEW w \in Workers, ResumeRead(w)
  PROVE  Care'
<1> DEFINE woken(pc) == [IdleWorker EXCEPT !.group = Targets, !.pc = pc]
<1>1. LocalStep(w, IdleWorker) \/ LocalStep(w, woken("review")) \/ LocalStep(w, woken("mark"))
  BY DEF ResumeRead
<1>2. \A pc \in {"review", "mark"} : woken(pc).pc = pc /\ ~woken(pc).tool
  BY IdleSays
<1> HIDE DEF woken
<1>3. ASSUME NEW row, ~row.tool, row.pc \in {"idle", "review", "mark"}, LocalStep(w, row)
      PROVE  Care'
  <2>1. Minds(w, row, item[row.job], msg[row.job], job[row.job])
    BY <1>3, AwayMinds DEF Handling, AtItem
  <2> QED BY <1>3, <2>1, LocalCare
<1> QED BY <1>1, <1>2, <1>3, IdleSays

\* A step of worker w that writes the rows of its own job j, and goes to r.
LEMMA CareActs ==
  ASSUME IInv, Care, Calmer, NEW w \in Workers, wk[w].pc \in Handling,
         NEW j \in Jobs, Mine(w) = j,
         NEW r, wk'[w] = r, \A v \in Workers : v # w => Stays(v),
         \A k \in Jobs : k # j => Kept(k),
         r.job = j \/ (r.pc \notin Handling /\ ~r.tool),
         Calm(j, used', hand') =>
           /\ r.job = j => Minds(w, r, item'[j], msg'[j], job'[j])
           /\ Rests(item'[j], msg'[j], batch'[j], job'[j])
  PROVE  Care'
<1>1. Minded(w)'
  <2>1. CASE r.job = j
    BY <2>1 DEF Minded, Mine
  <2>2. CASE r.pc \notin Handling /\ ~r.tool
    BY <2>2, AwayMinds DEF Minded, Mine
  <2> QED BY <2>1, <2>2
<1>2. Rested(j)'
  BY DEF Rested
<1> QED BY <1>1, <1>2, CareMine

\* The rows of the other jobs, when one is written.
LEMMA OthersKept ==
  ASSUME IInv, NEW j \in Jobs,
         item' = item \/ (\E x : item' = [item EXCEPT ![j] = x]),
         batch' = batch \/ (\E x : batch' = [batch EXCEPT ![j] = x]),
         msg' = msg \/ (\E x : msg' = [msg EXCEPT ![j] = x]),
         job' = job \/ (\E x : job' = [job EXCEPT ![j] = x])
  PROVE  \A k \in Jobs : k # j => Kept(k)
<1> SUFFICES ASSUME NEW k \in Jobs, k # j PROVE Kept(k)
  OBVIOUS
<1>1. item'[k] = item[k]
  BY DEF IInv, Shapes, ItemsShaped, Function
<1>2. batch'[k] = batch[k]
  BY DEF IInv, Shapes, BatchesShaped, Function
<1>3. msg'[k] = msg[k]
  BY DEF IInv, Shapes, MsgsShaped, Function
<1>4. job'[k] = job[k]
  BY DEF IInv, Shapes, JobsShaped
<1> QED BY <1>1, <1>2, <1>3, <1>4 DEF Kept

LEMMA Picked ==
  ASSUME IInv, NEW w \in Workers
  PROVE  \E j \in Jobs : Mine(w) = j
BY DEF IInv, Shapes, WorkersShaped, WorkerRow, Mine

LEMMA ItemWritten ==
  ASSUME IInv, NEW j \in Jobs, NEW x, item' = [item EXCEPT ![j] = x]
  PROVE  item'[j] = x
BY DEF IInv, Shapes, ItemsShaped, Function
LEMMA MsgWritten ==
  ASSUME IInv, NEW j \in Jobs, NEW x, msg' = [msg EXCEPT ![j] = x]
  PROVE  msg'[j] = x
BY DEF IInv, Shapes, MsgsShaped, Function
LEMMA BatchWritten ==
  ASSUME IInv, NEW j \in Jobs, NEW x, batch' = [batch EXCEPT ![j] = x]
  PROVE  batch'[j] = x
BY DEF IInv, Shapes, BatchesShaped, Function
LEMMA JobWritten ==
  ASSUME IInv, NEW j \in Jobs, NEW x, job' = [job EXCEPT ![j] = x]
  PROVE  job'[j] = x
BY DEF IInv, Shapes, JobsShaped

LEMMA RenewItemCare ==
  ASSUME IInv, Care, NEW w \in Workers, RenewItem(w)
  PROVE  Care'
<1>1. PICK j \in Jobs : Mine(w) = j
  BY Picked
<1> DEFINE row == [item[j] EXCEPT !.exp = FALSE]
<1>2. /\ item' = [item EXCEPT ![j] = row] /\ item[j].st = "running" /\ item[j].owner = w
      /\ UNCHANGED <<job, batch, msg, wk, hand, used>>
  BY <1>1 DEF RenewItem
<1>3. wk[w].pc \in AtItem
  BY <1>1 DEF RenewItem, Works, AtItem
<1>4. row.st = "running" /\ row.owner = w
  BY <1>2 DEF IInv, Shapes, ItemsShaped, ItemRow
<1> HIDE DEF row
<1>5. item'[j] = row /\ \A k \in Jobs : k # j => Kept(k)
  BY <1>2, ItemWritten, OthersKept
<1>6. Calmer /\ \A v \in Workers : v # w => Stays(v)
  BY <1>2 DEF Calmer, Stays
<1>7. Calm(j, used', hand') =>
        Minds(w, wk[w], row, msg'[j], job'[j]) /\ Rests(row, msg'[j], batch'[j], job'[j])
  <2> SUFFICES ASSUME Calm(Mine(w), used', hand')
               PROVE  Minds(w, wk[w], row, msg[j], job[j]) /\ Rests(row, msg[j], batch[j], job[j])
    BY <1>1, <1>2
  <2>1. /\ Minds(w, wk[w], item[j], msg[j], job[j]) /\ Rests(item[j], msg[j], batch[j], job[j])
        /\ msg[j].by = w
    BY <1>1, <1>3, <1>6, Knows DEF Handling
  <2>2. Minds(w, wk[w], row, msg[j], job[j])
    BY <1>3, <2>1 DEF Minds, AtItem
  <2>3. Rests(row, msg[j], batch[j], job[j])
    BY <1>2, <1>4, <2>1 DEF Rests
  <2> QED BY <2>2, <2>3
<1>8. wk[w].pc \in Handling /\ wk[w].job = j
  BY <1>1, <1>3 DEF Handling, Mine
<1> QED BY <1>1, <1>2, <1>5, <1>6, <1>7, <1>8, CareActs

LEMMA CheckpointCare ==
  ASSUME IInv, Care, NEW w \in Workers, Checkpoint(w)
  PROVE  Care'
<1>1. wk[w].pc \in AtItem /\ wk[w].pc \in Handling
  BY DEF Checkpoint, At, AtItem, Handling
<1>2. CASE ~wk[w].fresh
  <2>1. LocalStep(w, Failing(w, TRUE))
    BY <1>2 DEF Checkpoint
  <2> QED BY <1>1, <2>1, FailingCare
<1>3. CASE wk[w].fresh
  <2>1. PICK j \in Jobs : Mine(w) = j
    BY Picked
  <2> DEFINE done == wk[w].done + 1
             row == [item[j] EXCEPT !.done = done, !.exp = FALSE]
             pc == IF done = Stages THEN "publish" ELSE "stage"
             mine == [Goto(w, pc) EXCEPT !.done = done]
  <2>2. /\ item' = [item EXCEPT ![j].done = done, ![j].exp = FALSE]
        /\ wk' = [wk EXCEPT ![w] = mine]
        /\ UNCHANGED <<job, batch, msg, hand, used>>
    BY <1>3, <2>1 DEF Checkpoint
  <2>3. item' = [item EXCEPT ![j] = row]
    BY <2>2 DEF IInv, Shapes, ItemsShaped, Function
  <2>4. row.st = item[j].st /\ row.owner = item[j].owner
    BY DEF IInv, Shapes, ItemsShaped, ItemRow
  <2>5. mine.job = j /\ mine.pc \in {"publish", "stage"} /\ mine.tool = wk[w].tool
    BY <2>1 DEF IInv, Shapes, WorkersShaped, WorkerRow, Goto, Mine
  <2> HIDE DEF row, mine
  <2>6. item'[j] = row /\ \A k \in Jobs : k # j => Kept(k)
    BY <2>2, <2>3, ItemWritten, OthersKept
  <2>7. Calmer /\ wk'[w] = mine /\ \A v \in Workers : v # w => Stays(v)
    BY <2>2, OthersStay DEF Calmer
  <2>8. Calm(j, used', hand') =>
          Minds(w, mine, row, msg'[j], job'[j]) /\ Rests(row, msg'[j], batch'[j], job'[j])
    <3> SUFFICES ASSUME Calm(Mine(w), used', hand')
                 PROVE  Minds(w, mine, row, msg[j], job[j]) /\ Rests(row, msg[j], batch[j], job[j])
      BY <2>1, <2>2
    <3>1. Rests(item[j], msg[j], batch[j], job[j]) /\ msg[j].by = w
      BY <1>1, <2>1, <2>7, Knows
    <3>2. ~wk[w].tool /\ item[j].st = "running" /\ item[j].owner = w
      BY <1>1, <2>1, <2>7, KnowsItem
    <3>3. Minds(w, mine, row, msg[j], job[j])
      BY <2>5, <3>1, <3>2 DEF Minds
    <3>4. Rests(row, msg[j], batch[j], job[j])
      BY <2>4, <3>1, <3>2 DEF Rests
    <3> QED BY <3>3, <3>4
  <2> QED BY <1>1, <2>1, <2>5, <2>6, <2>7, <2>8, CareActs
<1> QED BY <1>2, <1>3

\* Where a worker goes that is done with its item.
LEMMA NextSays ==
  ASSUME IInv, NEW w \in Workers
  PROVE  /\ NextItem(w).job = Mine(w) /\ NextItem(w).tool = wk[w].tool
         /\ NextItem(w).pc = IF wk[w].tool THEN "claim" ELSE "refresh"
         /\ NextItem(w).act = wk[w].act
         /\ Raised(w).job = Mine(w) \/ (Raised(w).pc \notin Handling /\ ~Raised(w).tool)
<1>1. IdleWorker.pc \notin Handling /\ ~IdleWorker.tool
  BY IdleSays DEF Handling, AtItem
<1> QED BY <1>1, GotoSays DEF NextItem, Raised

\* A holder that ends its item as st, which is open or has its verdict.
LEMMA EndCare ==
  ASSUME IInv, Care, Calmer, NEW w \in Workers, wk[w].pc \in AtItem,
         NEW j \in Jobs, Mine(w) = j, wk' = [wk EXCEPT ![w] = NextItem(w)],
         NEW row, item' = [item EXCEPT ![j] = row], row.st # "running",
         UNCHANGED <<batch, msg>>,
         job' = job \/ (\E x : job' = [job EXCEPT ![j] = x]),
         Calm(j, used', hand') =>
           job'[j] # "running" \/ (job[j] = "running" /\ row.st \in Active)
  PROVE  Care'
<1> DEFINE next == NextItem(w)
<1>1. item'[j] = row /\ \A k \in Jobs : k # j => Kept(k)
  BY ItemWritten, OthersKept
<1>2. next.job = j /\ (~wk[w].tool => next.pc = "refresh" /\ ~next.tool)
  BY NextSays
<1> HIDE DEF next
<1>3. wk'[w] = next /\ \A v \in Workers : v # w => Stays(v)
  BY OthersStay DEF next
<1>4. ASSUME Calm(j, used', hand')
      PROVE  Minds(w, next, row, msg'[j], job'[j]) /\ Rests(row, msg'[j], batch'[j], job'[j])
  <2>0. Calm(Mine(w), used', hand')
    BY <1>4
  <2>1. Rests(item[j], msg[j], batch[j], job[j]) /\ msg[j].by = w /\ msg[j].st = "leased"
    BY <2>0, Knows DEF Handling
  <2>2. ~wk[w].tool /\ item[j].st = "running"
    BY <2>0, KnowsItem
  <2>3. Minds(w, next, row, msg'[j], job'[j])
    BY <1>2, <2>1, <2>2 DEF Minds
  <2>4. Rests(row, msg'[j], batch'[j], job'[j])
    BY <1>4, <2>1, <2>2 DEF Rests, Active
  <2> QED BY <2>3, <2>4
<1>5. wk[w].pc \in Handling
  BY DEF Handling
<1> QED BY <1>1, <1>2, <1>3, <1>4, <1>5, CareActs

\* The row of an item that ended, as the actions write it.
LEMMA EndedItem ==
  ASSUME IInv, NEW j \in Jobs, NEW st,
         \/ item' = Ended(<<j, st>>)
         \/ item' = [Ended(<<j, st>>) EXCEPT ![j].due = FALSE]
  PROVE  \E row : item' = [item EXCEPT ![j] = row] /\ row.st = st
<1>1. /\ item = [k \in Jobs |-> item[k]] /\ ItemRow(item[j])
  BY DEF IInv, Shapes, ItemsShaped, Function
<1> DEFINE row == [item[j] EXCEPT !.st = st, !.owner = NoWorker, !.exp = FALSE]
           later == [row EXCEPT !.due = FALSE]
<1>2. row.st = st /\ later.st = st
  BY <1>1 DEF ItemRow
<1>3. Ended(<<j, st>>) = [item EXCEPT ![j] = row]
  BY <1>1 DEF Ended
<1> HIDE DEF row
<1>4. [Ended(<<j, st>>) EXCEPT ![j].due = FALSE] = [item EXCEPT ![j] = later]
  BY <1>1, <1>3
<1> HIDE DEF later
<1>5. CASE item' = Ended(<<j, st>>)
  BY <1>2, <1>3, <1>5
<1>6. CASE item' = [Ended(<<j, st>>) EXCEPT ![j].due = FALSE]
  BY <1>2, <1>4, <1>6
<1> QED BY <1>5, <1>6

LEMMA MarkCancelledCare ==
  ASSUME IInv, Care, NEW w \in Workers, MarkCancelled(w)
  PROVE  Care'
<1>1. wk[w].pc \in AtItem /\ wk[w].pc \in {"cancel", "abort"}
  BY DEF MarkCancelled, At, AtItem
<1>2. UNCHANGED <<job, batch, msg, hand, used>>
  BY DEF MarkCancelled, LocalStep
<1>3. ~Calm(Mine(w), used', hand') /\ ~Calm(Mine(w), used, hand)
  BY <1>1, <1>2, KnowsItem DEF Calmer
<1>4. CASE wk[w].fresh
  <2>1. PICK j \in Jobs : Mine(w) = j
    BY Picked
  <2>2. item' = Ended(<<j, "cancelled">>)
    BY <1>4, <2>1 DEF MarkCancelled
  <2>4. PICK row : item' = [item EXCEPT ![j] = row] /\ row.st = "cancelled"
    BY ONLY IInv, j \in Jobs, <2>2, EndedItem
  <2>3. wk' = [wk EXCEPT ![w] = NextItem(w)]
    BY <1>4 DEF MarkCancelled
  <2>5. row.st # "running" /\ Calmer
    BY <1>2, <2>4 DEF Calmer
  <2> QED BY <1>1, <1>2, <1>3, <2>1, <2>3, <2>4, <2>5, EndCare
<1>5. CASE ~wk[w].fresh
  <2>1. LocalStep(w, Failing(w, TRUE)) \/ LocalStep(w, Raised(w))
    BY <1>5 DEF MarkCancelled
  <2>2. CASE LocalStep(w, Failing(w, TRUE))
    BY <1>1, <2>2, FailingCare
  <2>3. CASE LocalStep(w, Raised(w))
    <3>1. Calm(Raised(w).job, used, hand) =>
            Minds(w, Raised(w), item[Raised(w).job], msg[Raised(w).job], job[Raised(w).job])
      BY <1>3, NextSays, AwayMinds
    <3> QED BY <2>3, <3>1, LocalCare
  <2> QED BY <2>1, <2>2, <2>3
<1> QED BY <1>4, <1>5

LEMMA PublishCare ==
  ASSUME IInv, Care, NEW w \in Workers, Publish(w)
  PROVE  Care'
<1>1. wk[w].pc \in AtItem
  BY DEF Publish, At, AtItem
<1>2. CASE ~MayPublish(w)
  <2>1. LocalStep(w, Failing(w, TRUE))
    BY <1>2 DEF Publish
  <2> QED BY <1>1, <2>1, FailingCare
<1>3. CASE MayPublish(w)
  <2>1. PICK j \in Jobs : Mine(w) = j
    BY Picked
  <2>2. PICK st \in {"ready", "awaiting_review"} : item' = Ended(<<j, st>>)
    BY <1>3, <2>1 DEF Publish
  <2>3. /\ job' = [job EXCEPT ![j] = "succeeded"] /\ wk' = [wk EXCEPT ![w] = NextItem(w)]
        /\ UNCHANGED <<batch, msg, hand, used>>
    BY <1>3, <2>1 DEF Publish
  <2>4. PICK row : item' = [item EXCEPT ![j] = row] /\ row.st = st
    BY ONLY IInv, j \in Jobs, <2>2, EndedItem
  <2>5. Calmer /\ job'[j] # "running" /\ row.st # "running"
    BY <2>3, <2>4, JobWritten DEF Calmer
  <2> QED BY <1>1, <2>1, <2>3, <2>4, <2>5, EndCare
<1> QED BY <1>2, <1>3

LEMMA MarkFailureCare ==
  ASSUME IInv, Care, NEW w \in Workers, MarkFailure(w)
  PROVE  Care'
<1>1. PICK j \in Jobs : Mine(w) = j
  BY Picked
<1>2. /\ wk[w].pc \in AtItem /\ wk[w].pc \in Handling
      /\ UNCHANGED <<batch, msg, hand, used>>
  BY DEF MarkFailure, At, AtItem, Handling
<1>3. Calmer
  BY <1>2 DEF Calmer
<1>4. /\ job' = job \/ (\E x : job' = [job EXCEPT ![j] = x])
      /\ ~Retries(w) => job'[j] = "failed"
      /\ Retries(w) => job' = job
  BY <1>1, JobWritten DEF MarkFailure, GivesUp
<1>5. CASE wk[w].fresh
  <2>1. wk' = [wk EXCEPT ![w] = NextItem(w)]
    BY <1>5 DEF MarkFailure
  <2> DEFINE st == IF Retries(w) THEN "retry_wait" ELSE "failed"
  <2>0. \/ item' = Ended(<<j, st>>)
        \/ item' = [Ended(<<j, st>>) EXCEPT ![j].due = FALSE]
    BY <1>1, <1>5 DEF MarkFailure
  <2>2. PICK row : item' = [item EXCEPT ![j] = row] /\ row.st = st
    <3> HIDE DEF st
    <3> QED BY ONLY IInv, j \in Jobs, <2>0, EndedItem
  <2>3. job'[j] # "running" \/ (job[j] = "running" /\ row.st \in Active)
    BY <1>4, <2>2 DEF Active
  <2>4. row.st # "running"
    BY <2>2
  <2> QED BY <1>1, <1>2, <1>3, <1>4, <2>1, <2>2, <2>3, <2>4, EndCare
<1>6. CASE ~wk[w].fresh
  <2>1. UNCHANGED item /\ wk' = [wk EXCEPT ![w] = Raised(w)]
    BY <1>6 DEF MarkFailure
  <2>2. ~Calm(Mine(w), used', hand')
    BY <1>2, <1>3, <1>6, KnowsItem
  <2>3. \A k \in Jobs : k # j => Kept(k)
    BY <1>2, <1>4, <2>1, OthersKept
  <2>4. wk'[w] = Raised(w) /\ \A v \in Workers : v # w => Stays(v)
    BY <2>1, OthersStay
  <2> QED BY <1>1, <1>2, <1>3, <2>2, <2>3, <2>4, NextSays, CareActs
<1> QED BY <1>5, <1>6

LEMMA RefreshCare ==
  ASSUME IInv, Care, NEW w \in Workers, Refresh(w)
  PROVE  Care'
<1>1. PICK j \in Jobs : Mine(w) = j
  BY Picked
<1> DEFINE act == IF Pending(j) THEN "release" ELSE "ack"
           after == [Goto(w, "settle") EXCEPT !.act = act]
           row == IF wk[w].tool THEN IdleWorker ELSE after
           seen == [batch[j] EXCEPT !.st = BatchStatus(item[j].st)]
<1>2. /\ batch' = [batch EXCEPT ![j] = seen] /\ wk' = [wk EXCEPT ![w] = row]
      /\ UNCHANGED <<job, item, msg, hand, used>> /\ wk[w].pc = "refresh"
  BY <1>1 DEF Refresh, At
<1>3. seen.st = BatchStatus(item[j].st)
  BY DEF IInv, Shapes, BatchesShaped, BatchRow
<1>4. after.pc = "settle" /\ after.job = j /\ after.tool = wk[w].tool /\ after.act = act
  BY <1>1, GotoSays
<1>5. IdleWorker.pc \notin Handling /\ ~IdleWorker.tool
  BY IdleSays DEF Handling, AtItem
<1>6. act = "ack" => item[j].st \notin {"pending", "retry_wait"}
  BY DEF Pending
<1> HIDE DEF after, seen, act
<1>7. /\ row.job = j \/ (row.pc \notin Handling /\ ~row.tool)
      /\ ~wk[w].tool => row = after
  BY <1>4, <1>5
<1> HIDE DEF row
<1>8. batch'[j] = seen /\ \A k \in Jobs : k # j => Kept(k)
  BY <1>2, BatchWritten, OthersKept
<1>9. Calmer /\ wk'[w] = row /\ \A v \in Workers : v # w => Stays(v)
  BY <1>2, OthersStay DEF Calmer
<1>10. wk[w].pc \in Handling
  BY <1>2 DEF Handling
<1>11. ASSUME Calm(j, used', hand')
       PROVE  Minds(w, row, item'[j], msg'[j], job'[j]) /\ Rests(item'[j], msg'[j], seen, job'[j])
  <2>1. /\ Minds(w, wk[w], item[j], msg[j], job[j]) /\ Rests(item[j], msg[j], batch[j], job[j])
        /\ msg[j].by = w
    BY <1>1, <1>9, <1>10, <1>11, Knows
  <2>2. ~wk[w].tool /\ item[j].st # "running"
    BY <1>2, <2>1 DEF Minds
  <2>3. act = "ack" => job[j] # "running"
    BY <1>6, <2>1, <2>2 DEF Rests, Active
  <2>4. Minds(w, row, item[j], msg[j], job[j])
    BY <1>4, <1>7, <2>1, <2>2, <2>3 DEF Minds
  <2>5. item[j].st \in Active => seen.st \notin Stopped
    BY <1>3 DEF BatchStatus, Stopped, Active
  <2>6. Rests(item[j], msg[j], seen, job[j])
    BY <2>1, <2>5 DEF Rests
  <2> QED BY <1>2, <2>4, <2>6
<1> QED BY <1>1, <1>7, <1>8, <1>9, <1>10, <1>11, CareActs

LEMMA SettleCare ==
  ASSUME IInv, Care, NEW w \in Workers, Settle(w)
  PROVE  Care'
<1>1. PICK j \in Jobs : Mine(w) = j
  BY Picked
<1> DEFINE st == IF wk[w].act = "ack" THEN "done" ELSE "ready"
           left == [msg[j] EXCEPT !.st = st, !.by = NoWorker]
           row == Goto(w, "resume")
<1>2. /\ wk' = [wk EXCEPT ![w] = row] /\ wk[w].pc = "settle"
      /\ UNCHANGED <<job, batch, item, hand, used>>
      /\ HoldsMsg(w) => msg' = [msg EXCEPT ![j] = left]
      /\ ~HoldsMsg(w) => msg' = msg
  BY <1>1 DEF Settle, At
<1>3. left.st = st /\ left.by = NoWorker
  BY DEF IInv, Shapes, MsgsShaped, MsgRow
<1>4. row.pc = "resume" /\ row.job = j /\ row.tool = wk[w].tool
  BY <1>1, GotoSays
<1> HIDE DEF left, row
<1>5. (HoldsMsg(w) => msg'[j] = left) /\ \A k \in Jobs : k # j => Kept(k)
  BY <1>2, MsgWritten, OthersKept
<1>6. Calmer /\ wk'[w] = row /\ \A v \in Workers : v # w => Stays(v)
  BY <1>2, OthersStay DEF Calmer
<1>7. wk[w].pc \in Handling
  BY <1>2 DEF Handling
<1>8. ASSUME Calm(j, used', hand')
      PROVE  Minds(w, row, item'[j], msg'[j], job'[j]) /\ Rests(item'[j], msg'[j], batch'[j], job'[j])
  <2>1. /\ Minds(w, wk[w], item[j], msg[j], job[j]) /\ Rests(item[j], msg[j], batch[j], job[j])
        /\ msg[j].by = w /\ msg[j].st = "leased"
    BY <1>1, <1>6, <1>7, <1>8, Knows
  <2>2. ~wk[w].tool /\ item[j].st # "running" /\ (wk[w].act = "ack" => job[j] # "running")
    BY <1>2, <2>1 DEF Minds
  <2>3. msg'[j] = left
    BY <1>1, <1>5, <2>1 DEF HoldsMsg
  <2>4. Minds(w, row, item[j], left, job[j])
    BY <1>4, <2>2, AwayMinds DEF Handling, AtItem
  <2>5. Rests(item[j], left, batch[j], job[j])
    BY <1>3, <2>1, <2>2 DEF Rests
  <2> QED BY <1>2, <2>3, <2>4, <2>5
<1> QED BY <1>1, <1>4, <1>5, <1>6, <1>7, <1>8, CareActs

LEMMA ClaimCare ==
  ASSUME IInv, Care, NEW w \in Workers, Claim(w)
  PROVE  Care'
<1>1. PICK j \in Jobs : Mine(w) = j
  BY Picked
<1>2. wk[w].pc = "claim" /\ wk[w].pc \in Handling
  BY DEF Claim, At, Handling
<1>3. CASE ~Claimable(j)
  <2> DEFINE row == Goto(w, "refresh")
  <2>1. LocalStep(w, row)
    BY <1>1, <1>3 DEF Claim
  <2>2. row.pc = "refresh" /\ row.job = j /\ row.tool = wk[w].tool
    BY <1>1, GotoSays
  <2> HIDE DEF row
  <2>3. ASSUME Calm(j, used, hand)
        PROVE  Minds(w, row, item[j], msg[j], job[j])
    <3>1. Calmer /\ Calm(Mine(w), used', hand')
      BY <1>1, <2>1, <2>3 DEF LocalStep, Calmer
    <3>2. /\ Minds(w, wk[w], item[j], msg[j], job[j])
          /\ Rests(item[j], msg[j], batch[j], job[j]) /\ msg[j].by = w
      BY <1>1, <1>2, <3>1, Knows
    <3>3. item[j].st # "running"
      BY <1>2, <1>3, <3>2 DEF Minds, Rests, Claimable, Active
    <3> QED BY <2>2, <3>2, <3>3 DEF Minds
  <2> QED BY <2>1, <2>2, <2>3, LocalCare
<1>4. CASE Claimable(j)
  <2> DEFINE row == [item[j] EXCEPT !.st = "running", !.att = item[j].att + 1,
                                    !.owner = w, !.exp = FALSE]
             seen == [batch[j] EXCEPT !.st = IF @ = "pending" THEN "running" ELSE @]
             pc == IF item[j].done = Stages THEN "publish" ELSE "stage"
             mine == [Goto(w, pc) EXCEPT
                        !.fresh = TRUE, !.att = item[j].att + 1,
                        !.done = item[j].done, !.rights = Asset(w).rights]
  <2>1. /\ item' = [item EXCEPT ![j] = row] /\ batch' = [batch EXCEPT ![j] = seen]
        /\ wk' = [Outdated({j}) EXCEPT ![w] = mine]
        /\ UNCHANGED <<job, msg, hand, used>>
    BY <1>1, <1>4 DEF Claim, TakenOver, IInv, Shapes, ItemsShaped, BatchesShaped, Function
  <2>2. row.st = "running" /\ row.owner = w
    BY DEF IInv, Shapes, ItemsShaped, ItemRow
  <2>3. seen.st \notin Stopped
    BY <1>4 DEF Claimable, Stopped, IInv, Shapes, BatchesShaped, BatchRow
  <2>4. mine.job = j /\ mine.pc \in {"publish", "stage"} /\ mine.tool = wk[w].tool
    BY <1>1 DEF IInv, Shapes, WorkersShaped, WorkerRow, Goto, Mine
  <2> HIDE DEF row, seen, mine
  <2>5. /\ item'[j] = row /\ batch'[j] = seen /\ \A k \in Jobs : k # j => Kept(k)
    BY <2>1, ItemWritten, BatchWritten, OthersKept
  <2>6. wk'[w] = mine /\ \A v \in Workers : v # w => wk'[v] = Late(wk[v], {j})
    BY <2>1, OutdatedRows DEF Function
  <2>7. \A v \in Workers : v # w => Stays(v)
    <3> SUFFICES ASSUME NEW v \in Workers, v # w PROVE Stays(v)
      OBVIOUS
    <3>1. WorkerRow(wk[v])
      BY DEF IInv, Shapes, WorkersShaped
    <3> QED BY <2>6, <3>1 DEF Stays, Late, WorkerRow
  <2>8. Calmer
    BY <2>1 DEF Calmer
  <2>9. ASSUME Calm(j, used', hand')
        PROVE  Minds(w, mine, row, msg'[j], job'[j]) /\ Rests(row, msg'[j], seen, job'[j])
    <3>1. /\ Minds(w, wk[w], item[j], msg[j], job[j])
          /\ Rests(item[j], msg[j], batch[j], job[j])
          /\ msg[j].by = w /\ msg[j].st = "leased"
      BY <1>1, <1>2, <2>8, <2>9, Knows
    <3>2. Minds(w, mine, row, msg[j], job[j])
      BY <2>4, <3>1 DEF Minds
    <3>3. Rests(row, msg[j], seen, job[j])
      BY <2>2, <2>3, <3>1 DEF Rests, Active
    <3> QED BY <2>1, <3>2, <3>3
  <2> QED BY <1>1, <1>2, <2>4, <2>5, <2>6, <2>7, <2>8, <2>9, CareActs
<1> QED BY <1>3, <1>4

LEMMA ServeCare ==
  ASSUME IInv, Care, NEW w \in Workers, Serve(w)
  PROVE  Care'
<1>1. PICK j \in Jobs : Mine(w) = j
  BY Picked
<1>2. wk[w].pc = "serve" /\ wk[w].pc \in Handling
  BY DEF Serve, At, Handling
<1>3. (batch[j].st = "none") = (item[j].st = "none")
  BY DEF IInv, Together
<1> DEFINE settle(act) == [Goto(w, "settle") EXCEPT !.act = act]
           next == Goto(w, "claim")
<1>4. next.pc = "claim" /\ next.job = j /\ next.tool = wk[w].tool
  BY <1>1, GotoSays
<1>5. ASSUME NEW act
      PROVE  /\ settle(act).pc = "settle" /\ settle(act).job = j
             /\ settle(act).tool = wk[w].tool
  BY <1>1, GotoSays
<1> HIDE DEF settle, next
<1>6. ASSUME NEW row, LocalStep(w, row), row.job = j, row.tool = wk[w].tool,
             row.pc = "claim" \/ (row.pc = "settle" /\ batch[j].st = "none")
      PROVE  Care'
  <2>1. ASSUME Calm(j, used, hand)
        PROVE  Minds(w, row, item[j], msg[j], job[j])
    <3>1. Calmer /\ Calm(Mine(w), used', hand')
      BY <1>1, <1>6, <2>1 DEF LocalStep, Calmer
    <3>2. /\ Minds(w, wk[w], item[j], msg[j], job[j])
          /\ Rests(item[j], msg[j], batch[j], job[j]) /\ msg[j].by = w
      BY <1>1, <1>2, <3>1, Knows
    <3>3. row.pc = "settle" => item[j].st = "none" /\ job[j] # "running"
      BY <1>3, <1>6, <3>2 DEF Rests, Active
    <3> QED BY <1>2, <1>6, <3>2, <3>3 DEF Minds
  <2> QED BY <1>6, <2>1, LocalCare
<1>7. ASSUME item' = [k \in Jobs |->
                        IF k = j THEN [NoItem EXCEPT !.st = "pending"]
                        ELSE IF k \in Superseded(j) THEN [item[k] EXCEPT !.st = "cancelled"]
                        ELSE item[k]],
             batch' = [batch EXCEPT ![j].st = "pending"],
             job' = [job EXCEPT ![j] = "running"],
             wk' = [Outdated(Superseded(j)) EXCEPT ![w] = next],
             UNCHANGED <<msg, hand, used>>
      PROVE  Care'
  <2> DEFINE new == [NoItem EXCEPT !.st = "pending"]
  <2>1. item'[j] = new /\ new.st = "pending"
    BY <1>7 DEF NoItem
  <2>2. batch'[j].st = "pending"
    BY <1>7 DEF IInv, Shapes, BatchesShaped, Function, BatchRow
  <2>3. \A k \in Jobs : k # j => Kept(k)
    <3> SUFFICES ASSUME NEW k \in Jobs, k # j PROVE Kept(k)
      OBVIOUS
    <3>1. batch'[k] = batch[k] /\ job'[k] = job[k] /\ msg'[k] = msg[k]
      BY <1>7 DEF IInv, Shapes, BatchesShaped, JobsShaped, Function
    <3>2. CASE k \notin Superseded(j)
      <4>1. item'[k] = item[k]
        BY <1>7, <3>2
      <4> QED BY <3>1, <4>1 DEF Kept
    <3>3. CASE k \in Superseded(j)
      <4>1. item[k].st = "awaiting_review"
        BY <3>3 DEF Superseded
      <4>2. item'[k].st = "cancelled"
        BY <1>7, <3>3 DEF IInv, Shapes, ItemsShaped, ItemRow
      <4> QED BY <3>1, <4>1, <4>2 DEF Kept, Active
    <3> QED BY <3>2, <3>3
  <2>4. wk'[w] = next /\ \A v \in Workers : v # w => wk'[v] = Late(wk[v], Superseded(j))
    BY <1>7, OutdatedRows DEF Function
  <2>5. \A v \in Workers : v # w => Stays(v)
    <3> SUFFICES ASSUME NEW v \in Workers, v # w PROVE Stays(v)
      OBVIOUS
    <3>1. WorkerRow(wk[v])
      BY DEF IInv, Shapes, WorkersShaped
    <3> QED BY <2>4, <3>1 DEF Stays, Late, WorkerRow
  <2>6. Calmer
    BY <1>7 DEF Calmer
  <2> HIDE DEF new
  <2>7. ASSUME Calm(j, used', hand')
        PROVE  Minds(w, next, new, msg'[j], job'[j]) /\ Rests(new, msg'[j], batch'[j], job'[j])
    <3>1. Minds(w, wk[w], item[j], msg[j], job[j]) /\ msg[j].by = w /\ msg[j].st = "leased"
      BY <1>1, <1>2, <2>6, <2>7, Knows
    <3>2. Minds(w, next, new, msg[j], job'[j])
      BY <1>4, <2>1, <3>1 DEF Minds
    <3>3. Rests(new, msg[j], batch'[j], job'[j])
      BY <2>1, <2>2, <3>1 DEF Rests, Active, Stopped
    <3> QED BY <1>7, <3>2, <3>3
  <2> QED BY <1>1, <1>2, <1>4, <2>1, <2>3, <2>4, <2>5, <2>6, <2>7, CareActs
<1>8. \/ LocalStep(w, next)
      \/ batch[j].st = "none" /\ LocalStep(w, settle("ack"))
      \/ batch[j].st = "none" /\ LocalStep(w, settle("release"))
      \/ /\ item' = [k \in Jobs |->
                        IF k = j THEN [NoItem EXCEPT !.st = "pending"]
                        ELSE IF k \in Superseded(j) THEN [item[k] EXCEPT !.st = "cancelled"]
                        ELSE item[k]]
         /\ batch' = [batch EXCEPT ![j].st = "pending"]
         /\ job' = [job EXCEPT ![j] = "running"]
         /\ wk' = [Outdated(Superseded(j)) EXCEPT ![w] = next]
         /\ UNCHANGED <<msg, hand, used>>
  BY <1>1 DEF Serve, settle, next
<1> QED BY <1>4, <1>5, <1>6, <1>7, <1>8

LEMMA ReserveCare ==
  ASSUME IInv, Care, NEW w \in Workers, Reserve(w)
  PROVE  Care'
<1>1. PICK j \in Jobs :
        /\ msg[j].st = "ready"
        /\ IF msg[j].n < Deliveries
           THEN /\ msg' = [msg EXCEPT ![j] = [st |-> "leased", by |-> w, n |-> @.n + 1]]
                /\ wk' = [wk EXCEPT ![w] = [IdleWorker EXCEPT !.pc = "serve", !.job = j]]
           ELSE msg' = [msg EXCEPT ![j].st = "failed"] /\ UNCHANGED wk
  BY DEF Reserve
<1>2. UNCHANGED <<job, batch, item, hand, used>>
  BY DEF Reserve
<1>3. MsgRow(msg[j]) /\ ItemRow(item[j]) /\ msg[j].by = NoWorker
  BY <1>1 DEF IInv, Shapes, MsgsShaped, ItemsShaped, MsgRow
<1>4. Calmer
  BY <1>2 DEF Calmer
<1>5. Calm(j, used', hand') =>
        /\ Rests(item[j], msg[j], batch[j], job[j])
        /\ \A v \in Workers : ~(wk[v].pc \in Handling /\ Mine(v) = j)
  <2> SUFFICES ASSUME Calm(j, used', hand')
               PROVE  /\ Rests(item[j], msg[j], batch[j], job[j])
                      /\ \A v \in Workers : ~(wk[v].pc \in Handling /\ Mine(v) = j)
    OBVIOUS
  <2>1. Rests(item[j], msg[j], batch[j], job[j])
    BY <1>2 DEF Care, Rested, Calm
  <2>2. ASSUME NEW v \in Workers, wk[v].pc \in Handling, Mine(v) = j
        PROVE  FALSE
    BY <1>1, <1>4, <2>2, Knows
  <2> QED BY <2>1, <2>2
<1>6. CASE msg[j].n < Deliveries
  <2> DEFINE row == [IdleWorker EXCEPT !.pc = "serve", !.job = j]
             sent == [st |-> "leased", by |-> w, n |-> msg[j].n + 1]
  <2>1. wk' = [wk EXCEPT ![w] = row] /\ msg' = [msg EXCEPT ![j] = sent]
    BY <1>1, <1>6
  <2>2. row.pc = "serve" /\ row.job = j /\ ~row.tool
    BY IdleSays
  <2>3. sent.st = "leased" /\ sent.by = w
    OBVIOUS
  <2> HIDE DEF row, sent
  <2>4. msg'[j] = sent /\ \A k \in Jobs : k # j => Kept(k)
    BY <1>2, <2>1, MsgWritten, OthersKept
  <2>5. wk'[w] = row /\ \A v \in Workers : v # w => Stays(v)
    BY <2>1, OthersStay
  <2>6. ASSUME Calm(j, used', hand')
        PROVE  Minds(w, row, item[j], sent, job[j]) /\ Rests(item[j], sent, batch[j], job[j])
    <3>1. Rests(item[j], msg[j], batch[j], job[j])
      BY <1>5, <2>6
    <3>2. item[j].st = "running" => item[j].exp
      BY <1>3, <3>1 DEF Rests, ItemRow
    <3>3. Minds(w, row, item[j], sent, job[j])
      BY <2>2, <2>3, <3>2 DEF Minds
    <3>4. Rests(item[j], sent, batch[j], job[j])
      BY <2>3, <3>1, <3>2 DEF Rests
    <3> QED BY <3>3, <3>4
  <2>7. Rested(j)'
    BY <1>2, <2>4, <2>6 DEF Rested
  <2>8. ASSUME NEW v \in Workers
        PROVE  Minded(v)'
    <3>1. CASE v = w
      BY <1>2, <2>2, <2>4, <2>5, <2>6, <3>1 DEF Minded, Mine
    <3>2. CASE v # w /\ (wk[v].pc \in Handling => Kept(wk[v].job))
      BY <1>4, <2>5, <3>2, MindedKept
    <3>3. CASE v # w /\ wk[v].pc \in Handling /\ ~Kept(wk[v].job)
      <4>1. wk[v].job \in Jobs
        BY DEF IInv, Shapes, WorkersShaped, WorkerRow
      <4>2. wk[v].job = j /\ wk'[v].job = j
        BY <2>4, <2>5, <3>3, <4>1 DEF Stays
      <4>3. ~Calm(j, used', hand')
        BY <1>5, <3>3, <4>2 DEF Mine
      <4> QED BY <4>2, <4>3 DEF Minded, Mine
    <3> QED BY <3>1, <3>2, <3>3
  <2>9. \A k \in Jobs : Rested(k)'
    BY <1>4, <2>4, <2>7, RestedKept
  <2> QED BY <2>8, <2>9 DEF Care
<1>7. CASE ~(msg[j].n < Deliveries)
  <2> DEFINE lost == [msg[j] EXCEPT !.st = "failed"]
  <2>1. msg' = [msg EXCEPT ![j] = lost] /\ UNCHANGED wk
    BY <1>1, <1>7
  <2>2. lost.st = "failed" /\ lost.by = msg[j].by
    BY <1>3 DEF MsgRow
  <2> HIDE DEF lost
  <2>3. msg'[j] = lost /\ \A k \in Jobs : k # j => Kept(k)
    BY <1>2, <2>1, MsgWritten, OthersKept
  <2>4. Calm(j, used', hand') => Rests(item[j], lost, batch[j], job[j])
    BY <1>5, <2>2 DEF Rests
  <2>5. Rested(j)'
    BY <1>2, <2>3, <2>4 DEF Rested
  <2>6. \A v \in Workers : Stays(v)
    BY <2>1 DEF Stays
  <2> QED BY <1>4, <1>5, <2>3, <2>5, <2>6, CareStays
<1> QED BY <1>6, <1>7

\* A delivery that was in nobody's hands becomes ready.
LEMMA ReadyCare ==
  ASSUME IInv, Care, Calmer, NEW j \in Jobs, NEW row, msg' = [msg EXCEPT ![j] = row],
         row.st = "ready", UNCHANGED <<job, batch, item, wk>>,
         Calm(j, used', hand') =>
           /\ \A v \in Workers : ~(wk[v].pc \in Handling /\ Mine(v) = j)
           /\ item[j].st = "running" => item[j].exp
  PROVE  Care'
<1>1. msg'[j] = row /\ \A k \in Jobs : k # j => Kept(k)
  BY MsgWritten, OthersKept
<1>2. ASSUME Calm(j, used', hand')
      PROVE  Rests(item[j], row, batch[j], job[j])
  <2>1. Rests(item[j], msg[j], batch[j], job[j])
    BY <1>2 DEF Care, Rested, Calm, Calmer
  <2> QED BY <1>2, <2>1 DEF Rests
<1>3. Rested(j)'
  BY <1>1, <1>2 DEF Rested
<1>4. \A v \in Workers : Stays(v)
  BY DEF Stays
<1> QED BY <1>1, <1>3, <1>4, CareStays

LEMMA MsgLeaseLapsesCare ==
  ASSUME IInv, Care, NEW j \in Jobs, MsgLeaseLapses(j)
  PROVE  Care'
<1> DEFINE back == [msg[j] EXCEPT !.st = "ready", !.by = NoWorker]
           live == msg[j].by \in Workers /\ Handles(msg[j].by, j)
<1>1. /\ msg' = [msg EXCEPT ![j] = back] /\ msg[j].st = "leased"
      /\ live \/ EndsAfterItem(j)
      /\ Lapse(live)
      /\ UNCHANGED <<job, batch, item, wk, hand>>
  BY DEF MsgLeaseLapses
<1>2. back.st = "ready"
  BY DEF IInv, Shapes, MsgsShaped, MsgRow
<1>3. used'.lapse = 0 => used.lapse = 0 /\ ~live
  BY <1>1, SpendGrows DEF Lapse, Events
<1>4. Calmer
  BY <1>1, <1>3 DEF Calmer
<1>5. ASSUME Calm(j, used', hand')
      PROVE  /\ \A v \in Workers : ~(wk[v].pc \in Handling /\ Mine(v) = j)
             /\ item[j].st = "running" => item[j].exp
  <2>1. ~live /\ EndsAfterItem(j)
    BY <1>1, <1>3, <1>5 DEF Calm
  <2>2. Rests(item[j], msg[j], batch[j], job[j])
    BY <1>4, <1>5 DEF Care, Rested, Calm, Calmer
  <2>3. item[j].st = "running" => item[j].exp
    BY <2>1, <2>2 DEF Rests, EndsAfterItem, IInv, Shapes, ItemsShaped, ItemRow
  <2>4. ASSUME NEW v \in Workers, wk[v].pc \in Handling, Mine(v) = j
        PROVE  FALSE
    <3>1. msg[j].by = v /\ ~wk[v].tool
      BY <1>4, <1>5, <2>4, Knows DEF Minds
    <3>2. Handles(v, j)
      BY <2>4, <3>1 DEF Handles, Handling, AtItem, Mine
    <3> QED BY <2>1, <3>1, <3>2
  <2> QED BY <2>3, <2>4
<1> HIDE DEF back
<1> QED BY <1>1, <1>2, <1>4, <1>5, ReadyCare

LEMMA EnqueueCare ==
  ASSUME IInv, Care, EnqueueAnalysis
  PROVE  Care'
<1>1. PICK j \in outbox :
        \/ msg' = [msg EXCEPT ![j].st = "ready"] /\ UNCHANGED hand
                 /\ UNCHANGED used
        \/ Spend("crash") /\ hand' = hand \union {j} /\ UNCHANGED msg
  BY DEF EnqueueAnalysis
<1>2. UNCHANGED <<job, batch, item, wk>>
  BY DEF EnqueueAnalysis
<1>3. j \in Jobs /\ msg[j].st = "none" /\ MsgRow(msg[j]) /\ msg[j].by = NoWorker
  BY DEF IInv, Shapes, RestShaped, MsgsShaped, Delivered, MsgRow
<1>4. CASE UNCHANGED msg /\ Spend("crash") /\ hand' = hand \union {j}
  <2>1. Calmer
    BY <1>4, SpendGrows DEF Calmer, Events
  <2>2. \A v \in Workers : Stays(v)
    BY <1>2 DEF Stays
  <2>3. \A k \in Jobs : Kept(k)
    BY <1>2, <1>4 DEF Kept
  <2> QED BY <2>1, <2>2, <2>3, CareStays
<1>5. CASE msg' = [msg EXCEPT ![j].st = "ready"] /\ UNCHANGED <<hand, used>>
  <2> DEFINE row == [msg[j] EXCEPT !.st = "ready"]
  <2>1. row.st = "ready" /\ msg' = [msg EXCEPT ![j] = row]
    BY <1>3, <1>5 DEF MsgRow
  <2>2. Calmer
    BY <1>5 DEF Calmer
  <2>3. ASSUME Calm(j, used', hand')
        PROVE  /\ \A v \in Workers : ~(wk[v].pc \in Handling /\ Mine(v) = j)
               /\ item[j].st = "running" => item[j].exp
    <3>1. Rests(item[j], msg[j], batch[j], job[j])
      BY <1>3, <2>2, <2>3 DEF Care, Rested, Calm, Calmer
    <3>2. item[j].st = "running" => item[j].exp
      BY <1>3, <3>1 DEF Rests, IInv, Shapes, ItemsShaped, ItemRow
    <3>3. ASSUME NEW v \in Workers, wk[v].pc \in Handling, Mine(v) = j
          PROVE  FALSE
      BY <1>3, <2>2, <2>3, <3>3, Knows
    <3> QED BY <3>2, <3>3
  <2> HIDE DEF row
  <2> QED BY <1>2, <1>3, <2>1, <2>2, <2>3, ReadyCare
<1> QED BY <1>1, <1>4, <1>5

\* Nobody moves, and every job is kept or was interfered with.
LEMMA HandCare ==
  ASSUME IInv, Care, Calmer, \A v \in Workers : Stays(v),
         \A k \in Jobs : Kept(k) \/ k \in hand'
  PROVE  Care'
<1>1. \A k \in Jobs : k \in hand' => ~Calm(k, used', hand')
  BY DEF Calm
<1>2. \A k \in Jobs : k \in hand' => Rested(k)'
  BY <1>1 DEF Rested
<1> QED BY <1>1, <1>2, CareStays

LEMMA OutdatedStay ==
  ASSUME IInv, NEW S, wk' = Outdated(S)
  PROVE  \A v \in Workers : Stays(v)
<1> SUFFICES ASSUME NEW v \in Workers PROVE Stays(v)
  OBVIOUS
<1>1. WorkerRow(wk[v]) /\ wk'[v] = Late(wk[v], S)
  BY OutdatedRows DEF IInv, Shapes, WorkersShaped
<1> QED BY <1>1 DEF Stays, Late, WorkerRow

LEMMA CommandCare ==
  ASSUME IInv, Care, NEW j \in Jobs, RequestCancel(j) \/ RetryFailed(j) \/ ReviewItem(j)
  PROVE  Care'
<1>1. ByHand(j)
  BY DEF RequestCancel, RetryFailed, ReviewItem
<1>2. Calmer /\ j \in hand'
  BY <1>1, ByHandKnown DEF Calmer
<1>3. UNCHANGED <<job, msg>>
  BY DEF RequestCancel, RetryFailed, ReviewItem
<1>4. \A v \in Workers : Stays(v)
  <2>1. CASE ReviewItem(j)
    BY <2>1 DEF ReviewItem, Stays
  <2>2. CASE RequestCancel(j)
    BY <2>2, OutdatedStay DEF RequestCancel
  <2>3. CASE RetryFailed(j)
    BY <2>3, OutdatedStay DEF RetryFailed
  <2> QED BY <2>1, <2>2, <2>3
<1>5. ASSUME NEW k \in Jobs, k # j
      PROVE  Kept(k)
  <2>1. item'[k] = item[k]
    BY <1>5 DEF RequestCancel, RetryFailed, ReviewItem, IInv, Shapes, ItemsShaped, Function
  <2>2. batch'[k] = batch[k]
    BY <1>5 DEF RequestCancel, RetryFailed, ReviewItem, IInv, Shapes, BatchesShaped, Function
  <2> QED BY <1>3, <2>1, <2>2 DEF Kept
<1> QED BY <1>2, <1>4, <1>5, HandCare

LEMMA RunToolCare ==
  ASSUME IInv, Care, NEW w \in Workers, NEW j \in Jobs, RunTool(w, j)
  PROVE  Care'
<1> DEFINE row == [IdleWorker EXCEPT !.pc = "claim", !.job = j, !.tool = TRUE]
<1>1. /\ wk' = [wk EXCEPT ![w] = row] /\ ByHand(j)
      /\ UNCHANGED <<job, item, msg, batch>>
  BY DEF RunTool
<1>2. Calmer /\ j \in hand'
  BY <1>1, ByHandKnown DEF Calmer
<1>3. row.job = j
  BY DEF IdleWorker
<1> HIDE DEF row
<1>4. ~Calm(row.job, used', hand')
  BY <1>2, <1>3 DEF Calm
<1> QED BY <1>1, <1>2, <1>4, CareGoes

LEMMA LeaseCare ==
  ASSUME IInv, Care, NEW j \in Jobs, ItemLeaseLapses(j) \/ ItemBecomesDue(j)
  PROVE  Care'
<1> DEFINE late == [item[j] EXCEPT !.exp = TRUE]
           due == [item[j] EXCEPT !.due = TRUE]
<1>1. /\ item' = [item EXCEPT ![j] = late] \/ item' = [item EXCEPT ![j] = due]
      /\ UNCHANGED <<job, batch, msg, wk, hand>>
  BY DEF ItemLeaseLapses, ItemBecomesDue, IInv, Shapes, ItemsShaped, Function
<1>2. Calmer
  BY <1>1, SpendGrows DEF ItemLeaseLapses, ItemBecomesDue, Lapse, Calmer, Events
<1>3. /\ late.st = item[j].st /\ late.owner = item[j].owner /\ late.exp
      /\ due.st = item[j].st /\ due.owner = item[j].owner /\ due.exp = item[j].exp
  BY DEF IInv, Shapes, ItemsShaped, ItemRow
<1> HIDE DEF late, due
<1>4. item'[j] = late \/ item'[j] = due
  BY <1>1, ItemWritten
<1>5. Kept(j)
  BY <1>1, <1>3, <1>4 DEF Kept
<1>6. \A k \in Jobs : k # j => Kept(k)
  BY <1>1, OthersKept
<1>7. \A v \in Workers : Stays(v)
  BY <1>1 DEF Stays
<1> QED BY <1>2, <1>5, <1>6, <1>7, CareStays

LEMMA RequestAnalysisCare ==
  ASSUME IInv, Care, NEW j \in Jobs, RequestAnalysis(j)
  PROVE  Care'
<1>1. job' = [job EXCEPT ![j] = "queued"] /\ UNCHANGED <<batch, item, msg, wk, hand>>
  BY DEF RequestAnalysis
<1>2. Calmer
  BY <1>1, SpendGrows DEF RequestAnalysis, Call, Calmer, Events
<1>3. Kept(j)
  BY <1>1, JobWritten DEF Kept
<1>4. \A k \in Jobs : k # j => Kept(k)
  BY <1>1, OthersKept
<1>5. \A v \in Workers : Stays(v)
  BY <1>1 DEF Stays
<1> QED BY <1>2, <1>3, <1>4, <1>5, CareStays

LEMMA ElsewhereCare ==
  ASSUME IInv, Care,
         \/ \E a \in Assets : TransitionAsset(a) \/ ReadMetadata(a)
         \/ WriteMetadata \/ StepStarts \/ StepEnds \/ UNCHANGED vars
  PROVE  Care'
<1>1. UNCHANGED <<job, batch, item, msg, wk>>
  BY DEF TransitionAsset, ReadMetadata, WriteMetadata, StepStarts, StepEnds, vars
<1>2. Calmer
  BY SpendGrows DEF TransitionAsset, ReadMetadata, WriteMetadata, StepStarts, StepEnds, vars,
                    Call, Touched, Calmer, Events
<1>3. (\A v \in Workers : Stays(v)) /\ (\A k \in Jobs : Kept(k))
  BY <1>1 DEF Stays, Kept
<1> QED BY <1>2, <1>3, CareStays

LEMMA CareStep == IInv /\ Care /\ [Next]_vars => Care'
<1> SUFFICES ASSUME IInv, Care, [Next]_vars PROVE Care'
  OBVIOUS
<1>1. ASSUME NEW w \in Workers, WorkerStep(w)
      PROVE  Care'
  BY <1>1, ServeCare, ClaimCare, StageCare, CheckpointCare, MarkCancelledCare, PublishCare,
     MarkFailureCare, RefreshCare, SettleCare, ResumeReviewCare, ResumeMarkCare DEF WorkerStep
<1>2. ASSUME NEW w \in Workers,
             \/ Reserve(w) \/ ResumeRead(w) \/ RenewItem(w) \/ Crash(w)
             \/ \E j \in Jobs : RunTool(w, j)
      PROVE  Care'
  BY <1>2, ReserveCare, ResumeReadCare, RenewItemCare, CrashCare, RunToolCare
<1>3. ASSUME NEW j \in Jobs,
             \/ RequestAnalysis(j) \/ RequestCancel(j) \/ RetryFailed(j)
             \/ ReviewItem(j) \/ ItemLeaseLapses(j) \/ MsgLeaseLapses(j)
             \/ ItemBecomesDue(j)
      PROVE  Care'
  BY <1>3, RequestAnalysisCare, CommandCare, LeaseCare, MsgLeaseLapsesCare
<1>4. ASSUME \/ \E a \in Assets : TransitionAsset(a) \/ ReadMetadata(a)
             \/ WriteMetadata \/ StepStarts \/ StepEnds \/ UNCHANGED vars
             \/ EnqueueAnalysis
      PROVE  Care'
  BY <1>4, ElsewhereCare, EnqueueCare
<1> QED BY <1>1, <1>2, <1>3, <1>4 DEF Next

LEMMA CareInit == Init => Care
<1> SUFFICES ASSUME Init PROVE Care
  OBVIOUS
<1>1. \A w \in Workers : wk[w] = IdleWorker
  BY DEF Init
<1>2. \A w \in Workers : Minded(w)
  BY <1>1, IdleSays, AwayMinds DEF Minded, Handling, AtItem
<1>3. \A j \in Jobs : Rested(j)
  BY DEF Init, Rested, Rests, NoItem, Active
<1> QED BY <1>2, <1>3 DEF Care

-----------------------------------------------------------------------------
(* The parked step hears of its assets.                                    *)

Over(j) == job[j] \in {"succeeded", "failed"}
AllOver == \A j \in Parked : Over(j)
\* The step has not parked again behind assets it did not see the end of.
Heard == step.st \in {"retrying", "succeeded"} \/ Parked \subseteq step.saw

\* A verdict of the item or of the batch is one of the job, and a job has its
\* verdict from an item.
Judged == {"ready", "awaiting_review", "failed"}
Verdict(j) ==
  /\ item[j].st \in Judged => Over(j)
  /\ batch[j].st \in Settled => Over(j)
  /\ Over(j) => item[j].st # "none"
\* Whoever is about to wake the step, or to note that it was woken, and
\* whatever is noted, comes after all verdicts.
Told ==
  /\ \A j \in Jobs : Verdict(j)
  /\ \A w \in Workers : /\ wk[w].pc \in {"review", "mark"} => AllOver
                        /\ wk[w].pc = "mark" => Heard
  /\ (\E j \in Parked : batch[j].sent) => AllOver /\ Heard

LEMMA ToldGives ==
  ASSUME Told, \E j \in Parked : batch[j].sent
  PROVE  step.st # "awaiting_review" \/ Parked \subseteq step.saw
BY DEF Told, Heard

\* What a step may do to a job: a verdict stays, and comes with or after the
\* item that earned it.
Moves(j) ==
  /\ Over(j) => Over(j)'
  /\ item'[j].st \in Judged => item[j].st \in Judged \/ Over(j)'
  /\ batch'[j].st \in Settled => batch[j].st \in Settled \/ Over(j)'
  /\ Over(j)' => Over(j) \/ item'[j].st # "none"
  /\ item[j].st # "none" => item'[j].st # "none"
\* Nobody sets out to wake the step or to note it, and nothing is noted.
Quiet ==
  /\ \A w \in Workers : wk'[w].pc \in {"review", "mark"} => wk'[w].pc = wk[w].pc
  /\ \A j \in Jobs : batch'[j].sent => batch[j].sent

LEMMA VerdictsMove ==
  ASSUME Told, \A j \in Jobs : Moves(j)
  PROVE  (\A j \in Jobs : Verdict(j)') /\ (AllOver => AllOver')
<1>1. ASSUME NEW j \in Jobs
      PROVE  Verdict(j)'
  BY DEF Told, Verdict, Moves
<1>2. AllOver => AllOver'
  BY JobAssumption DEF AllOver, Moves
<1> QED BY <1>1, <1>2

LEMMA ToldQuiet ==
  ASSUME Told, \A j \in Jobs : Moves(j), Quiet, AllOver /\ Heard => Heard'
  PROVE  Told'
<1>1. (\A j \in Jobs : Verdict(j)') /\ (AllOver => AllOver')
  BY VerdictsMove
<1>2. \A w \in Workers : /\ wk'[w].pc \in {"review", "mark"} => AllOver'
                         /\ wk'[w].pc = "mark" => Heard'
  BY <1>1 DEF Told, Quiet
<1>3. (\E j \in Parked : batch'[j].sent) => AllOver' /\ Heard'
  BY <1>1, JobAssumption DEF Told, Quiet
<1> QED BY <1>1, <1>2, <1>3 DEF Told

\* Steps that leave items and verdicts, and what the batches stand at.
LEMMA MovesNot ==
  ASSUME NEW j \in Jobs, job'[j] = job[j], item'[j].st = item[j].st, batch'[j].st = batch[j].st
  PROVE  Moves(j)
BY DEF Moves, Over

LEMMA QuietRow ==
  ASSUME IInv, NEW w \in Workers, NEW row, wk' = [wk EXCEPT ![w] = row],
         row.pc \notin {"review", "mark"}, \A j \in Jobs : batch'[j].sent => batch[j].sent
  PROVE  Quiet
BY OthersStay DEF Quiet, Stays

LEMMA QuietLocal ==
  ASSUME IInv, Told, NEW w \in Workers, NEW row, LocalStep(w, row),
         row.pc \notin {"review", "mark"}
  PROVE  Told'
<1>1. /\ wk' = [wk EXCEPT ![w] = row]
      /\ UNCHANGED <<job, batch, item, step>>
  BY DEF LocalStep
<1>2. \A j \in Jobs : Moves(j)
  BY <1>1, MovesNot
<1>3. Quiet
  BY <1>1, QuietRow
<1>4. Heard => Heard'
  BY <1>1 DEF Heard
<1> QED BY <1>2, <1>3, <1>4, ToldQuiet

\* The parked step's batches are only found when all of them have settled.
LEMMA TargetsOver ==
  ASSUME Told, Targets # {}
  PROVE  AllOver
<1> DEFINE group == {j \in Parked : batch[j].st # "none" /\ ~batch[j].sent}
<1>1. /\ Cardinality(group) >= Cardinality(Parked)
      /\ \A j \in group : batch[j].st \in Settled
  BY DEF Targets
<1>2. group \in SUBSET Parked
  OBVIOUS
<1> HIDE DEF group
<1>3. IsFiniteSet(group) /\ Cardinality(group) <= Cardinality(Parked)
      /\ (Cardinality(Parked) = Cardinality(group) => Parked = group)
  BY <1>2, JobAssumption, FS_Subset
<1>4. Cardinality(group) \in Nat /\ Cardinality(Parked) \in Nat
  BY <1>3, JobAssumption, FS_CardinalityType
<1>5. Parked = group
  BY <1>1, <1>3, <1>4
<1> QED BY <1>1, <1>5, JobAssumption DEF Told, Verdict, AllOver

LEMMA ResumeReadTold ==
  ASSUME IInv, Told, NEW w \in Workers, ResumeRead(w)
  PROVE  Told'
<1> DEFINE woken(pc) == [IdleWorker EXCEPT !.group = Targets, !.pc = pc]
<1>1. \/ LocalStep(w, IdleWorker)
      \/ /\ Targets # {} /\ step.st # "running"
         /\ \/ step.st = "awaiting_review" /\ LocalStep(w, woken("review"))
            \/ step.st # "awaiting_review" /\ LocalStep(w, woken("mark"))
  BY DEF ResumeRead, StepUnmoved
<1>2. \A pc \in {"review", "mark"} : woken(pc).pc = pc
  BY IdleSays
<1> HIDE DEF woken
<1>3. CASE LocalStep(w, IdleWorker)
  BY <1>3, IdleSays, QuietLocal
<1>4. ASSUME NEW pc \in {"review", "mark"}, LocalStep(w, woken(pc)), Targets # {},
             pc = "mark" => Heard
      PROVE  Told'
  <2>1. wk' = [wk EXCEPT ![w] = woken(pc)] /\ UNCHANGED <<job, batch, item, step>>
    BY <1>4 DEF LocalStep
  <2>2. AllOver
    BY <1>4, TargetsOver
  <2>3. (\A j \in Jobs : Verdict(j)') /\ AllOver'
    BY <2>1, <2>2, MovesNot, VerdictsMove
  <2>4. Heard => Heard'
    BY <2>1 DEF Heard
  <2>5. wk'[w].pc = pc /\ \A v \in Workers : v # w => wk'[v].pc = wk[v].pc
    <3> DEFINE row == woken(pc)
    <3>1. row.pc = pc
      BY <1>2
    <3>2. wk' = [wk EXCEPT ![w] = row]
      BY <2>1
    <3> HIDE DEF row
    <3>3. wk'[w] = row /\ \A v \in Workers : v # w => Stays(v)
      BY <3>2, OthersStay
    <3> QED BY <3>1, <3>3 DEF Stays
  <2>6. \A v \in Workers : wk'[v].pc = "mark" => Heard'
    BY <1>4, <2>4, <2>5 DEF Told
  <2>7. (\E j \in Parked : batch'[j].sent) => Heard'
    BY <2>1, <2>4 DEF Told
  <2> QED BY <2>3, <2>6, <2>7 DEF Told
<1>5. Targets # {} /\ step.st # "running" /\ step.st # "awaiting_review" => Heard
  BY DEF Heard, IInv, Shapes, RestShaped
<1> QED BY <1>1, <1>3, <1>4, <1>5

LEMMA ResumeReviewTold ==
  ASSUME IInv, Told, NEW w \in Workers, ResumeReview(w)
  PROVE  Told'
<1> DEFINE marks == [wk[w] EXCEPT !.pc = "mark"]
<1>1. /\ \/ wk' = [wk EXCEPT ![w] = marks] /\ step' = [step EXCEPT !.st = "retrying"]
         \/ wk' = [wk EXCEPT ![w] = IdleWorker] /\ UNCHANGED step
      /\ UNCHANGED <<job, batch, item>> /\ wk[w].pc = "review"
  BY DEF ResumeReview, At
<1> HIDE DEF marks
<1>2. \A j \in Jobs : Moves(j)
  BY <1>1, MovesNot
<1>3. CASE wk' = [wk EXCEPT ![w] = marks] /\ step' = [step EXCEPT !.st = "retrying"]
  <2>1. Heard'
    BY <1>3 DEF Heard, IInv, Shapes, RestShaped
  <2>2. (\A j \in Jobs : Verdict(j)') /\ AllOver'
    BY <1>1, <1>2, VerdictsMove DEF Told
  <2> QED BY <2>1, <2>2 DEF Told
<1>4. CASE wk' = [wk EXCEPT ![w] = IdleWorker] /\ UNCHANGED step
  <2>1. Quiet
    BY <1>1, <1>4, IdleSays, QuietRow
  <2>2. Heard => Heard'
    BY <1>4 DEF Heard
  <2> QED BY <1>2, <2>1, <2>2, ToldQuiet
<1> QED BY <1>1, <1>3, <1>4

LEMMA ResumeMarkTold ==
  ASSUME IInv, Told, NEW w \in Workers, ResumeMark(w)
  PROVE  Told'
<1>1. /\ wk' = [wk EXCEPT ![w] = IdleWorker] /\ wk[w].pc = "mark"
      /\ UNCHANGED <<job, item, step>>
  BY DEF ResumeMark, At
<1>2. \A j \in Jobs : batch'[j].st = batch[j].st
  BY DEF ResumeMark, IInv, Shapes, BatchesShaped, BatchRow
<1>3. (\A j \in Jobs : Verdict(j)') /\ AllOver'
  BY <1>1, <1>2, MovesNot, VerdictsMove DEF Told
<1>4. Heard'
  BY <1>1 DEF Told, Heard
<1> QED BY <1>3, <1>4 DEF Told

LEMMA MediaStepTold ==
  ASSUME IInv, Told, StepStarts \/ StepEnds
  PROVE  Told'
<1>1. UNCHANGED <<job, batch, item, wk>>
  BY DEF StepStarts, StepEnds
<1>2. \A j \in Jobs : Moves(j)
  BY <1>1, MovesNot
<1>3. Quiet
  BY <1>1 DEF Quiet
<1>4. CASE StepStarts
  <2>1. AllOver => Parked \subseteq step'.saw
    BY <1>4, JobAssumption DEF StepStarts, AllOver, Over
  <2> QED BY <1>2, <1>3, <2>1, ToldQuiet DEF Heard
<1>5. CASE StepEnds
  <2>1. step'.saw = step.saw /\ step.st = "running"
    BY <1>5 DEF StepEnds, IInv, Shapes, RestShaped
  <2> QED BY <1>2, <1>3, <2>1, ToldQuiet DEF Heard
<1> QED BY <1>4, <1>5

\* The steps of worker w that write the rows of its own job j, and go to r.
LEMMA ToldActs ==
  ASSUME IInv, Told, NEW w \in Workers, NEW j \in Jobs, NEW r, wk'[w] = r,
         r.pc \notin {"review", "mark"}, \A v \in Workers : v # w => wk'[v].pc = wk[v].pc,
         Moves(j), \A k \in Jobs : k # j => Moves(k),
         \A k \in Jobs : batch'[k].sent => batch[k].sent, UNCHANGED step
  PROVE  Told'
<1>1. Quiet
  BY DEF Quiet
<1>2. Heard => Heard'
  BY DEF Heard
<1> QED BY <1>1, <1>2, ToldQuiet

\* The rows of the other jobs, when one is written.
LEMMA OthersMove ==
  ASSUME IInv, NEW j \in Jobs,
         item' = item \/ (\E x : item' = [item EXCEPT ![j] = x]),
         batch' = batch \/ (\E x : batch' = [batch EXCEPT ![j] = x]),
         job' = job \/ (\E x : job' = [job EXCEPT ![j] = x])
  PROVE  \A k \in Jobs : k # j => Moves(k) /\ batch'[k] = batch[k]
<1> SUFFICES ASSUME NEW k \in Jobs, k # j PROVE Moves(k) /\ batch'[k] = batch[k]
  OBVIOUS
<1>1. item'[k] = item[k]
  BY DEF IInv, Shapes, ItemsShaped, Function
<1>2. batch'[k] = batch[k]
  BY DEF IInv, Shapes, BatchesShaped, Function
<1>3. job'[k] = job[k]
  BY DEF IInv, Shapes, JobsShaped
<1> QED BY <1>1, <1>2, <1>3, MovesNot

LEMMA OthersPc ==
  ASSUME IInv, NEW w \in Workers, NEW r, NEW S,
         wk' = [wk EXCEPT ![w] = r] \/ wk' = [Outdated(S) EXCEPT ![w] = r]
  PROVE  wk'[w] = r /\ \A v \in Workers : v # w => wk'[v].pc = wk[v].pc
<1>1. CASE wk' = [wk EXCEPT ![w] = r]
  BY <1>1, OthersStay DEF Stays
<1>2. CASE wk' = [Outdated(S) EXCEPT ![w] = r]
  <2>1. wk'[w] = r /\ \A v \in Workers : v # w => wk'[v] = Late(wk[v], S)
    BY <1>2, OutdatedRows DEF Function
  <2>2. ASSUME NEW v \in Workers
        PROVE  Late(wk[v], S).pc = wk[v].pc
    BY DEF Late, IInv, Shapes, WorkersShaped, WorkerRow
  <2> QED BY <2>1, <2>2
<1> QED BY <1>1, <1>2

\* Where a step of a worker may lead that does not wake the media step.
LEMMA RowsAway ==
  ASSUME IInv, NEW w \in Workers
  PROVE  /\ NextItem(w).pc \notin {"review", "mark"} /\ Raised(w).pc \notin {"review", "mark"}
         /\ \A retry : Failing(w, retry).pc \notin {"review", "mark"}
<1>1. IdleWorker.pc = "idle"
  BY IdleSays
<1> QED BY <1>1, GotoSays, NextSays DEF Raised

\* Item and batch come together: whoever is at an item has one.
LEMMA ItemThere ==
  ASSUME IInv, NEW w \in Workers, wk[w].pc \in AtItem \union {"claim", "refresh"}
  PROVE  item[Mine(w)].st # "none"
<1>1. batch[Mine(w)].st # "none" /\ Mine(w) \in Jobs
  BY DEF IInv, Crew, Fits, Shapes, WorkersShaped, WorkerRow, Mine
<1> QED BY <1>1 DEF IInv, Together

\* A holder that ends its item.
LEMMA EndTold ==
  ASSUME IInv, Told, NEW w \in Workers, wk[w].pc \in AtItem,
         NEW j \in Jobs, Mine(w) = j, wk' = [wk EXCEPT ![w] = NextItem(w)],
         NEW row, item' = [item EXCEPT ![j] = row], row.st # "none",
         UNCHANGED <<batch, step>>,
         job' = job \/ (\E x \in {"succeeded", "failed"} : job' = [job EXCEPT ![j] = x]),
         row.st \in Judged => job'[j] \in {"succeeded", "failed"}
  PROVE  Told'
<1>1. item'[j] = row /\ \A k \in Jobs : k # j => Moves(k)
  BY ItemWritten, OthersMove
<1>2. Over(j) => Over(j)'
  BY JobWritten DEF Over
<1>3. Moves(j)
  BY <1>1, <1>2 DEF Moves, Over
<1>4. wk'[w] = NextItem(w) /\ \A v \in Workers : v # w => wk'[v].pc = wk[v].pc
  BY OthersPc
<1>5. NextItem(w).pc \notin {"review", "mark"}
  BY RowsAway
<1> QED BY <1>1, <1>3, <1>4, <1>5, ToldActs

LEMMA MarkCancelledTold ==
  ASSUME IInv, Told, NEW w \in Workers, MarkCancelled(w)
  PROVE  Told'
<1>1. wk[w].pc \in AtItem
  BY DEF MarkCancelled, At, AtItem
<1>2. CASE wk[w].fresh
  <2>1. PICK j \in Jobs : Mine(w) = j
    BY Picked
  <2>2. item' = Ended(<<j, "cancelled">>)
    BY <1>2, <2>1 DEF MarkCancelled
  <2>3. /\ wk' = [wk EXCEPT ![w] = NextItem(w)]
        /\ UNCHANGED <<job, batch, step>>
    BY <1>2 DEF MarkCancelled
  <2>4. PICK row : item' = [item EXCEPT ![j] = row] /\ row.st = "cancelled"
    BY ONLY IInv, j \in Jobs, <2>2, EndedItem
  <2>5. row.st # "none" /\ row.st \notin Judged
    BY <2>4 DEF Judged
  <2> QED BY <1>1, <2>1, <2>3, <2>4, <2>5, EndTold
<1>3. CASE ~wk[w].fresh
  <2>1. LocalStep(w, Failing(w, TRUE)) \/ LocalStep(w, Raised(w))
    BY <1>3 DEF MarkCancelled
  <2>2. Raised(w).pc \notin {"review", "mark"} /\ Failing(w, TRUE).pc \notin {"review", "mark"}
    BY RowsAway
  <2> QED BY <2>1, <2>2, QuietLocal
<1> QED BY <1>2, <1>3

LEMMA PublishTold ==
  ASSUME IInv, Told, NEW w \in Workers, Publish(w)
  PROVE  Told'
<1>1. wk[w].pc \in AtItem
  BY DEF Publish, At, AtItem
<1>2. CASE ~MayPublish(w)
  <2>1. LocalStep(w, Failing(w, TRUE))
    BY <1>2 DEF Publish
  <2>2. Failing(w, TRUE).pc \notin {"review", "mark"}
    BY RowsAway
  <2> QED BY <2>1, <2>2, QuietLocal
<1>3. CASE MayPublish(w)
  <2>1. PICK j \in Jobs : Mine(w) = j
    BY Picked
  <2>2. PICK st \in {"ready", "awaiting_review"} : item' = Ended(<<j, st>>)
    BY <1>3, <2>1 DEF Publish
  <2>3. /\ job' = [job EXCEPT ![j] = "succeeded"] /\ wk' = [wk EXCEPT ![w] = NextItem(w)]
        /\ UNCHANGED <<batch, step>>
    BY <1>3, <2>1 DEF Publish
  <2>4. PICK row : item' = [item EXCEPT ![j] = row] /\ row.st = st
    BY ONLY IInv, j \in Jobs, <2>2, EndedItem
  <2>5. job'[j] = "succeeded" /\ row.st # "none"
    BY <2>3, <2>4, JobWritten
  <2> QED BY <1>1, <2>1, <2>3, <2>4, <2>5, EndTold
<1> QED BY <1>2, <1>3

LEMMA MarkFailureTold ==
  ASSUME IInv, Told, NEW w \in Workers, MarkFailure(w)
  PROVE  Told'
<1>1. PICK j \in Jobs : Mine(w) = j
  BY Picked
<1>2. wk[w].pc \in AtItem /\ UNCHANGED <<batch, step>>
  BY DEF MarkFailure, At, AtItem
<1>3. /\ Retries(w) => job' = job
      /\ ~Retries(w) => job' = [job EXCEPT ![j] = "failed"]
  BY <1>1 DEF MarkFailure, GivesUp
<1>4. ~Retries(w) => job'[j] = "failed"
  BY <1>3, JobWritten
<1>5. CASE wk[w].fresh
  <2>1. wk' = [wk EXCEPT ![w] = NextItem(w)]
    BY <1>5 DEF MarkFailure
  <2> DEFINE st == IF Retries(w) THEN "retry_wait" ELSE "failed"
  <2>2. \/ item' = Ended(<<j, st>>)
        \/ item' = [Ended(<<j, st>>) EXCEPT ![j].due = FALSE]
    BY <1>1, <1>5 DEF MarkFailure
  <2>3. PICK row : item' = [item EXCEPT ![j] = row] /\ row.st = st
    <3> HIDE DEF st
    <3> QED BY ONLY IInv, j \in Jobs, <2>2, EndedItem
  <2>4. row.st # "none" /\ (row.st \in Judged => job'[j] = "failed")
    BY <1>4, <2>3 DEF Judged
  <2> QED BY <1>1, <1>2, <1>3, <2>1, <2>3, <2>4, EndTold
<1>6. CASE ~wk[w].fresh
  <2>1. UNCHANGED item /\ wk' = [wk EXCEPT ![w] = Raised(w)]
    BY <1>6 DEF MarkFailure
  <2>2. item[j].st # "none"
    BY <1>1, <1>2, ItemThere
  <2>3. Moves(j)
    BY <1>2, <1>3, <1>4, <2>1, <2>2 DEF Moves, Over
  <2>4. \A k \in Jobs : k # j => Moves(k)
    BY <1>2, <1>3, <2>1, OthersMove
  <2>5. wk'[w] = Raised(w) /\ \A v \in Workers : v # w => wk'[v].pc = wk[v].pc
    BY <2>1, OthersPc
  <2>6. Raised(w).pc \notin {"review", "mark"}
    BY RowsAway
  <2> QED BY <1>2, <2>3, <2>4, <2>5, <2>6, ToldActs
<1> QED BY <1>5, <1>6

LEMMA StageTold ==
  ASSUME IInv, Told, NEW w \in Workers, StageStarts(w) \/ StageFails(w) \/ StageAborts(w)
  PROVE  Told'
<1>1. \/ \E pc \in {"work", "cancel", "abort"} : LocalStep(w, Goto(w, pc))
      \/ \E retry \in BOOLEAN : LocalStep(w, Failing(w, retry))
  BY DEF StageStarts, StageFails, StageAborts
<1>2. ASSUME NEW pc \in {"work", "cancel", "abort"}, LocalStep(w, Goto(w, pc))
      PROVE  Told'
  BY <1>2, GotoSays, QuietLocal
<1>3. ASSUME NEW retry \in BOOLEAN, LocalStep(w, Failing(w, retry))
      PROVE  Told'
  BY <1>3, RowsAway, QuietLocal
<1> QED BY <1>1, <1>2, <1>3

\* A write of an item that leaves its status.
LEMMA SameTold ==
  ASSUME IInv, Told, NEW j \in Jobs, NEW row, item' = [item EXCEPT ![j] = row],
         row.st = item[j].st, UNCHANGED <<job, batch, step>>, Quiet
  PROVE  Told'
<1>1. item'[j] = row /\ \A k \in Jobs : k # j => Moves(k)
  BY ItemWritten, OthersMove
<1>2. Moves(j)
  BY <1>1, MovesNot
<1>3. Heard => Heard'
  BY DEF Heard
<1> QED BY <1>1, <1>2, <1>3, ToldQuiet

LEMMA CheckpointTold ==
  ASSUME IInv, Told, NEW w \in Workers, Checkpoint(w)
  PROVE  Told'
<1>1. CASE ~wk[w].fresh
  <2>1. LocalStep(w, Failing(w, TRUE))
    BY <1>1 DEF Checkpoint
  <2>2. Failing(w, TRUE).pc \notin {"review", "mark"}
    BY RowsAway
  <2> QED BY <2>1, <2>2, QuietLocal
<1>2. CASE wk[w].fresh
  <2>1. PICK j \in Jobs : Mine(w) = j
    BY Picked
  <2> DEFINE done == wk[w].done + 1
             row == [item[j] EXCEPT !.done = done, !.exp = FALSE]
             pc == IF done = Stages THEN "publish" ELSE "stage"
             mine == [Goto(w, pc) EXCEPT !.done = done]
  <2>2. /\ item' = [item EXCEPT ![j].done = done, ![j].exp = FALSE]
        /\ wk' = [wk EXCEPT ![w] = mine]
        /\ UNCHANGED <<job, batch, step>>
    BY <1>2, <2>1 DEF Checkpoint
  <2>3. item' = [item EXCEPT ![j] = row]
    BY <2>2 DEF IInv, Shapes, ItemsShaped, Function
  <2>4. row.st = item[j].st
    BY DEF IInv, Shapes, ItemsShaped, ItemRow
  <2>5. mine.pc \in {"publish", "stage"}
    BY <2>1 DEF IInv, Shapes, WorkersShaped, WorkerRow, Goto
  <2> HIDE DEF row, mine
  <2>6. Quiet
    BY <2>2, <2>5, QuietRow
  <2> QED BY <2>2, <2>3, <2>4, <2>6, SameTold
<1> QED BY <1>1, <1>2

LEMMA RowStepsTold ==
  ASSUME IInv, Told, NEW w \in Workers,
         \/ Settle(w) \/ Reserve(w) \/ Crash(w) \/ RenewItem(w)
         \/ \E j \in Jobs : RunTool(w, j)
  PROVE  Told'
<1>1. UNCHANGED <<job, batch, step>>
  BY DEF Settle, Reserve, Crash, RenewItem, RunTool
<1>2. Quiet
  <2>1. CASE RenewItem(w)
    BY <2>1 DEF RenewItem, Quiet
  <2>2. CASE Settle(w)
    <3> DEFINE row == Goto(w, "resume")
    <3>1. row.pc = "resume" /\ wk' = [wk EXCEPT ![w] = row]
      BY <2>2, GotoSays DEF Settle
    <3> HIDE DEF row
    <3> QED BY <1>1, <3>1, QuietRow
  <2>3. CASE Crash(w)
    BY <2>3, <1>1, IdleSays, QuietRow DEF Crash
  <2>4. ASSUME NEW row, row.pc \in {"serve", "claim"}, wk' = [wk EXCEPT ![w] = row]
        PROVE  Quiet
    BY <1>1, <2>4, QuietRow
  <2>5. CASE \E j \in Jobs : RunTool(w, j)
    <3>1. PICK j \in Jobs : RunTool(w, j)
      BY <2>5
    <3> DEFINE row == [IdleWorker EXCEPT !.pc = "claim", !.job = j, !.tool = TRUE]
    <3>2. row.pc = "claim"
      BY DEF IdleWorker
    <3>3. wk' = [wk EXCEPT ![w] = row]
      BY <3>1 DEF RunTool
    <3> HIDE DEF row
    <3> QED BY <1>1, <3>2, <3>3, QuietRow
  <2>6. CASE Reserve(w)
    <3>1. PICK j \in Jobs : UNCHANGED wk
                 \/ wk' = [wk EXCEPT ![w] = [IdleWorker EXCEPT !.pc = "serve", !.job = j]]
      BY <2>6 DEF Reserve
    <3> DEFINE row == [IdleWorker EXCEPT !.pc = "serve", !.job = j]
    <3>2. row.pc = "serve"
      BY IdleSays
    <3>3. UNCHANGED wk \/ wk' = [wk EXCEPT ![w] = row]
      BY <3>1
    <3> HIDE DEF row
    <3>4. UNCHANGED wk => Quiet
      BY <1>1 DEF Quiet
    <3> QED BY <2>4, <3>2, <3>3, <3>4
  <2> QED BY <2>1, <2>2, <2>3, <2>5, <2>6
<1>3. CASE RenewItem(w)
  <2>1. PICK j \in Jobs : Mine(w) = j
    BY Picked
  <2> DEFINE row == [item[j] EXCEPT !.exp = FALSE]
  <2>2. item' = [item EXCEPT ![j] = row]
    BY <1>3, <2>1 DEF RenewItem, IInv, Shapes, ItemsShaped, Function
  <2>3. row.st = item[j].st
    BY DEF IInv, Shapes, ItemsShaped, ItemRow
  <2> HIDE DEF row
  <2> QED BY <1>1, <1>2, <2>2, <2>3, SameTold
<1>4. CASE ~RenewItem(w)
  <2>1. UNCHANGED item
    BY <1>4 DEF Settle, Reserve, Crash, RunTool
  <2>2. \A j \in Jobs : Moves(j)
    BY <1>1, <2>1, MovesNot
  <2>3. Heard => Heard'
    BY <1>1 DEF Heard
  <2> QED BY <1>2, <2>2, <2>3, ToldQuiet
<1> QED BY <1>3, <1>4

LEMMA RefreshTold ==
  ASSUME IInv, Told, NEW w \in Workers, Refresh(w)
  PROVE  Told'
<1>1. PICK j \in Jobs : Mine(w) = j
  BY Picked
<1> DEFINE act == IF Pending(j) THEN "release" ELSE "ack"
           after == [Goto(w, "settle") EXCEPT !.act = act]
           row == IF wk[w].tool THEN IdleWorker ELSE after
           seen == [batch[j] EXCEPT !.st = BatchStatus(item[j].st)]
<1>2. /\ batch' = [batch EXCEPT ![j] = seen] /\ wk' = [wk EXCEPT ![w] = row]
      /\ UNCHANGED <<job, item, step>> /\ wk[w].pc = "refresh"
  BY <1>1 DEF Refresh, At
<1>3. seen.st = BatchStatus(item[j].st) /\ seen.sent = batch[j].sent
  BY DEF IInv, Shapes, BatchesShaped, BatchRow
<1>4. row.pc \notin {"review", "mark"}
  BY IdleSays, GotoSays
<1> HIDE DEF row, seen
<1>5. batch'[j] = seen /\ \A k \in Jobs : k # j => Moves(k) /\ batch'[k] = batch[k]
  BY <1>2, BatchWritten, OthersMove
<1>6. seen.st \in Settled => item[j].st \in Judged \union {"none"}
  BY <1>3 DEF BatchStatus, Settled, Judged, Active, IInv, Shapes, ItemsShaped, ItemRow, ItemStates
<1>7. item[j].st # "none"
  BY <1>1, <1>2, ItemThere
<1>8. Moves(j)
  BY <1>2, <1>5, <1>6, <1>7 DEF Moves, Told, Verdict, Over
<1>9. wk'[w] = row /\ \A v \in Workers : v # w => wk'[v].pc = wk[v].pc
  BY <1>2, OthersPc
<1>10. \A k \in Jobs : batch'[k].sent => batch[k].sent
  BY <1>3, <1>5
<1> QED BY <1>2, <1>4, <1>5, <1>8, <1>9, <1>10, ToldActs

LEMMA ClaimTold ==
  ASSUME IInv, Told, NEW w \in Workers, Claim(w)
  PROVE  Told'
<1>1. PICK j \in Jobs : Mine(w) = j
  BY Picked
<1>2. CASE ~Claimable(j)
  <2>1. LocalStep(w, Goto(w, "refresh"))
    BY <1>1, <1>2 DEF Claim
  <2> QED BY <2>1, GotoSays, QuietLocal
<1>3. CASE Claimable(j)
  <2> DEFINE row == [item[j] EXCEPT !.st = "running", !.att = item[j].att + 1,
                                    !.owner = w, !.exp = FALSE]
             seen == [batch[j] EXCEPT !.st = IF @ = "pending" THEN "running" ELSE @]
             pc == IF item[j].done = Stages THEN "publish" ELSE "stage"
             mine == [Goto(w, pc) EXCEPT
                        !.fresh = TRUE, !.att = item[j].att + 1,
                        !.done = item[j].done, !.rights = Asset(w).rights]
  <2>1. /\ item' = [item EXCEPT ![j] = row] /\ batch' = [batch EXCEPT ![j] = seen]
        /\ wk' = [Outdated({j}) EXCEPT ![w] = mine]
        /\ UNCHANGED <<job, step>>
    BY <1>1, <1>3 DEF Claim, TakenOver, IInv, Shapes, ItemsShaped, BatchesShaped, Function
  <2>2. row.st = "running"
    BY DEF IInv, Shapes, ItemsShaped, ItemRow
  <2>3. seen.sent = batch[j].sent /\ (seen.st \in Settled => batch[j].st \in Settled)
    BY DEF Settled, IInv, Shapes, BatchesShaped, BatchRow
  <2>4. mine.pc \in {"publish", "stage"}
    BY DEF IInv, Shapes, WorkersShaped, WorkerRow, Goto
  <2> HIDE DEF row, seen, mine
  <2>5. /\ item'[j] = row /\ batch'[j] = seen
        /\ \A k \in Jobs : k # j => Moves(k) /\ batch'[k] = batch[k]
    BY <2>1, ItemWritten, BatchWritten, OthersMove
  <2>6. wk'[w] = mine /\ \A v \in Workers : v # w => wk'[v].pc = wk[v].pc
    BY <2>1, OthersPc
  <2>7. Moves(j)
    BY <2>1, <2>2, <2>3, <2>5 DEF Moves, Over, Judged
  <2>8. \A k \in Jobs : batch'[k].sent => batch[k].sent
    BY <2>3, <2>5
  <2> QED BY <2>1, <2>4, <2>5, <2>6, <2>7, <2>8, ToldActs
<1> QED BY <1>2, <1>3

LEMMA ServeTold ==
  ASSUME IInv, Told, NEW w \in Workers, Serve(w)
  PROVE  Told'
<1>1. PICK j \in Jobs : Mine(w) = j
  BY Picked
<1>2. (batch[j].st = "none") = (item[j].st = "none")
  BY DEF IInv, Together
<1> DEFINE settle(act) == [Goto(w, "settle") EXCEPT !.act = act]
           next == Goto(w, "claim")
<1>3. next.pc = "claim" /\ settle("ack").pc = "settle" /\ settle("release").pc = "settle"
  BY GotoSays
<1> HIDE DEF settle, next
<1>4. ASSUME NEW row, LocalStep(w, row), row.pc \in {"claim", "settle"}
      PROVE  Told'
  BY <1>4, QuietLocal
<1>5. ASSUME batch[j].st = "none",
             item' = [k \in Jobs |->
                        IF k = j THEN [NoItem EXCEPT !.st = "pending"]
                        ELSE IF k \in Superseded(j) THEN [item[k] EXCEPT !.st = "cancelled"]
                        ELSE item[k]],
             batch' = [batch EXCEPT ![j].st = "pending"],
             job' = [job EXCEPT ![j] = "running"],
             wk' = [Outdated(Superseded(j)) EXCEPT ![w] = next],
             UNCHANGED step
      PROVE  Told'
  <2>1. item'[j].st = "pending"
    BY <1>5 DEF NoItem
  <2>2. batch'[j].st = "pending" /\ batch'[j].sent = batch[j].sent
    BY <1>5 DEF IInv, Shapes, BatchesShaped, Function, BatchRow
  <2>3. ~Over(j)
    BY <1>2, <1>5 DEF Told, Verdict
  <2>4. ~Over(j)'
    BY <1>5, JobWritten DEF Over
  <2>5. Moves(j)
    BY <2>1, <2>2, <2>3, <2>4 DEF Moves, Judged, Settled
  <2>6. ASSUME NEW k \in Jobs, k # j
        PROVE  Moves(k) /\ batch'[k] = batch[k]
    <3>1. batch'[k] = batch[k] /\ job'[k] = job[k]
      BY <1>5, <2>6 DEF IInv, Shapes, BatchesShaped, JobsShaped, Function
    <3>2. CASE k \notin Superseded(j)
      <4>1. item'[k] = item[k]
        BY <1>5, <2>6, <3>2
      <4> QED BY <3>1, <4>1, MovesNot
    <3>3. CASE k \in Superseded(j)
      <4>1. item'[k].st = "cancelled"
        BY <1>5, <2>6, <3>3 DEF IInv, Shapes, ItemsShaped, ItemRow
      <4> QED BY <3>1, <4>1 DEF Moves, Over, Judged
    <3> QED BY <3>2, <3>3
  <2>7. wk'[w] = next /\ \A v \in Workers : v # w => wk'[v].pc = wk[v].pc
    BY <1>5, OthersPc
  <2>8. \A k \in Jobs : batch'[k].sent => batch[k].sent
    BY <2>2, <2>6
  <2> QED BY <1>3, <1>5, <2>5, <2>6, <2>7, <2>8, ToldActs
<1>6. \/ LocalStep(w, next) \/ LocalStep(w, settle("ack")) \/ LocalStep(w, settle("release"))
      \/ /\ batch[j].st = "none"
         /\ item' = [k \in Jobs |->
                        IF k = j THEN [NoItem EXCEPT !.st = "pending"]
                        ELSE IF k \in Superseded(j) THEN [item[k] EXCEPT !.st = "cancelled"]
                        ELSE item[k]]
         /\ batch' = [batch EXCEPT ![j].st = "pending"]
         /\ job' = [job EXCEPT ![j] = "running"]
         /\ wk' = [Outdated(Superseded(j)) EXCEPT ![w] = next]
         /\ UNCHANGED step
  BY <1>1 DEF Serve, settle, next
<1> QED BY <1>3, <1>4, <1>5, <1>6

LEMMA OutdatedPc ==
  ASSUME IInv, NEW S, wk' = Outdated(S)
  PROVE  \A v \in Workers : wk'[v].pc = wk[v].pc
BY OutdatedStay DEF Stays

\* The operator's commands leave the verdict of a job, and start no item that
\* was not there.
LEMMA CommandTold ==
  ASSUME IInv, Told, NEW j \in Jobs, RequestCancel(j) \/ RetryFailed(j) \/ ReviewItem(j)
  PROVE  Told'
<1>1. UNCHANGED <<job, step>>
  BY DEF RequestCancel, RetryFailed, ReviewItem
<1>2. \A v \in Workers : wk'[v].pc = wk[v].pc
  BY OutdatedPc DEF RequestCancel, RetryFailed, ReviewItem
<1>3. ItemRow(item[j]) /\ BatchRow(batch[j])
  BY DEF IInv, Shapes, ItemsShaped, BatchesShaped
<1>4. \/ item'[j].st \in {item[j].st, "cancelled", "retry_wait"}
      \/ item'[j].st \in Judged /\ item[j].st \in Judged
  <2>1. CASE RequestCancel(j)
    <3>1. item'[j].st \in {item[j].st, "cancelled", "retry_wait"}
      BY <1>3, <2>1 DEF RequestCancel, ItemRow
    <3> QED BY <3>1
  <2>2. CASE RetryFailed(j)
    <3>1. item'[j].st \in {item[j].st, "cancelled", "retry_wait"}
      BY <1>3, <2>2 DEF RetryFailed, ItemRow, IInv, Shapes, ItemsShaped, Function
    <3> QED BY <3>1
  <2>3. CASE ReviewItem(j)
    <3>1. item'[j].st \in {"ready", "retry_wait", "cancelled"} /\ item[j].st = "awaiting_review"
      <4>1. PICK st, done :
              /\ item' = [item EXCEPT ![j] = [item[j] EXCEPT !.st = st, !.done = done, !.due = TRUE]]
              /\ st \in {"ready", "retry_wait", "cancelled"} /\ item[j].st = "awaiting_review"
        BY <2>3 DEF ReviewItem
      <4>2. item'[j] = [item[j] EXCEPT !.st = st, !.done = done, !.due = TRUE]
        BY <4>1 DEF IInv, Shapes, ItemsShaped, Function
      <4>3. item'[j].st = st
        BY <1>3, <4>2 DEF ItemRow
      <4> QED BY <4>1, <4>3
    <3>2. "ready" \in Judged /\ "awaiting_review" \in Judged
      BY DEF Judged
    <3> QED BY <3>1, <3>2
  <2> QED BY <2>1, <2>2, <2>3
<1>5. /\ batch'[j].st \in {batch[j].st, "cancellation_requested", "running"}
      /\ batch'[j].sent = batch[j].sent
  <2>1. CASE RequestCancel(j)
    BY <1>3, <2>1 DEF RequestCancel, BatchRow, IInv, Shapes, BatchesShaped, Function
  <2>2. CASE RetryFailed(j)
    BY <1>3, <2>2 DEF RetryFailed, BatchRow, IInv, Shapes, BatchesShaped, Function
  <2>3. CASE ReviewItem(j)
    BY <2>3 DEF ReviewItem
  <2> QED BY <2>1, <2>2, <2>3
<1>6. item[j].st # "none" => item'[j].st # "none"
  BY <1>4 DEF Judged
<1>7. Moves(j)
  BY <1>1, <1>4, <1>5, <1>6 DEF Moves, Over, Judged, Settled
<1>8. ASSUME NEW k \in Jobs, k # j
      PROVE  Moves(k) /\ batch'[k] = batch[k]
  <2>1. item'[k] = item[k]
    BY <1>8 DEF RequestCancel, RetryFailed, ReviewItem, IInv, Shapes, ItemsShaped, Function
  <2>2. batch'[k] = batch[k]
    BY <1>8 DEF RequestCancel, RetryFailed, ReviewItem, IInv, Shapes, BatchesShaped, Function
  <2> QED BY <1>1, <2>1, <2>2, MovesNot
<1>9. Quiet
  BY <1>2, <1>5, <1>8 DEF Quiet
<1>10. Heard => Heard'
  BY <1>1 DEF Heard
<1> QED BY <1>7, <1>8, <1>9, <1>10, ToldQuiet

LEMMA LeaseTold ==
  ASSUME IInv, Told, NEW j \in Jobs, ItemLeaseLapses(j) \/ ItemBecomesDue(j)
  PROVE  Told'
<1> DEFINE late == [item[j] EXCEPT !.exp = TRUE]
           due == [item[j] EXCEPT !.due = TRUE]
<1>1. /\ item' = [item EXCEPT ![j] = late] \/ item' = [item EXCEPT ![j] = due]
      /\ UNCHANGED <<job, batch, step, wk>>
  BY DEF ItemLeaseLapses, ItemBecomesDue, IInv, Shapes, ItemsShaped, Function
<1>2. late.st = item[j].st /\ due.st = item[j].st
  BY DEF IInv, Shapes, ItemsShaped, ItemRow
<1>3. Quiet
  BY <1>1 DEF Quiet
<1> HIDE DEF late, due
<1> QED BY <1>1, <1>2, <1>3, SameTold

LEMMA RequestAnalysisTold ==
  ASSUME IInv, Told, NEW j \in Jobs, RequestAnalysis(j)
  PROVE  Told'
<1>1. /\ job' = [job EXCEPT ![j] = "queued"] /\ job[j] = "none"
      /\ UNCHANGED <<batch, item, step, wk>>
  BY DEF RequestAnalysis
<1>2. \A k \in Jobs : k # j => Moves(k)
  BY <1>1, MovesNot DEF IInv, Shapes, JobsShaped
<1>3. Moves(j)
  BY <1>1, JobWritten DEF Moves, Over
<1>4. Quiet /\ (Heard => Heard')
  BY <1>1 DEF Quiet, Heard
<1> QED BY <1>2, <1>3, <1>4, ToldQuiet

LEMMA ElsewhereTold ==
  ASSUME IInv, Told,
         \/ \E a \in Assets : TransitionAsset(a) \/ ReadMetadata(a)
         \/ \E j \in Jobs : MsgLeaseLapses(j)
         \/ EnqueueAnalysis \/ WriteMetadata \/ UNCHANGED vars
  PROVE  Told'
<1>1. UNCHANGED <<job, batch, item, step, wk>>
  BY DEF TransitionAsset, ReadMetadata, MsgLeaseLapses, EnqueueAnalysis, WriteMetadata, vars
<1>2. \A k \in Jobs : Moves(k)
  BY <1>1, MovesNot
<1>3. Quiet /\ (Heard => Heard')
  BY <1>1 DEF Quiet, Heard
<1> QED BY <1>2, <1>3, ToldQuiet

LEMMA ToldStep == IInv /\ Told /\ [Next]_vars => Told'
<1> SUFFICES ASSUME IInv, Told, [Next]_vars PROVE Told'
  OBVIOUS
<1>1. ASSUME NEW w \in Workers, WorkerStep(w)
      PROVE  Told'
  BY <1>1, ServeTold, ClaimTold, StageTold, CheckpointTold, MarkCancelledTold, PublishTold,
     MarkFailureTold, RefreshTold, RowStepsTold, ResumeReviewTold, ResumeMarkTold
     DEF WorkerStep
<1>2. ASSUME NEW w \in Workers,
             \/ Reserve(w) \/ ResumeRead(w) \/ RenewItem(w) \/ Crash(w)
             \/ \E j \in Jobs : RunTool(w, j)
      PROVE  Told'
  BY <1>2, RowStepsTold, ResumeReadTold
<1>3. ASSUME NEW j \in Jobs,
             \/ RequestAnalysis(j) \/ RequestCancel(j) \/ RetryFailed(j)
             \/ ReviewItem(j) \/ ItemLeaseLapses(j) \/ MsgLeaseLapses(j)
             \/ ItemBecomesDue(j)
      PROVE  Told'
  BY <1>3, RequestAnalysisTold, CommandTold, LeaseTold, ElsewhereTold
<1>4. ASSUME \/ \E a \in Assets : TransitionAsset(a) \/ ReadMetadata(a)
             \/ WriteMetadata \/ StepStarts \/ StepEnds \/ UNCHANGED vars
             \/ EnqueueAnalysis
      PROVE  Told'
  BY <1>4, ElsewhereTold, MediaStepTold
<1> QED BY <1>1, <1>2, <1>3, <1>4 DEF Next

LEMMA ToldInit == Init => Told
<1> SUFFICES ASSUME Init PROVE Told
  OBVIOUS
<1>1. \A w \in Workers : wk[w].pc = "idle"
  BY IdleSays DEF Init
<1>2. \A j \in Jobs : Verdict(j) /\ ~batch[j].sent
  BY DEF Init, Verdict, Over, NoItem, Judged, Settled
<1> QED BY <1>1, <1>2, JobAssumption DEF Told

\* While leases hold no job is acknowledged before its verdict, through any
\* crashes, retries and redeliveries, and the parked step's batches are noted
\* as reported only when it runs, or has run, after all their verdicts
\* (asset_service.py:128, 165).
THEOREM NothingForgotten == Spec => []NothingIsForgotten
<1> DEFINE Inv == IInv /\ Care /\ Told
<1>1. Init => Inv
  BY InitGood, CareInit, ToldInit
<1>2. Inv /\ [Next]_vars => Inv'
  BY StepKeeps, CareStep, ToldStep
<1>3. Inv => NothingIsForgotten
  BY CareGives, ToldGives DEF NothingIsForgotten
<1> HIDE DEF Inv
<1> QED BY <1>1, <1>2, <1>3, PTL DEF Spec

=============================================================================
