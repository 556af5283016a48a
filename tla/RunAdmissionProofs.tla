------------------------- MODULE RunAdmissionProofs -------------------------
(***************************************************************************)
(* Machine-checked facts about RunAdmission, for any number of clients,    *)
(* keys, workers and runs and any limits.  What the API promises depends   *)
(* on the transactions that are under way (Transactions); the workers only *)
(* move runs on, which never brings a run under a limit or a key.          *)
(***************************************************************************)
EXTENDS RunAdmission, FiniteSetTheorems, TLAPS

\* Runs are numbered in the order of their creation.
Numbered == \A r \in Runs : r > born => run[r].key = None

\* An open transaction is the only one with its key, which has no effect yet;
\* one that has counted is the only one, and what it counted has not grown.
Transactions ==
    /\ \A c \in Clients :
          req[c].pc \in {"checked", "locked", "counted"} =>
             req[c].key \in Keys /\ (Is(c, "retry") => req[c].print \in (SUBSET Runs) \ {{}})
    /\ \A c \in Clients :
          req[c].pc \in {"locked", "counted"} =>
             ~Recorded(req[c].key) /\ Holders(req[c].key) = {c}
    /\ \A c \in Clients :
          req[c].pc = "counted" =>
             /\ Is(c, "webpage") /\ Cardinality(Admitted) < Limit
             /\ \A d \in Clients : req[d].pc = "counted" => d = c
    /\ \A a \in told : Recorded(a.key)

IInv == TypeOK /\ Numbered /\ Transactions /\ OneEffectPerKey /\ LimitKept

-----------------------------------------------------------------------------
(* Types.                                                                  *)

LEMMA RowTypes ==
  /\ NoRun \in RunRow /\ NoRecord \in RecordRow /\ NoMsg \in MsgRow
  /\ Idle \in ReqRow /\ Free \in WkRow
<1>1. MaxRuns \in Nat /\ Deliveries \in Nat
  BY AdmissionAssumption
<1>2. 0 \in 0 .. MaxRuns /\ 0 \in 0 .. Deliveries
  BY <1>1
<1> QED
  BY <1>2 DEF NoRun, RunRow, NoRecord, RecordRow, NoMsg, MsgRow, Idle, ReqRow, Free, WkRow, Runs

LEMMA PublishingType ==
  ASSUME NEW k \in Keys \cup {None}, NEW left \in SUBSET Runs
  PROVE  Publishing(k, left) \in ReqRow
BY RowTypes DEF Publishing, ReqRow

LEMMA GoesType ==
  ASSUME TypeOK, NEW c \in Clients, NEW k \in Keys, NEW print \in Prints,
         NEW pc \in {"checked", "locked"}, Goes(c, pc, k, print)
  PROVE  req' \in [Clients -> ReqRow]
<1>1. [pc |-> pc, key |-> k, print |-> print, left |-> {}] \in ReqRow
  BY DEF ReqRow
<1> QED
  BY <1>1 DEF Goes, TypeOK

LEMMA ReplayType ==
  ASSUME TypeOK, NEW c \in Clients, NEW k \in Keys, NEW print \in Prints \cup {None},
         NEW left \in SUBSET Runs, Replay(c, k, print, left)
  PROVE  /\ req' \in [Clients -> ReqRow]
         /\ told' \subseteq [key : Keys, print : Prints \cup {None}, runs : SUBSET Runs]
<1>1. Publishing(k, left) \in ReqRow /\ Idle \in ReqRow
  BY PublishingType, RowTypes
<1>2. record[k].runs \in SUBSET Runs
  BY DEF TypeOK, RecordRow
<1> QED
  BY <1>1, <1>2 DEF Replay, Answer, TypeOK

LEMMA InsertionType ==
  ASSUME TypeOK, NEW c \in Clients, NEW k \in Keys, NEW print \in Prints,
         Insertion(c, k, print)
  PROVE  TypeOK'
<1>1. record[k].runs \in SUBSET Runs
  BY DEF TypeOK, RecordRow
<1>2. /\ req' \in [Clients -> ReqRow]
      /\ told' \subseteq [key : Keys, print : Prints \cup {None}, runs : SUBSET Runs]
  <2>1. CASE Goes(c, "locked", k, print) /\ UNCHANGED told
    BY <2>1, GoesType DEF TypeOK
  <2>2. CASE Replay(c, k, print, record[k].runs)
    BY <2>2, <1>1, ReplayType
  <2> QED
    BY <2>1, <2>2 DEF Insertion
<1> QED
  BY <1>2 DEF Insertion, TypeOK

LEMMA BuiltType ==
  ASSUME TypeOK, NEW w \in Workers, NEW r \in Runs
  PROVE  Built(w, r) \in [Workers -> WkRow]
<1>1. [wk[w] EXCEPT !.todo = @ \ {r}, !.at = 0, !.seen = "none"] \in WkRow
  <2>1. wk[w] \in WkRow /\ wk[w].todo \ {r} \in SUBSET Runs
    BY DEF TypeOK, WkRow
  <2>2. 0 \in 0 .. MaxRuns
    BY AdmissionAssumption
  <2> QED
    BY <2>1, <2>2 DEF WkRow
<1>2. Built(w, r) = [wk EXCEPT ![w] = [wk[w] EXCEPT !.todo = @ \ {r}, !.at = 0, !.seen = "none"]]
  BY DEF Built, TypeOK, WkRow
<1> QED
  BY <1>1, <1>2 DEF TypeOK

LEMMA FailQueuedType ==
  ASSUME TypeOK, NEW R \in SUBSET Runs
  PROVE  FailQueued(R) \in [Runs -> RunRow]
<1>1. \A r \in Runs : [run[r] EXCEPT !.status = "failed"] \in RunRow /\ run[r] \in RunRow
  BY DEF TypeOK, RunRow
<1> QED
  BY <1>1 DEF FailQueued

LEMMA SettleType ==
  ASSUME TypeOK, NEW w \in Workers, NEW state \in {"ready", "done"}, Settle(w, state)
  PROVE  wk' \in [Workers -> WkRow] /\ msg' \in [Runs -> MsgRow]
<1>1. wk' \in [Workers -> WkRow]
  BY RowTypes DEF Settle, TypeOK
<1>2. CASE Leased(w)
  <2>1. wk[w].run \in Runs
    BY <1>2, AdmissionAssumption DEF Leased, TypeOK, WkRow, Runs
  <2>2. [msg[wk[w].run] EXCEPT !.state = state, !.by = None] \in MsgRow
    BY <2>1 DEF TypeOK, MsgRow
  <2>3. msg' = [msg EXCEPT ![wk[w].run] = [msg[wk[w].run] EXCEPT !.state = state, !.by = None]]
    BY <1>2, <2>1 DEF Settle, TypeOK, MsgRow
  <2> QED
    BY <1>1, <2>1, <2>2, <2>3 DEF TypeOK
<1>3. CASE ~Leased(w)
  BY <1>1, <1>3 DEF Settle, TypeOK
<1> QED
  BY <1>2, <1>3

\* The runs of a request about to be committed.
LEMMA NewRuns ==
  ASSUME TypeOK, Transactions, NEW c \in Clients, req[c].pc \in {"locked", "counted"}
  PROVE  Items(c) \in Nat \ {0}
<1>1. req[c].key \in Keys /\ kind[req[c].key] \in Kind
  BY DEF Transactions, TypeOK
<1>2. CASE Is(c, "retry")
  <2>1. IsFiniteSet(Runs)
    BY FS_Interval, AdmissionAssumption DEF Runs
  <2>2. req[c].print \subseteq Runs /\ req[c].print # {}
    <3>1. req[c].pc \in {"checked", "locked", "counted"}
      OBVIOUS
    <3>2. req[c].print \in (SUBSET Runs) \ {{}}
      BY <1>2, <3>1 DEF Transactions
    <3> QED
      BY <3>2
  <2>3. IsFiniteSet(req[c].print)
    BY <2>1, <2>2, FS_Subset
  <2>4. Cardinality(req[c].print) \in Nat /\ Cardinality(req[c].print) # 0
    BY <2>2, <2>3, FS_CardinalityType, FS_EmptySet
  <2> QED
    BY <1>2, <2>4 DEF Items, Is
<1>3. CASE ~Is(c, "retry")
  BY <1>1, <1>3, AdmissionAssumption DEF Items, Is, Kind
<1> QED
  BY <1>2, <1>3

LEMMA TypeInit == Init => TypeOK
<1> SUFFICES ASSUME Init PROVE TypeOK
  OBVIOUS
<1>1. kind \in [Keys -> Kind]
  BY AdmissionAssumption DEF Init
<1>2. born \in 0 .. MaxRuns /\ faults \in 0 .. MaxFaults
  BY AdmissionAssumption DEF Init
<1> QED
  BY <1>1, <1>2, RowTypes DEF Init, TypeOK

LEMMA FaultType == ASSUME TypeOK, Fault PROVE faults' \in 0 .. MaxFaults
BY AdmissionAssumption DEF TypeOK, Fault

LEMMA CreateType ==
  ASSUME TypeOK, Transactions, NEW c \in Clients, Create(c)
  PROVE  TypeOK'
<1>1. req[c].pc \in {"locked", "counted"} /\ req[c].key \in Keys
  BY DEF Create, Transactions
<1>2. Items(c) \in Nat \ {0}
  BY <1>1, NewRuns
<1>3. born' \in 0 .. MaxRuns /\ born + 1 .. born + Items(c) \in SUBSET Runs
  BY <1>2, AdmissionAssumption DEF Create, TypeOK, Runs
<1> DEFINE new == born + 1 .. born + Items(c)
<1>4. PICK bad \in BOOLEAN :
        /\ bad => Fault
        /\ ~bad => UNCHANGED faults
        /\ run' = [r \in Runs |-> IF r \in new
                     THEN [NoRun EXCEPT !.status = "queued", !.key = req[c].key, !.bad = bad]
                     ELSE run[r]]
        /\ record' = [record EXCEPT ![req[c].key] = [print |-> req[c].print, runs |-> new]]
        /\ req' = [req EXCEPT ![c] = Publishing(req[c].key, new)]
        /\ Answer(req[c].key, req[c].print, new)
  BY DEF Create
<1>5. faults' \in 0 .. MaxFaults
  BY <1>4, FaultType DEF TypeOK
<1>6. new \in SUBSET Runs /\ req[c].print \in Prints \cup {None}
  BY <1>3 DEF TypeOK, ReqRow
<1> HIDE DEF new
<1>7. run' \in [Runs -> RunRow]
  <2>1. [NoRun EXCEPT !.status = "queued", !.key = req[c].key, !.bad = bad] \in RunRow
    BY <1>1 DEF NoRun, RunRow
  <2> QED
    BY <1>4, <2>1 DEF TypeOK
<1>8. record' \in [Keys -> RecordRow]
  BY <1>1, <1>4, <1>6 DEF TypeOK, RecordRow
<1>9. req' \in [Clients -> ReqRow]
  BY <1>1, <1>4, <1>6, PublishingType DEF TypeOK
<1>10. told' \subseteq [key : Keys, print : Prints \cup {None}, runs : SUBSET Runs]
  BY <1>1, <1>4, <1>6 DEF TypeOK, Answer
<1> QED
  BY <1>3, <1>5, <1>7, <1>8, <1>9, <1>10 DEF Create, TypeOK

LEMMA ClientType ==
  ASSUME TypeOK, Transactions, NEW c \in Clients, ClientStep(c)
  PROVE  TypeOK'
<1>1. ASSUME NEW k \in Keys, ReadFailed(c, k) PROVE TypeOK'
  <2>1. Failed(k) \in Prints
    BY DEF Failed, OfKey, Prints
  <2>2. req' \in [Clients -> ReqRow]
    BY <1>1, <2>1, GoesType DEF ReadFailed
  <2> QED
    BY <1>1, <2>2 DEF ReadFailed, TypeOK
<1>2. ASSUME NEW k \in Keys, NEW b \in Bodies, Request(c, k, b) PROVE TypeOK'
  <2>1. b \in Prints
    BY DEF Prints
  <2> QED
    BY <1>2, <2>1, InsertionType DEF Request
<1>3. ASSUME NEW k \in Keys, NEW b \in Bodies, Find(c, k, b) PROVE TypeOK'
  <2> DEFINE left == {r \in record[k].runs : run[r].status = "queued"}
  <2>1. b \in Prints /\ left \in SUBSET Runs
    BY DEF Prints, TypeOK, RecordRow
  <2>2. /\ req' \in [Clients -> ReqRow]
        /\ told' \subseteq [key : Keys, print : Prints \cup {None}, runs : SUBSET Runs]
    <3>1. CASE Goes(c, "checked", k, b) /\ UNCHANGED told
      BY <2>1, <3>1, GoesType DEF TypeOK
    <3>2. CASE Replay(c, k, b, left)
      <4> HIDE DEF left
      <4> QED
        BY <2>1, <3>2, ReplayType
    <3> QED
      BY <1>3, <3>1, <3>2 DEF Find
  <2> QED
    BY <1>3, <2>2 DEF Find, TypeOK
<1>4. CASE Refuse(c) \/ Count(c)
  <2>1. [req[c] EXCEPT !.pc = "counted"] \in ReqRow
    BY DEF TypeOK, ReqRow
  <2>2. req' \in [Clients -> ReqRow]
    BY <1>4, <2>1, RowTypes DEF Refuse, Count, TypeOK
  <2> QED
    BY <1>4, <2>2 DEF Refuse, Count, TypeOK
<1>5. CASE Insert(c)
  <2>1. CASE req[c].print \in Prints
    <3>1. req[c].key \in Keys
      BY <1>5 DEF Insert, Transactions
    <3> QED
      BY <1>5, <2>1, <3>1, InsertionType DEF Insert
  <2>2. CASE req[c].print = None
    <3>1. req[c].key \in Keys /\ req[c].pc = "checked"
      BY <1>5 DEF Insert, Transactions
    <3>2. record[req[c].key].runs \in SUBSET Runs
      BY <3>1 DEF TypeOK, RecordRow
    <3>3. [pc |-> "locked", key |-> req[c].key, print |-> None, left |-> {}] \in ReqRow
      BY <3>1 DEF ReqRow
    <3>4. /\ req' \in [Clients -> ReqRow]
          /\ told' \subseteq [key : Keys, print : Prints \cup {None}, runs : SUBSET Runs]
      BY <1>5, <2>2, <3>1, <3>2, <3>3, ReplayType DEF Insert, Insertion, Goes, TypeOK
    <3> QED
      BY <1>5, <3>4 DEF Insert, Insertion, TypeOK
  <2> QED
    BY <2>1, <2>2 DEF TypeOK, ReqRow
<1>6. CASE Create(c)
  BY <1>6, CreateType
<1>7. CASE Publish(c) \/ PublishFails(c)
  <2>1. PICK r \in req[c].left : req' = [req EXCEPT ![c] = Publishing(req[c].key, req[c].left \ {r})]
    BY <1>7 DEF Publish, PublishFails
  <2>2. req[c].key \in Keys \cup {None} /\ req[c].left \ {r} \in SUBSET Runs
    BY DEF TypeOK, ReqRow
  <2>3. req' \in [Clients -> ReqRow]
    BY <2>1, <2>2, PublishingType DEF TypeOK
  <2>4. [NoMsg EXCEPT !.state = "ready"] \in MsgRow
    BY RowTypes DEF MsgRow
  <2>5. msg' \in [Runs -> MsgRow]
    <3>1. CASE Publish(c)
      <4>1. PICK s \in req[c].left :
              msg' = [msg EXCEPT ![s] = IF msg[s] = NoMsg THEN [msg[s] EXCEPT !.state = "ready"] ELSE msg[s]]
        BY <3>1 DEF Publish
      <4>2. s \in Runs
        BY DEF TypeOK, ReqRow
      <4>3. (IF msg[s] = NoMsg THEN [msg[s] EXCEPT !.state = "ready"] ELSE msg[s]) \in MsgRow
        BY <2>4, <4>2 DEF TypeOK
      <4> QED
        BY <4>1, <4>2, <4>3 DEF TypeOK
    <3> QED
      BY <1>7, <3>1 DEF PublishFails, TypeOK
  <2>6. faults' \in 0 .. MaxFaults
    BY <1>7, FaultType DEF Publish, PublishFails, TypeOK
  <2> QED
    BY <1>7, <2>3, <2>5, <2>6 DEF Publish, PublishFails, TypeOK
<1>8. CASE Lost(c)
  <2>1. req' \in [Clients -> ReqRow]
    BY <1>8, RowTypes DEF Lost, TypeOK
  <2> QED
    BY <1>8, <2>1, FaultType DEF Lost, TypeOK
<1> QED
  BY <1>1, <1>2, <1>3, <1>4, <1>5, <1>6, <1>7, <1>8 DEF ClientStep

LEMMA WorkerType ==
  ASSUME TypeOK, NEW w \in Workers, WorkerStep(w)
  PROVE  run' \in [Runs -> RunRow] /\ msg' \in [Runs -> MsgRow] /\ wk' \in [Workers -> WkRow]
<1>1. CASE Sweep(w)
  <2>1. PICK unread \in SUBSET {r \in Window : run[r].bad} :
          /\ run' = FailQueued(unread)
          /\ wk' = [wk EXCEPT ![w].pc = "build", ![w].todo = Pending \ unread]
    BY <1>1 DEF Sweep
  <2>2. unread \in SUBSET Runs /\ Pending \ unread \in SUBSET Runs
    BY DEF Window, Queued, Pending
  <2>3. run' \in [Runs -> RunRow]
    BY <2>1, <2>2, FailQueuedType
  <2>4. [wk[w] EXCEPT !.pc = "build", !.todo = Pending \ unread] \in WkRow
    BY <2>2 DEF TypeOK, WkRow
  <2>5. wk' = [wk EXCEPT ![w] = [wk[w] EXCEPT !.pc = "build", !.todo = Pending \ unread]]
    BY <2>1 DEF TypeOK, WkRow
  <2>6. wk' \in [Workers -> WkRow]
    BY <2>4, <2>5 DEF TypeOK
  <2> QED
    BY <1>1, <2>3, <2>6 DEF Sweep, TypeOK
<1>2. CASE Reserve(w)
  <2>1. PICK r \in Runs, unread \in SUBSET {s \in Window : run[s].bad} :
          /\ msg[r].n < MaxDeliveries(r)
          /\ msg' = [msg EXCEPT ![r] = [state |-> "leased", by |-> w, n |-> msg[r].n + 1]]
          /\ run' = FailQueued(unread)
          /\ wk' = [wk EXCEPT ![w].pc = "build", ![w].run = r, ![w].todo = (Pending \ unread) \cap {r}]
    BY <1>2 DEF Reserve
  <2>2. unread \in SUBSET Runs /\ (Pending \ unread) \cap {r} \in SUBSET Runs
    BY DEF Window, Queued, Pending
  <2>3. run' \in [Runs -> RunRow]
    BY <2>1, <2>2, FailQueuedType
  <2>4. r \in 0 .. MaxRuns
    BY AdmissionAssumption DEF Runs
  <2>5. [wk[w] EXCEPT !.pc = "build", !.run = r, !.todo = (Pending \ unread) \cap {r}] \in WkRow
    BY <2>2, <2>4 DEF TypeOK, WkRow
  <2>6. wk' = [wk EXCEPT ![w] = [wk[w] EXCEPT !.pc = "build", !.run = r, !.todo = (Pending \ unread) \cap {r}]]
    BY <2>1 DEF TypeOK, WkRow
  <2>7. wk' \in [Workers -> WkRow]
    BY <2>5, <2>6 DEF TypeOK
  <2>8. msg[r].n + 1 \in 0 .. Deliveries
    <3>1. msg[r].n \in 0 .. Deliveries
      BY DEF TypeOK, MsgRow
    <3> QED
      BY <2>1, <3>1, AdmissionAssumption DEF MaxDeliveries
  <2>9. msg' \in [Runs -> MsgRow]
    BY <2>1, <2>8 DEF TypeOK, MsgRow
  <2> QED
    BY <2>3, <2>7, <2>9
<1>3. CASE Begin(w)
  <2>1. PICK r \in wk[w].todo :
          \/ run' = FailQueued({r}) /\ wk' = Built(w, r)
          \/ /\ wk' = IF run[r].graph = "whole" THEN Built(w, r)
                      ELSE [wk EXCEPT ![w].at = r, ![w].seen = run[r].graph]
             /\ UNCHANGED run
    BY <1>3 DEF Begin
  <2>2. r \in Runs /\ r \in 0 .. MaxRuns
    BY AdmissionAssumption DEF TypeOK, WkRow, Runs
  <2>3. run' \in [Runs -> RunRow]
    BY <2>1, <2>2, FailQueuedType DEF TypeOK
  <2>4. CASE wk' = Built(w, r)
    BY <1>3, <2>2, <2>3, <2>4, BuiltType DEF Begin, TypeOK
  <2>5. CASE run[r].graph # "whole" /\ wk' = [wk EXCEPT ![w].at = r, ![w].seen = run[r].graph]
    <3>1. run[r].graph \in {"none", "part"}
      BY <2>2, <2>5 DEF TypeOK, RunRow
    <3>2. [wk[w] EXCEPT !.at = r, !.seen = run[r].graph] \in WkRow
      BY <2>2, <3>1 DEF TypeOK, WkRow
    <3>3. wk' = [wk EXCEPT ![w] = [wk[w] EXCEPT !.at = r, !.seen = run[r].graph]]
      BY <2>5 DEF TypeOK, WkRow
    <3> QED
      BY <1>3, <2>3, <3>2, <3>3 DEF Begin, TypeOK
  <2> QED
    BY <2>1, <2>4, <2>5
<1>4. CASE InsertRow(w)
  <2>1. wk[w].at \in Runs
    BY <1>4, AdmissionAssumption DEF InsertRow, TypeOK, WkRow, Runs
  <2>2. /\ [run[wk[w].at] EXCEPT !.graph = "part"] \in RunRow
        /\ [run[wk[w].at] EXCEPT !.graph = "whole"] \in RunRow
    BY <2>1 DEF TypeOK, RunRow
  <2>3. run' \in [Runs -> RunRow]
    BY <1>4, <2>1, <2>2 DEF InsertRow, TypeOK
  <2>4. [wk[w] EXCEPT !.seen = "part"] \in WkRow
    BY DEF TypeOK, WkRow
  <2>5. wk' \in [Workers -> WkRow]
    <3>1. CASE wk' = [wk EXCEPT ![w].seen = "part"]
      <4>1. wk' = [wk EXCEPT ![w] = [wk[w] EXCEPT !.seen = "part"]]
        BY <3>1
      <4> QED
        BY <2>4, <4>1 DEF TypeOK
    <3>2. CASE wk' = Built(w, wk[w].at)
      BY <2>1, <3>2, BuiltType
    <3> QED
      BY <1>4, <3>1, <3>2 DEF InsertRow
  <2> QED
    BY <1>4, <2>3, <2>5 DEF InsertRow, TypeOK
<1>5. CASE RowConflict(w)
  BY <1>5, SettleType DEF RowConflict, TypeOK
<1>6. CASE Done(w)
  BY <1>6, SettleType DEF Done, TypeOK
<1> QED
  BY <1>1, <1>2, <1>3, <1>4, <1>5, <1>6 DEF WorkerStep

LEMMA OutsideType ==
  ASSUME TypeOK, NEW r \in Runs, Lapse(r) \/ KeyExpires(r) \/ Start(r) \/ End(r) \/ Cancel(r) \/ ManualRetry(r)
  PROVE  TypeOK'
<1>1. CASE Lapse(r)
  <2>1. \A state \in {"ready", "dead"} : [msg[r] EXCEPT !.state = state, !.by = None] \in MsgRow
    BY DEF TypeOK, MsgRow
  <2>2. \E state \in {"ready", "dead"} : msg' = [msg EXCEPT ![r] = [msg[r] EXCEPT !.state = state, !.by = None]]
    BY <1>1 DEF Lapse, TypeOK, MsgRow
  <2>3. msg' \in [Runs -> MsgRow]
    BY <2>1, <2>2 DEF TypeOK
  <2> QED
    BY <1>1, <2>3, FaultType DEF Lapse, TypeOK, api
<1>2. CASE Start(r) \/ End(r) \/ Cancel(r)
  <2>1. \A to \in {"running", "over", "failed"} : [run[r] EXCEPT !.status = to] \in RunRow
    BY DEF TypeOK, RunRow
  <2>2. \E to \in {"running", "over", "failed"} : run' = [run EXCEPT ![r] = [run[r] EXCEPT !.status = to]]
    BY <1>2 DEF Start, End, Cancel, Moves
  <2>3. run' \in [Runs -> RunRow]
    BY <2>1, <2>2 DEF TypeOK
  <2> QED
    BY <1>2, <2>3 DEF Start, End, Cancel, Moves, TypeOK, api
<1>3. CASE ManualRetry(r)
  <2>1. [run[r] EXCEPT !.status = "running", !.reopened = TRUE] \in RunRow
    BY DEF TypeOK, RunRow
  <2>2. run' = [run EXCEPT ![r] = [run[r] EXCEPT !.status = "running", !.reopened = TRUE]]
    BY <1>3 DEF ManualRetry, TypeOK, RunRow
  <2>3. run' \in [Runs -> RunRow]
    BY <2>1, <2>2 DEF TypeOK
  <2> QED
    BY <1>3, <2>3, FaultType DEF ManualRetry, TypeOK, api
<1>4. CASE KeyExpires(r)
  <2>1. msg' \in [Runs -> MsgRow]
    BY <1>4, RowTypes DEF KeyExpires, TypeOK
  <2> QED
    BY <1>4, <2>1, FaultType DEF KeyExpires, TypeOK, api
<1> QED
  BY <1>1, <1>2, <1>3, <1>4

LEMMA TypeStep == TypeOK /\ Transactions /\ [Next]_vars => TypeOK'
<1> SUFFICES ASSUME TypeOK, Transactions, [Next]_vars PROVE TypeOK'
  OBVIOUS
<1>1. ASSUME NEW c \in Clients, ClientStep(c) PROVE TypeOK'
  BY <1>1, ClientType
<1>2. ASSUME NEW w \in Workers, WorkerStep(w) PROVE TypeOK'
  <2>1. UNCHANGED <<api, faults>>
    BY <1>2 DEF WorkerStep, Sweep, Reserve, Begin, InsertRow, RowConflict, Done
  <2> QED
    BY <1>2, <2>1, WorkerType DEF TypeOK, api
<1>3. ASSUME NEW w \in Workers, Crash(w) PROVE TypeOK'
  BY <1>3, FaultType, RowTypes DEF Crash, TypeOK, api
<1>4. ASSUME NEW r \in Runs, Lapse(r) \/ KeyExpires(r) \/ Start(r) \/ End(r) \/ Cancel(r) \/ ManualRetry(r) PROVE TypeOK'
  BY <1>4, OutsideType
<1>5. CASE UNCHANGED vars
  BY <1>5 DEF vars, TypeOK
<1> QED
  BY <1>1, <1>2, <1>3, <1>4, <1>5 DEF Next

-----------------------------------------------------------------------------
(* Runs that only move on.                                                 *)

\* No run changes its key or comes under the limit.
RunsMove ==
    \A r \in Runs :
        /\ run'[r].key = run[r].key
        /\ run'[r].status \in Active /\ ~run'[r].reopened
             => run[r].status \in Active /\ ~run[r].reopened

LEMMA AdmittedFinite == IsFiniteSet(Admitted) /\ Cardinality(Admitted) \in Nat
<1>1. IsFiniteSet(Runs)
  BY FS_Interval, AdmissionAssumption DEF Runs
<1>2. Admitted \in SUBSET Runs
  BY DEF Admitted, ActiveWebpages, WebpageRuns
<1> QED
  BY <1>1, <1>2, FS_Subset, FS_CardinalityType

LEMMA FewerAdmitted ==
  ASSUME RunsMove, kind' = kind
  PROVE  Cardinality(Admitted') <= Cardinality(Admitted) /\ Cardinality(Admitted') \in Nat
<1>1. Admitted' \subseteq Admitted
  BY DEF RunsMove, Admitted, ActiveWebpages, WebpageRuns
<1> QED
  BY <1>1, AdmittedFinite, FS_Subset, FS_CardinalityType

\* What happens outside the API respects what the API has promised.
LEMMA OutsideKeeps ==
  ASSUME IInv, TypeOK', RunsMove, UNCHANGED api
  PROVE  IInv'
<1>1. Numbered'
  BY DEF IInv, Numbered, RunsMove, api
<1>2. \A k \in Keys : OfKey(k)' = OfKey(k)
  BY DEF OfKey, RunsMove
<1>3. OneEffectPerKey'
  BY <1>2 DEF IInv, OneEffectPerKey, api
<1>4. Cardinality(Admitted') <= Cardinality(Admitted) /\ Cardinality(Admitted') \in Nat
  BY FewerAdmitted DEF api
<1>5. LimitKept'
  BY <1>4, AdmittedFinite, AdmissionAssumption DEF IInv, LimitKept
<1>6. Transactions'
  <2>1. \A c \in Clients : Is(c, "retry")' = Is(c, "retry") /\ Is(c, "webpage")' = Is(c, "webpage")
    BY DEF Is, api
  <2>2. \A k : Holders(k)' = Holders(k) /\ Recorded(k)' = Recorded(k)
    BY DEF Holders, Recorded, api
  <2>3. Cardinality(Admitted) < Limit => Cardinality(Admitted') < Limit
    BY <1>4, AdmittedFinite, AdmissionAssumption
  <2> QED
    BY <2>1, <2>2, <2>3 DEF IInv, Transactions, api
<1> QED
  BY <1>1, <1>3, <1>5, <1>6 DEF IInv

LEMMA FailQueuedMoves ==
  ASSUME TypeOK, NEW R, run' = FailQueued(R)
  PROVE  RunsMove
BY DEF RunsMove, FailQueued, TypeOK, RunRow, Active

LEMMA SameRuns == UNCHANGED run => RunsMove
BY DEF RunsMove

LEMMA WorkerMoves ==
  ASSUME TypeOK, NEW w \in Workers, WorkerStep(w)
  PROVE  RunsMove /\ UNCHANGED api
<1>1. UNCHANGED api
  BY DEF WorkerStep, Sweep, Reserve, Begin, InsertRow, RowConflict, Done, api
<1>2. CASE Sweep(w) \/ Reserve(w) \/ Begin(w)
  <2>1. UNCHANGED run \/ \E R : run' = FailQueued(R)
    BY <1>2 DEF Sweep, Reserve, Begin
  <2> QED
    BY <1>1, <2>1, FailQueuedMoves, SameRuns
<1>3. CASE InsertRow(w)
  <2>1. wk[w].at \in Runs
    BY <1>3, AdmissionAssumption DEF InsertRow, TypeOK, WkRow, Runs
  <2>2. \E graph : run' = [run EXCEPT ![wk[w].at] = [run[wk[w].at] EXCEPT !.graph = graph]]
    BY <1>3, <2>1 DEF InsertRow
  <2>3. \A r \in Runs : /\ run'[r].key = run[r].key
                        /\ run'[r].status = run[r].status /\ run'[r].reopened = run[r].reopened
    BY <2>1, <2>2 DEF TypeOK, RunRow
  <2> QED
    BY <1>1, <2>3 DEF RunsMove
<1>4. CASE RowConflict(w) \/ Done(w)
  BY <1>1, <1>4, SameRuns DEF RowConflict, Done
<1> QED
  BY <1>2, <1>3, <1>4 DEF WorkerStep

LEMMA OutsideMoves ==
  ASSUME TypeOK, NEW r \in Runs, Lapse(r) \/ KeyExpires(r) \/ Start(r) \/ End(r) \/ Cancel(r) \/ ManualRetry(r)
  PROVE  RunsMove /\ UNCHANGED api
<1>1. UNCHANGED api
  BY DEF Lapse, KeyExpires, Start, End, Cancel, ManualRetry, Moves
<1>2. CASE Lapse(r) \/ KeyExpires(r)
  BY <1>1, <1>2, SameRuns DEF Lapse, KeyExpires
<1>3. CASE Start(r) \/ End(r) \/ Cancel(r)
  <2>1. run[r].status \in Active
    BY <1>3 DEF Start, End, Cancel, Moves, Active
  <2>2. \E to : run' = [run EXCEPT ![r] = [run[r] EXCEPT !.status = to]]
    BY <1>3 DEF Start, End, Cancel, Moves
  <2>3. \A s \in Runs : /\ run'[s].key = run[s].key /\ run'[s].reopened = run[s].reopened
                        /\ s # r => run'[s].status = run[s].status
    BY <2>2 DEF TypeOK, RunRow
  <2> QED
    BY <1>1, <2>1, <2>3 DEF RunsMove
<1>4. CASE ManualRetry(r)
  <2>1. run' = [run EXCEPT ![r] = [run[r] EXCEPT !.status = "running", !.reopened = TRUE]]
    BY <1>4 DEF ManualRetry, TypeOK, RunRow
  <2>2. \A s \in Runs : /\ run'[s].key = run[s].key
                        /\ s # r => run'[s] = run[s]
                        /\ s = r => run'[s].reopened
    BY <2>1 DEF TypeOK, RunRow
  <2> QED
    BY <1>1, <2>2 DEF RunsMove
<1> QED
  BY <1>2, <1>3, <1>4

-----------------------------------------------------------------------------
(* Requests.                                                               *)

\* The request of one client moves on and opens no transaction.
LEMMA RequestMoves ==
  ASSUME IInv, NEW c \in Clients, NEW row,
         UNCHANGED <<kind, record, run>>,
         req' = [req EXCEPT ![c] = row],
         row.pc \notin {"locked", "counted"},
         row.pc = "checked" =>
            row.key \in Keys /\ (kind[row.key] = "retry" => row.print \in (SUBSET Runs) \ {{}}),
         \A a \in told' : Recorded(a.key)
  PROVE  Transactions'
<1>1. \A d \in Clients : req'[d] = IF d = c THEN row ELSE req[d]
  BY DEF IInv, TypeOK
<1>2. \A k : Recorded(k)' = Recorded(k) /\ Admitted' = Admitted
  BY DEF Recorded, Admitted, ActiveWebpages, WebpageRuns
<1>3. \A k, d : Holders(k) = {d} /\ d # c => Holders(k)' = {d}
  BY <1>1 DEF Holders
<1>4. \A d \in Clients \ {c} : \A x : Is(d, x)' = Is(d, x)
  BY <1>1 DEF Is
<1>5. ASSUME NEW d \in Clients, req'[d].pc \in {"checked", "locked", "counted"}
      PROVE  req'[d].key \in Keys /\ (Is(d, "retry")' => req'[d].print \in (SUBSET Runs) \ {{}})
  BY <1>1, <1>4, <1>5 DEF IInv, Transactions, Is
<1>6. ASSUME NEW d \in Clients, req'[d].pc \in {"locked", "counted"}
      PROVE  ~Recorded(req[d].key)' /\ Holders(req[d].key)' = {d}
  <2>1. d # c /\ req'[d] = req[d]
    BY <1>1, <1>6
  <2>2. ~Recorded(req[d].key) /\ Holders(req[d].key) = {d}
    BY <1>6, <2>1 DEF IInv, Transactions
  <2> QED
    BY <1>2, <1>3, <2>1, <2>2
<1>7. ASSUME NEW d \in Clients, req'[d].pc = "counted"
      PROVE  /\ Is(d, "webpage")' /\ Cardinality(Admitted') < Limit
             /\ \A e \in Clients : req'[e].pc = "counted" => e = d
  BY <1>1, <1>2, <1>4, <1>7 DEF IInv, Transactions
<1> QED
  BY <1>1, <1>2, <1>5, <1>6, <1>7 DEF Transactions

\* Opening a transaction: nobody else has one with this key.
LEMMA RequestLocks ==
  ASSUME IInv, NEW c \in Clients, NEW k \in Keys, NEW print,
         UNCHANGED <<kind, record, run, told>>,
         Goes(c, "locked", k, print), Holders(k) = {}, ~Recorded(k),
         kind[k] = "retry" => print \in (SUBSET Runs) \ {{}}
  PROVE  Transactions'
<1> DEFINE row == [pc |-> "locked", key |-> k, print |-> print, left |-> {}]
<1>1. \A d \in Clients : req'[d] = IF d = c THEN row ELSE req[d]
  BY DEF IInv, TypeOK, Goes
<1>2. \A j : Recorded(j)' = Recorded(j) /\ Admitted' = Admitted
  BY DEF Recorded, Admitted, ActiveWebpages, WebpageRuns
<1>3. Holders(k)' = {c}
  BY <1>1 DEF Holders
<1>4. \A j, d : Holders(j) = {d} /\ j # k /\ d # c => Holders(j)' = {d}
  BY <1>1 DEF Holders
<1>5. \A d \in Clients \ {c} : \A x : Is(d, x)' = Is(d, x)
  BY <1>1 DEF Is
<1>6. ASSUME NEW d \in Clients, req'[d].pc \in {"checked", "locked", "counted"}
      PROVE  req'[d].key \in Keys /\ (Is(d, "retry")' => req'[d].print \in (SUBSET Runs) \ {{}})
  BY <1>1, <1>5, <1>6 DEF IInv, Transactions, Is
<1>7. ASSUME NEW d \in Clients, req'[d].pc \in {"locked", "counted"}
      PROVE  ~Recorded(req[d].key)' /\ Holders(req[d].key)' = {d}
  <2>1. CASE d = c
    BY <1>1, <1>2, <1>3, <2>1
  <2>2. CASE d # c
    <3>1. req'[d] = req[d] /\ Holders(req[d].key) = {d} /\ ~Recorded(req[d].key)
      BY <1>1, <1>7, <2>2 DEF IInv, Transactions
    <3>2. req[d].key # k
      BY <3>1
    <3> QED
      BY <1>2, <1>4, <2>2, <3>1, <3>2
  <2> QED
    BY <2>1, <2>2
<1>8. ASSUME NEW d \in Clients, req'[d].pc = "counted"
      PROVE  /\ Is(d, "webpage")' /\ Cardinality(Admitted') < Limit
             /\ \A e \in Clients : req'[e].pc = "counted" => e = d
  BY <1>1, <1>2, <1>5, <1>8 DEF IInv, Transactions
<1> QED
  BY <1>1, <1>2, <1>6, <1>7, <1>8 DEF IInv, Transactions

\* An answer from the record agrees with the record.
LEMMA ReplayKeeps ==
  ASSUME IInv, NEW c \in Clients, NEW k \in Keys, NEW print, NEW left,
         Replay(c, k, print, left), UNCHANGED <<kind, record, run>>
  PROVE  Transactions' /\ OneEffectPerKey'
<1>1. Publishing(k, left).pc \in {"idle", "publish"} /\ Idle.pc = "idle"
  BY DEF Publishing, Idle
<1>2. PICK row : req' = [req EXCEPT ![c] = row] /\ row.pc \in {"idle", "publish"}
  BY <1>1 DEF Replay
<1>3. \A a \in told' : a \in told \/ (a.key = k /\ record[k] = [print |-> a.print, runs |-> a.runs])
  <2>1. record[k] = [print |-> record[k].print, runs |-> record[k].runs]
    BY DEF IInv, TypeOK, RecordRow
  <2> QED
    BY <2>1 DEF Replay, Answer
<1>4. \A a \in told' : Recorded(a.key)
  BY <1>3 DEF Replay, IInv, Transactions
<1>5. Transactions'
  BY <1>2, <1>4, RequestMoves
<1>6. OneEffectPerKey'
  BY <1>3 DEF IInv, OneEffectPerKey, OfKey
<1> QED
  BY <1>5, <1>6

LEMMA InsertionKeeps ==
  ASSUME IInv, NEW c \in Clients, NEW k \in Keys, NEW print, Insertion(c, k, print),
         kind[k] = "retry" => print \in (SUBSET Runs) \ {{}}
  PROVE  Transactions' /\ OneEffectPerKey'
<1>1. CASE ~Recorded(k) /\ Goes(c, "locked", k, print) /\ UNCHANGED told
  <2>1. Transactions'
    BY <1>1, RequestLocks DEF Insertion
  <2>2. OneEffectPerKey'
    BY <1>1 DEF Insertion, IInv, OneEffectPerKey, OfKey
  <2> QED
    BY <2>1, <2>2
<1>2. CASE Replay(c, k, print, record[k].runs)
  BY <1>2, ReplayKeeps DEF Insertion
<1> QED
  BY <1>1, <1>2 DEF Insertion

LEMMA CountKeeps ==
  ASSUME IInv, NEW c \in Clients, Count(c)
  PROVE  Transactions'
<1>1. CASE req' = [req EXCEPT ![c] = Idle]
  <2>1. Idle.pc = "idle"
    BY DEF Idle
  <2> QED
    BY <1>1, <2>1, RequestMoves DEF Count, IInv, Transactions
<1>2. CASE Cardinality(ActiveWebpages) < Limit /\ req' = [req EXCEPT ![c].pc = "counted"]
  <2>1. \A d \in Clients : /\ req'[d].key = req[d].key /\ req'[d].print = req[d].print
                           /\ req'[d].pc = IF d = c THEN "counted" ELSE req[d].pc
    BY <1>2 DEF IInv, TypeOK, ReqRow
  <2>2. \A k : Recorded(k)' = Recorded(k) /\ Admitted' = Admitted
    BY DEF Recorded, Admitted, ActiveWebpages, WebpageRuns, Count
  <2>3. \A d \in Clients : \A x : Is(d, x)' = Is(d, x)
    BY <2>1 DEF Is, Count
  <2>4. \A k : Holders(k)' = Holders(k)
    BY <2>1 DEF Holders, Count
  <2>5. Cardinality(Admitted) < Limit
    <3>1. IsFiniteSet(Runs)
      BY FS_Interval, AdmissionAssumption DEF Runs
    <3>2. ActiveWebpages \in SUBSET Runs
      BY DEF ActiveWebpages, WebpageRuns
    <3>3. IsFiniteSet(ActiveWebpages)
      BY <3>1, <3>2, FS_Subset
    <3>4. Cardinality(Admitted) <= Cardinality(ActiveWebpages) /\ Cardinality(ActiveWebpages) \in Nat
      BY <3>3, FS_Subset, FS_CardinalityType DEF Admitted
    <3> QED
      BY <1>2, <3>4, AdmittedFinite, AdmissionAssumption
  <2>6. told' = told
    BY DEF Count
  <2> QED
    BY <2>1, <2>2, <2>3, <2>4, <2>5, <2>6 DEF IInv, Transactions, Count
<1> QED
  BY <1>1, <1>2 DEF Count

\* The commit: the runs are new, their key had none, nobody else has the key.
LEMMA CreateKeeps ==
  ASSUME IInv, NEW c \in Clients, Create(c)
  PROVE  Numbered' /\ Transactions' /\ OneEffectPerKey' /\ LimitKept'
<1>1. req[c].pc \in {"locked", "counted"}
  BY DEF Create
<1> DEFINE k == req[c].key
<1>2. k \in Keys /\ ~Recorded(k) /\ Holders(k) = {c}
  BY <1>1 DEF IInv, Transactions
<1>3. Items(c) \in Nat \ {0} /\ born \in Nat
  BY <1>1, NewRuns DEF IInv, TypeOK
<1> DEFINE new == born + 1 .. born + Items(c)
<1>4. new # {} /\ new \in SUBSET Runs /\ \A r \in new : r > born /\ r <= born'
  <2>1. born + Items(c) <= MaxRuns /\ born' = born + Items(c) /\ MaxRuns \in Nat
    BY AdmissionAssumption DEF Create
  <2>2. born + 1 \in new
    BY <1>3
  <2>3. \A r \in new : r \in Runs /\ r > born /\ r <= born'
    BY <1>3, <2>1 DEF Runs
  <2> QED
    BY <2>2, <2>3
<1> DEFINE row == Publishing(k, new)
<1>5. /\ row.pc \in {"idle", "publish"}
      /\ req' = [req EXCEPT ![c] = row]
      /\ record' = [record EXCEPT ![k] = [print |-> req[c].print, runs |-> new]]
      /\ told' = told \cup {[key |-> k, print |-> req[c].print, runs |-> new]}
  <2>1. row.pc \in {"idle", "publish"}
    BY DEF Publishing, Idle
  <2> QED
    BY <2>1 DEF Create, Answer
<1>6. PICK bad \in BOOLEAN :
        run' = [r \in Runs |-> IF r \in new
                  THEN [NoRun EXCEPT !.status = "queued", !.key = k, !.bad = bad] ELSE run[r]]
  BY DEF Create
<1>7. kind' = kind /\ born' = born + Items(c)
  BY DEF Create
<1>8. \A r \in Runs : /\ r \in new => run[r].key = None
                      /\ r \in new => run'[r].key = k /\ ~run'[r].reopened /\ run'[r].status = "queued"
                      /\ r \notin new => run'[r] = run[r]
  BY <1>4, <1>6 DEF NoRun, IInv, Numbered
<1> HIDE DEF new, row
<1>9. Numbered'
  BY <1>3, <1>4, <1>7, <1>8, AdmissionAssumption DEF IInv, Numbered, Runs
<1>10. \A j \in Keys : record'[j] = IF j = k THEN [print |-> req[c].print, runs |-> new] ELSE record[j]
  BY <1>2, <1>5 DEF IInv, TypeOK
<1>11. OneEffectPerKey'
  <2>1. ASSUME NEW j \in Keys PROVE OfKey(j)' = record'[j].runs
    <3>1. CASE j = k
      <4>1. OfKey(k) = {}
        BY <1>2 DEF IInv, OneEffectPerKey, Recorded
      <4>2. \A r \in Runs : run'[r].key = k <=> r \in new
        BY <1>8, <4>1 DEF OfKey
      <4> QED
        BY <1>4, <1>10, <3>1, <4>2 DEF OfKey
    <3>2. CASE j # k
      <4>1. \A r \in Runs : run'[r].key = j <=> run[r].key = j
        BY <1>8, <3>2, AdmissionAssumption
      <4>2. OfKey(j) = record[j].runs
        BY DEF IInv, OneEffectPerKey
      <4> QED
        BY <1>10, <3>2, <4>1, <4>2 DEF OfKey
    <3> QED
      BY <3>1, <3>2
  <2>2. ASSUME NEW a \in told' PROVE record'[a.key] = [print |-> a.print, runs |-> a.runs]
    <3>1. CASE a \in told
      <4>1. a.key \in Keys /\ Recorded(a.key)
        BY <3>1 DEF IInv, TypeOK, Transactions
      <4> QED
        BY <1>2, <1>10, <3>1, <4>1 DEF IInv, OneEffectPerKey
    <3>2. CASE a = [key |-> k, print |-> req[c].print, runs |-> new]
      BY <1>2, <1>10, <3>2
    <3> QED
      BY <1>5, <2>2, <3>1, <3>2
  <2> QED
    BY <2>1, <2>2 DEF OneEffectPerKey
<1>12. \A d \in Clients : req'[d] = IF d = c THEN row ELSE req[d]
  BY <1>5 DEF IInv, TypeOK
<1>13. ASSUME kind[k] = "webpage"
       PROVE  LimitKept' /\ \A d \in Clients : req'[d].pc # "counted"
  <2>1. req[c].pc = "counted" /\ Cardinality(Admitted) < Limit
    BY <1>13 DEF Create, Is, IInv, Transactions
  <2>2. new = {born + 1}
    <3>1. Items(c) = 1
      BY <1>13 DEF Items, Is
    <3> QED
      BY <1>3, <3>1 DEF new
  <2>3. Admitted' \subseteq Admitted \cup {born + 1}
    BY <1>7, <1>8, <2>2 DEF Admitted, ActiveWebpages, WebpageRuns
  <2>4. Cardinality(Admitted \cup {born + 1}) <= Cardinality(Admitted) + 1 /\ IsFiniteSet(Admitted \cup {born + 1})
    BY AdmittedFinite, FS_AddElement
  <2>5. Cardinality(Admitted') <= Cardinality(Admitted \cup {born + 1}) /\ Cardinality(Admitted') \in Nat
    BY <2>3, <2>4, FS_Subset, FS_CardinalityType
  <2>6. Cardinality(Admitted \cup {born + 1}) \in Nat
    BY <2>4, FS_CardinalityType
  <2>7. LimitKept'
    BY <2>1, <2>4, <2>5, <2>6, AdmittedFinite, AdmissionAssumption DEF LimitKept
  <2>8. \A d \in Clients : req'[d].pc # "counted"
    BY <1>5, <1>12, <2>1 DEF IInv, Transactions
  <2> QED
    BY <2>7, <2>8
<1>14. ASSUME kind[k] # "webpage"
       PROVE  Admitted' = Admitted
  BY <1>2, <1>7, <1>8, <1>14, AdmissionAssumption DEF Admitted, ActiveWebpages, WebpageRuns
<1>15. LimitKept' /\ \A d \in Clients : req'[d].pc = "counted" => Cardinality(Admitted') < Limit
  <2>1. CASE kind[k] = "webpage"
    BY <1>13, <2>1
  <2>2. CASE kind[k] # "webpage"
    BY <1>5, <1>12, <1>14, <2>2 DEF IInv, LimitKept, Transactions
  <2> QED
    BY <2>1, <2>2
<1>16. Transactions'
  <2>1. \A d \in Clients : d # c =>
           req'[d] = req[d] /\ \A x : Is(d, x)' = Is(d, x)
    BY <1>7, <1>12 DEF Is
  <2>2. ASSUME NEW d \in Clients, req'[d].pc \in {"checked", "locked", "counted"}
        PROVE  d # c /\ req'[d] = req[d]
    BY <1>5, <1>12, <2>2
  <2>3. ASSUME NEW d \in Clients, req'[d].pc \in {"locked", "counted"}
        PROVE  ~Recorded(req[d].key)' /\ Holders(req[d].key)' = {d}
    <3>1. d # c /\ req'[d] = req[d] /\ req[d].key \in Keys
      BY <2>2, <2>3 DEF IInv, Transactions
    <3>2. Holders(req[d].key) = {d} /\ ~Recorded(req[d].key)
      BY <2>3, <3>1 DEF IInv, Transactions
    <3>3. req[d].key # k
      BY <1>2, <3>1, <3>2
    <3>4. Holders(req[d].key)' = {d}
      BY <1>5, <1>12, <3>1, <3>2 DEF Holders
    <3> QED
      BY <1>10, <3>1, <3>2, <3>3, <3>4 DEF Recorded
  <2>4. ASSUME NEW a \in told' PROVE Recorded(a.key)'
    <3>1. CASE a \in told
      BY <1>2, <1>10, <3>1 DEF IInv, TypeOK, Transactions, Recorded
    <3>2. CASE a = [key |-> k, print |-> req[c].print, runs |-> new]
      BY <1>2, <1>4, <1>10, <3>2 DEF Recorded
    <3> QED
      BY <1>5, <2>4, <3>1, <3>2
  <2>5. ASSUME NEW d \in Clients, req'[d].pc = "counted"
        PROVE  /\ Is(d, "webpage")' /\ Cardinality(Admitted') < Limit
               /\ \A e \in Clients : req'[e].pc = "counted" => e = d
    <3>1. d # c /\ req'[d] = req[d]
      BY <2>2, <2>5
    <3>2. Is(d, "webpage") /\ \A e \in Clients : req[e].pc = "counted" => e = d
      BY <2>5, <3>1 DEF IInv, Transactions
    <3> QED
      BY <1>5, <1>12, <1>15, <2>1, <2>5, <3>1, <3>2
  <2>6. \A d \in Clients : req'[d].pc \in {"checked", "locked", "counted"} =>
           req'[d].key \in Keys /\ (Is(d, "retry")' => req'[d].print \in (SUBSET Runs) \ {{}})
    BY <2>1, <2>2 DEF IInv, Transactions
  <2> QED
    BY <2>3, <2>4, <2>5, <2>6 DEF Transactions
<1> QED
  BY <1>9, <1>11, <1>15, <1>16

LEMMA ClientKeeps ==
  ASSUME IInv, TypeOK', NEW c \in Clients, ClientStep(c)
  PROVE  IInv'
<1>1. CASE Create(c)
  BY <1>1, CreateKeeps DEF IInv
<1>2. CASE ~Create(c)
  <2>1. UNCHANGED <<kind, record, born, run>>
    BY <1>2 DEF ClientStep, ReadFailed, Request, Find, Refuse, Insert, Insertion, Count,
                Publish, PublishFails, Lost
  <2>2. Numbered'
    BY <2>1 DEF IInv, Numbered
  <2>3. LimitKept'
    BY <2>1 DEF IInv, LimitKept, Admitted, ActiveWebpages, WebpageRuns
  <2>4. UNCHANGED told => OneEffectPerKey'
    BY <2>1 DEF IInv, OneEffectPerKey, OfKey
  <2>5. \A a \in told : Recorded(a.key)
    BY DEF IInv, Transactions
  <2>6. ASSUME NEW k \in Keys, ReadFailed(c, k) PROVE Transactions' /\ OneEffectPerKey'
    <3> DEFINE row == [pc |-> "checked", key |-> k, print |-> Failed(k), left |-> {}]
    <3>1. Failed(k) \in (SUBSET Runs) \ {{}}
      BY <2>6 DEF ReadFailed, Failed, OfKey
    <3>2. req' = [req EXCEPT ![c] = row] /\ UNCHANGED told
      BY <2>6 DEF ReadFailed, Goes
    <3> QED
      BY <2>1, <2>4, <2>5, <3>1, <3>2, RequestMoves
  <2>7. ASSUME NEW k \in Keys, NEW b \in Bodies, Request(c, k, b)
        PROVE  Transactions' /\ OneEffectPerKey'
    BY <2>7, InsertionKeeps DEF Request
  <2>8. ASSUME NEW k \in Keys, NEW b \in Bodies, Find(c, k, b)
        PROVE  Transactions' /\ OneEffectPerKey'
    <3>1. CASE Goes(c, "checked", k, b) /\ UNCHANGED told
      <4> DEFINE row == [pc |-> "checked", key |-> k, print |-> b, left |-> {}]
      <4>1. req' = [req EXCEPT ![c] = row] /\ kind[k] # "retry"
        BY <2>8, <3>1 DEF Find, Goes
      <4> QED
        BY <2>1, <2>4, <2>5, <3>1, <4>1, RequestMoves
    <3>2. CASE \E left : Replay(c, k, b, left)
      BY <2>1, <3>2, ReplayKeeps
    <3> QED
      BY <2>8, <3>1, <3>2 DEF Find
  <2>9. ASSUME Insert(c) PROVE Transactions' /\ OneEffectPerKey'
    <3>1. /\ req[c].key \in Keys /\ Insertion(c, req[c].key, req[c].print)
          /\ kind[req[c].key] = "retry" => req[c].print \in (SUBSET Runs) \ {{}}
      BY <2>9 DEF Insert, IInv, Transactions, Is
    <3> QED
      BY <3>1, InsertionKeeps
  <2>10. ASSUME Count(c) PROVE Transactions' /\ OneEffectPerKey'
    <3>1. UNCHANGED told
      BY <2>10 DEF Count
    <3> QED
      BY <2>4, <2>10, <3>1, CountKeeps
  <2>11. ASSUME Refuse(c) \/ Publish(c) \/ PublishFails(c) \/ Lost(c)
         PROVE  Transactions' /\ OneEffectPerKey'
    <3>1. \A k, left : Publishing(k, left).pc \in {"idle", "publish"}
      BY DEF Publishing, Idle
    <3>2. Idle.pc = "idle"
      BY DEF Idle
    <3>3. \E row : req' = [req EXCEPT ![c] = row] /\ row.pc \in {"idle", "publish"}
      <4>1. ASSUME Refuse(c) \/ Lost(c)
            PROVE  req' = [req EXCEPT ![c] = Idle]
        BY <4>1 DEF Refuse, Lost
      <4>2. ASSUME Publish(c) \/ PublishFails(c)
            PROVE  \E left : req' = [req EXCEPT ![c] = Publishing(req[c].key, left)]
        <5>1. c \in DOMAIN req
          BY DEF IInv, TypeOK
        <5> QED
          BY <4>2, <5>1 DEF Publish, PublishFails
      <4> QED
        BY <2>11, <3>1, <3>2, <4>1, <4>2
    <3>4. UNCHANGED told
      BY <2>11 DEF Refuse, Publish, PublishFails, Lost
    <3>5. PICK row : req' = [req EXCEPT ![c] = row] /\ row.pc \in {"idle", "publish"}
      BY <3>3
    <3>6. row.pc \notin {"locked", "counted"} /\ row.pc # "checked"
      BY <3>5
    <3> QED
      BY <2>1, <2>4, <2>5, <3>4, <3>5, <3>6, RequestMoves
  <2> QED
    BY <1>2, <2>2, <2>3, <2>6, <2>7, <2>8, <2>9, <2>10, <2>11 DEF ClientStep, IInv
<1> QED
  BY <1>1, <1>2

-----------------------------------------------------------------------------
LEMMA InvInit == Init => IInv
<1> SUFFICES ASSUME Init PROVE IInv
  OBVIOUS
<1>1. TypeOK
  BY TypeInit
<1>2. \A r \in Runs : run[r].key = None
  BY DEF Init, NoRun
<1>3. Numbered /\ OneEffectPerKey
  BY <1>2, AdmissionAssumption DEF Init, Numbered, OneEffectPerKey, OfKey, NoRecord
<1>4. Transactions
  BY DEF Init, Transactions, Idle
<1>5. LimitKept
  <2>1. Admitted = {}
    BY <1>2 DEF Admitted, ActiveWebpages, WebpageRuns
  <2> QED
    BY <2>1, FS_EmptySet, AdmissionAssumption DEF LimitKept
<1> QED
  BY <1>1, <1>3, <1>4, <1>5 DEF IInv

LEMMA InvStep == IInv /\ [Next]_vars => IInv'
<1> SUFFICES ASSUME IInv, [Next]_vars PROVE IInv'
  OBVIOUS
<1>1. TypeOK'
  BY TypeStep DEF IInv
<1>2. ASSUME NEW c \in Clients, ClientStep(c) PROVE IInv'
  BY <1>1, <1>2, ClientKeeps
<1>3. ASSUME NEW w \in Workers, WorkerStep(w) PROVE IInv'
  BY <1>1, <1>3, WorkerMoves, OutsideKeeps DEF IInv
<1>4. ASSUME NEW w \in Workers, Crash(w) PROVE IInv'
  BY <1>1, <1>4, SameRuns, OutsideKeeps DEF Crash
<1>5. ASSUME NEW r \in Runs, Lapse(r) \/ KeyExpires(r) \/ Start(r) \/ End(r) \/ Cancel(r) \/ ManualRetry(r) PROVE IInv'
  BY <1>1, <1>5, OutsideMoves, OutsideKeeps DEF IInv
<1>6. CASE UNCHANGED vars
  BY <1>1, <1>6, SameRuns, OutsideKeeps DEF vars, api
<1> QED
  BY <1>2, <1>3, <1>4, <1>5, <1>6 DEF Next

LEMMA Invariant == Spec => []IInv
<1>1. Init => IInv
  BY InvInit
<1>2. IInv /\ [Next]_vars => IInv'
  BY InvStep
<1> QED
  BY <1>1, <1>2, PTL DEF Spec

\* Every variable holds a value of its type; no intake job is delivered more
\* often than its limit.
THEOREM TypeCorrect == Spec => []TypeOK
<1>1. IInv => TypeOK
  BY DEF IInv
<1> QED
  BY <1>1, Invariant, PTL

\* A key has the effect of one request, and everyone who was answered under it
\* was given that effect: `_idempotent` and its callers.
THEOREM KeysHaveOneEffect == Spec => []OneEffectPerKey
<1>1. IInv => OneEffectPerKey
  BY DEF IInv
<1> QED
  BY <1>1, Invariant, PTL

\* The count under the advisory lock admits no webpage video beyond the limit.
THEOREM LimitHolds == Spec => []LimitKept
<1>1. IInv => LimitKept
  BY DEF IInv
<1> QED
  BY <1>1, Invariant, PTL
-----------------------------------------------------------------------------
(* RunAdmission implements AdmissionContract.                              *)

\* The fingerprint of a request is known before it reaches the database.
Printed ==
    \A c \in Clients : req[c].pc \in {"checked", "locked", "counted"} => req[c].print \in Prints

LEMMA PrintedStep == TypeOK /\ Printed /\ [Next]_vars => Printed'
<1> SUFFICES ASSUME TypeOK, Printed, [Next]_vars PROVE Printed'
  OBVIOUS
<1>1. ASSUME NEW c \in Clients, NEW row, req' = [req EXCEPT ![c] = row],
             row.pc \in {"checked", "locked", "counted"} => row.print \in Prints
      PROVE  Printed'
  <2>1. \A d \in Clients : req'[d] = IF d = c THEN row ELSE req[d]
    BY <1>1 DEF TypeOK
  <2> QED
    BY <1>1, <2>1 DEF Printed
<1>2. ASSUME NEW c \in Clients, NEW k, NEW print \in Prints, Insertion(c, k, print) PROVE Printed'
  <2>1. CASE Goes(c, "locked", k, print)
    BY <1>1, <2>1 DEF Goes
  <2>2. CASE Replay(c, k, print, record[k].runs)
    <3>1. Publishing(k, record[k].runs).pc \in {"idle", "publish"} /\ Idle.pc = "idle"
      BY DEF Publishing, Idle
    <3> QED
      BY <1>1, <2>2, <3>1 DEF Replay
  <2> QED
    BY <1>2, <2>1, <2>2 DEF Insertion
<1>3. ASSUME NEW c \in Clients, ClientStep(c) PROVE Printed'
  <2>1. ASSUME NEW k \in Keys, ReadFailed(c, k) PROVE Printed'
    <3>1. Failed(k) \in Prints
      BY DEF Failed, OfKey, Prints
    <3> QED
      BY <1>1, <2>1, <3>1 DEF ReadFailed, Goes
  <2>2. ASSUME NEW k \in Keys, NEW b \in Bodies, Request(c, k, b) PROVE Printed'
    BY <1>2, <2>2 DEF Request, Prints
  <2>3. ASSUME NEW k \in Keys, NEW b \in Bodies, Find(c, k, b) PROVE Printed'
    <3>1. CASE Goes(c, "checked", k, b)
      BY <1>1, <3>1 DEF Goes, Prints
    <3>2. CASE Replay(c, k, b, {r \in record[k].runs : run[r].status = "queued"})
      <4>1. \A left : Publishing(k, left).pc \in {"idle", "publish"} /\ Idle.pc = "idle"
        BY DEF Publishing, Idle
      <4> QED
        BY <1>1, <3>2, <4>1 DEF Replay
    <3> QED
      BY <2>3, <3>1, <3>2 DEF Find
  <2>4. CASE Insert(c)
    BY <1>2, <2>4 DEF Insert, Printed
  <2>5. CASE Refuse(c) \/ Lost(c)
    <3>1. Idle.pc = "idle"
      BY DEF Idle
    <3> QED
      BY <1>1, <2>5, <3>1 DEF Refuse, Lost
  <2>6. CASE Count(c)
    <3>1. Idle.pc = "idle"
      BY DEF Idle
    <3>2. [req[c] EXCEPT !.pc = "counted"].print = req[c].print
      BY DEF TypeOK, ReqRow
    <3>3. req[c].print \in Prints
      BY <2>6 DEF Count, Printed
    <3> QED
      BY <1>1, <2>6, <3>1, <3>2, <3>3 DEF Count
  <2>7. CASE Create(c) \/ Publish(c) \/ PublishFails(c)
    <3>1. \A k, left : Publishing(k, left).pc \in {"idle", "publish"}
      BY DEF Publishing, Idle
    <3>2. \E k, left : req' = [req EXCEPT ![c] = Publishing(k, left)]
      BY <2>7 DEF Create, Publish, PublishFails
    <3> QED
      BY <1>1, <3>1, <3>2
  <2> QED
    BY <1>3, <2>1, <2>2, <2>3, <2>4, <2>5, <2>6, <2>7 DEF ClientStep
<1>4. CASE UNCHANGED req
  BY <1>4 DEF Printed
<1>5. ASSUME NEW w \in Workers, WorkerStep(w) \/ Crash(w) PROVE Printed'
  BY <1>4, <1>5, WorkerMoves DEF Crash, api
<1>6. ASSUME NEW r \in Runs, Lapse(r) \/ KeyExpires(r) \/ Start(r) \/ End(r) \/ Cancel(r) \/ ManualRetry(r) PROVE Printed'
  BY <1>4, <1>6, OutsideMoves DEF api
<1> QED
  BY <1>3, <1>4, <1>5, <1>6 DEF Next, vars

\* A step that only moves runs along is Progress of the contract.
LEMMA Progresses ==
  ASSUME TypeOK, TypeOK', UNCHANGED api,
         \A r \in Runs :
            /\ run'[r].key = run[r].key /\ run'[r].reopened = run[r].reopened
            /\ \/ run'[r].status = run[r].status
               \/ run[r].status \in Active /\ run'[r].status \in {"running", "failed", "over"}
  PROVE  Contract!Progress
<1>1. ASSUME NEW r \in Runs PROVE Contract!Follows(r)
  <2>1. ContractRows[r] = [status |-> run[r].status, key |-> run[r].key, reopened |-> run[r].reopened]
    BY DEF ContractRows
  <2>2. ContractRows'[r] = [status |-> run'[r].status, key |-> run'[r].key, reopened |-> run'[r].reopened]
    BY DEF ContractRows
  <2>3. ContractRows'[r] = [ContractRows[r] EXCEPT !.status = run'[r].status]
    BY <2>1, <2>2
  <2> QED
    BY <2>1, <2>2, <2>3 DEF Contract!Follows, Contract!Active, Active
<1>2. ContractRows' = [r \in Runs |-> ContractRows'[r]]
  BY DEF ContractRows
<1> QED
  BY <1>1, <1>2 DEF Contract!Progress, Contract!Runs, Runs, api

LEMMA ReplayImplements ==
  ASSUME NEW c \in Clients, NEW k \in Keys, NEW print \in Prints, NEW left,
         Replay(c, k, print, left), UNCHANGED <<kind, record, born, run>>
  PROVE  [Contract!CNext]_(Contract!cvars)
<1>1. UNCHANGED ContractRows
  BY DEF ContractRows
<1>2. CASE record[k].print = print /\ Answer(k, print, record[k].runs)
  <2>1. Contract!Replay(k, print)
    BY <1>1, <1>2 DEF Replay, Recorded, Answer, Contract!Replay, Contract!Recorded, Contract!Answered
  <2> QED
    BY <2>1 DEF Contract!CNext, Contract!Command
<1>3. CASE UNCHANGED told
  BY <1>1, <1>3 DEF Contract!cvars
<1> QED
  BY <1>2, <1>3 DEF Replay

LEMMA CreateImplements ==
  ASSUME IInv, TypeOK', Printed, NEW c \in Clients, Create(c)
  PROVE  Contract!CNext
<1> DEFINE k == req[c].key
           print == req[c].print
           new == born + 1 .. born + Items(c)
<1>1. k \in Keys /\ print \in Prints /\ ~Recorded(k)
  BY DEF Create, IInv, Transactions, Printed
<1>2. Items(c) \in Nat \ {0} /\ born \in Nat
  BY NewRuns DEF Create, IInv, TypeOK
<1>3. Items(c) \in Runs
  BY <1>2, AdmissionAssumption DEF Create, Runs
<1>4. /\ born' = born + Items(c) /\ born' <= MaxRuns
      /\ record' = [record EXCEPT ![k] = [print |-> print, runs |-> new]]
      /\ told' = told \cup {[key |-> k, print |-> print, runs |-> new]}
      /\ kind' = kind
  BY DEF Create, Answer
<1>5. PICK bad \in BOOLEAN :
        run' = [r \in Runs |-> IF r \in new
                  THEN [NoRun EXCEPT !.status = "queued", !.key = k, !.bad = bad] ELSE run[r]]
  BY DEF Create
<1>6. \A r \in Runs : IF r \in new THEN run'[r].status = "queued" /\ run'[r].key = k /\ ~run'[r].reopened
                       ELSE run'[r] = run[r]
  BY <1>5 DEF NoRun
<1> HIDE DEF new, k, print
<1>7. ContractRows' = [r \in Runs |-> IF r \in new
                        THEN Contract!Created(k) ELSE ContractRows[r]]
  <2>1. ASSUME NEW r \in Runs
        PROVE  ContractRows'[r] = IF r \in new
                 THEN Contract!Created(k) ELSE ContractRows[r]
    <3>1. ContractRows'[r] = [status |-> run'[r].status, key |-> run'[r].key, reopened |-> run'[r].reopened]
      BY DEF ContractRows
    <3>2. CASE r \in new
      <4>1. run'[r].reopened = FALSE
        BY <1>6, <3>2 DEF TypeOK, RunRow
      <4>2. Contract!Created(k) = [status |-> "queued", key |-> k, reopened |-> FALSE]
        BY DEF Contract!Created
      <4>3. run'[r].status = "queued" /\ run'[r].key = k
        BY <1>6, <3>2
      <4> QED
        BY <3>1, <3>2, <4>1, <4>2, <4>3
    <3>3. CASE r \notin new
      BY <1>6, <3>1, <3>3 DEF ContractRows
    <3> QED
      BY <3>2, <3>3
  <2> QED
    BY <2>1 DEF ContractRows
<1>8. Contract!Persist(k, print, Items(c))
  BY <1>1, <1>4, <1>7 DEF new, Contract!Persist, Contract!Recorded, Recorded, Contract!Answered, Contract!Runs, Runs
<1>9. Contract!Command(k, print)
  <2>1. kind[k] \in Kind
    BY <1>1 DEF IInv, TypeOK
  <2>2. CASE kind[k] \in {"run", "full_ai"}
    <3>1. Items(c) = 1
      BY <2>2 DEF Items, Is, k
    <3> QED
      BY <1>8, <2>2, <3>1 DEF Contract!Command, Contract!CreateRun, Contract!CreateFullAi
  <2>3. CASE kind[k] \in {"batch", "retry"}
    BY <1>3, <1>8, <2>3 DEF Contract!Command, Contract!CreateBatch, Contract!Runs, Runs
  <2>4. CASE kind[k] = "webpage"
    <3>1. Items(c) = 1
      BY <2>4 DEF Items, Is, k
    <3>2. Cardinality(Admitted) < Limit
      BY <2>4 DEF Create, Is, IInv, Transactions, k
    <3>3. Contract!Counted = Admitted
      BY DEF Contract!Counted, Contract!Runs, Contract!Active, ContractRows,
             Admitted, ActiveWebpages, WebpageRuns, Active, Runs
    <3>4. Contract!Cardinality(Contract!Counted) = Cardinality(Admitted)
      BY <3>3 DEF Contract!Cardinality, Contract!IsFiniteSet, Cardinality, IsFiniteSet
    <3> QED
      BY <1>8, <2>4, <3>1, <3>2, <3>4 DEF Contract!Command, Contract!CreateWebpage
  <2>5. kind[k] \in {"run", "full_ai"} \/ kind[k] \in {"batch", "retry"} \/ kind[k] = "webpage"
    BY <2>1 DEF Kind
  <2> QED
    BY <2>2, <2>3, <2>4, <2>5
<1> QED
  BY <1>1, <1>9 DEF Contract!CNext

LEMMA ClientImplements ==
  ASSUME IInv, TypeOK', Printed, NEW c \in Clients, ClientStep(c)
  PROVE  [Contract!CNext]_(Contract!cvars)
<1>1. CASE Create(c)
  BY <1>1, CreateImplements
<1>2. ASSUME UNCHANGED <<kind, record, born, run, told>>
      PROVE  [Contract!CNext]_(Contract!cvars)
  BY <1>2 DEF Contract!cvars, ContractRows
<1>3. ASSUME NEW k \in Keys, NEW print \in Prints, Insertion(c, k, print)
      PROVE  [Contract!CNext]_(Contract!cvars)
  BY <1>2, <1>3, ReplayImplements DEF Insertion
<1>4. ASSUME NEW k \in Keys, NEW b \in Bodies, Find(c, k, b)
      PROVE  [Contract!CNext]_(Contract!cvars)
  BY <1>2, <1>4, ReplayImplements DEF Find, Prints
<1>5. ASSUME NEW k \in Keys, ReadFailed(c, k) \/ \E b \in Bodies : Request(c, k, b)
      PROVE  [Contract!CNext]_(Contract!cvars)
  BY <1>2, <1>3, <1>5 DEF ReadFailed, Request, Prints
<1>6. CASE Insert(c)
  BY <1>3, <1>6 DEF Insert, Printed, IInv, Transactions
<1>7. CASE Refuse(c) \/ Count(c) \/ Publish(c) \/ PublishFails(c) \/ Lost(c)
  BY <1>2, <1>7 DEF Refuse, Count, Publish, PublishFails, Lost
<1> QED
  BY <1>1, <1>4, <1>5, <1>6, <1>7 DEF ClientStep

LEMMA WorkerImplements ==
  ASSUME TypeOK, TypeOK', NEW w \in Workers, WorkerStep(w)
  PROVE  Contract!Progress
<1>1. UNCHANGED api
  BY WorkerMoves
<1>2. ASSUME NEW R, run' = FailQueued(R)
      PROVE  Contract!Progress
  <2>1. \A r \in Runs :
            /\ run'[r].key = run[r].key /\ run'[r].reopened = run[r].reopened
            /\ \/ run'[r].status = run[r].status
               \/ run[r].status = "queued" /\ run'[r].status = "failed"
    BY <1>2 DEF FailQueued, TypeOK, RunRow
  <2> QED
    BY <1>1, <2>1, Progresses DEF Active
<1>3. CASE UNCHANGED run
  BY <1>1, <1>3, Progresses
<1>4. CASE InsertRow(w)
  <2>1. \E graph : run' = [run EXCEPT ![wk[w].at] = [run[wk[w].at] EXCEPT !.graph = graph]]
    BY <1>4 DEF InsertRow
  <2>2. \A r \in Runs : /\ run'[r].key = run[r].key
                        /\ run'[r].status = run[r].status /\ run'[r].reopened = run[r].reopened
    BY <2>1 DEF TypeOK, RunRow
  <2> QED
    BY <1>1, <2>2, Progresses
<1> QED
  BY <1>2, <1>3, <1>4 DEF WorkerStep, Sweep, Reserve, Begin, RowConflict, Done

LEMMA OutsideImplements ==
  ASSUME TypeOK, TypeOK', NEW r \in Runs,
         Lapse(r) \/ KeyExpires(r) \/ Start(r) \/ End(r) \/ Cancel(r) \/ ManualRetry(r)
  PROVE  Contract!CNext
<1>1. UNCHANGED api
  BY OutsideMoves
<1>2. CASE Lapse(r) \/ KeyExpires(r)
  BY <1>1, <1>2, Progresses DEF Lapse, KeyExpires, Contract!CNext
<1>3. CASE Start(r) \/ End(r) \/ Cancel(r)
  <2>1. run[r].status \in Active
    BY <1>3 DEF Start, End, Cancel, Moves, Active
  <2>2. \E to \in {"running", "failed", "over"} : run' = [run EXCEPT ![r] = [run[r] EXCEPT !.status = to]]
    BY <1>3 DEF Start, End, Cancel, Moves
  <2>3. \A s \in Runs : /\ run'[s].key = run[s].key /\ run'[s].reopened = run[s].reopened
                        /\ s # r => run'[s].status = run[s].status
                        /\ s = r => run'[s].status \in {"running", "failed", "over"}
    BY <2>2 DEF TypeOK, RunRow
  <2> QED
    BY <1>1, <2>1, <2>3, Progresses DEF Contract!CNext
<1>4. CASE ManualRetry(r)
  <2>1. run' = [run EXCEPT ![r] = [run[r] EXCEPT !.status = "running", !.reopened = TRUE]]
    BY <1>4 DEF ManualRetry, TypeOK, RunRow
  <2>2. ASSUME NEW s \in Runs
        PROVE  ContractRows'[s] = [ContractRows EXCEPT ![r].status = "running", ![r].reopened = TRUE][s]
    <3>1. ContractRows'[s] = [status |-> run'[s].status, key |-> run'[s].key, reopened |-> run'[s].reopened]
      BY DEF ContractRows
    <3>2. CASE s = r
      <4>1. /\ run'[s].status = "running" /\ run'[s].reopened = TRUE /\ run'[s].key = run[s].key
        BY <2>1, <3>2 DEF TypeOK, RunRow
      <4> QED
        BY <3>1, <3>2, <4>1 DEF ContractRows
    <3>3. CASE s # r
      <4>1. run'[s] = run[s]
        BY <2>1, <3>3 DEF TypeOK
      <4> QED
        BY <3>1, <3>3, <4>1 DEF ContractRows
    <3> QED
      BY <3>2, <3>3
  <2>3. ContractRows' = [ContractRows EXCEPT ![r].status = "running", ![r].reopened = TRUE]
    BY <2>2 DEF ContractRows
  <2>4. ContractRows[r].status = "failed"
    BY <1>4 DEF ManualRetry, ContractRows
  <2> QED
    BY <1>1, <2>3, <2>4 DEF Contract!CNext, Contract!Reopen, Contract!Runs, Runs, api
<1> QED
  BY <1>2, <1>3, <1>4

LEMMA StepImplements ==
  IInv /\ Printed /\ TypeOK' /\ [Next]_vars => [Contract!CNext]_(Contract!cvars)
<1> SUFFICES ASSUME IInv, Printed, TypeOK', [Next]_vars PROVE [Contract!CNext]_(Contract!cvars)
  OBVIOUS
<1>1. ASSUME NEW c \in Clients, ClientStep(c) PROVE [Contract!CNext]_(Contract!cvars)
  BY <1>1, ClientImplements
<1>2. ASSUME NEW w \in Workers, WorkerStep(w) PROVE [Contract!CNext]_(Contract!cvars)
  BY <1>2, WorkerImplements DEF IInv, Contract!CNext
<1>3. ASSUME NEW w \in Workers, Crash(w) PROVE [Contract!CNext]_(Contract!cvars)
  BY <1>3 DEF Crash, api, ContractRows, Contract!cvars
<1>4. ASSUME NEW r \in Runs, Lapse(r) \/ KeyExpires(r) \/ Start(r) \/ End(r) \/ Cancel(r) \/ ManualRetry(r)
      PROVE  [Contract!CNext]_(Contract!cvars)
  BY <1>4, OutsideImplements DEF IInv
<1>5. CASE UNCHANGED vars
  BY <1>5 DEF vars, ContractRows, Contract!cvars
<1> QED
  BY <1>1, <1>2, <1>3, <1>4, <1>5 DEF Next

\* The transactions, waiting insertions, retries and crashes of RunAdmission
\* have no effect and give no answer that the in-memory repository, with its
\* commands under one lock, could not: the two implementations of the port agree.
THEOREM CommandsAreAtomic == Spec => ImplementsContract
<1>1. Init => Contract!CInit
  BY DEF Init, NoRun, NoRecord, ContractRows, Contract!CInit, Contract!Absent, Contract!Runs, Runs
<1>2. Init => Printed
  BY DEF Init, Printed, Idle
<1>3. TypeOK /\ Printed /\ [Next]_vars => Printed'
  BY PrintedStep
<1>4. IInv => TypeOK
  BY DEF IInv
<1>5. IInv /\ Printed /\ TypeOK' /\ [Next]_vars => [Contract!CNext]_(Contract!cvars)
  BY StepImplements
<1> QED
  BY <1>1, <1>2, <1>3, <1>4, <1>5, Invariant, PTL DEF Spec, ImplementsContract, Contract!CSpec
=============================================================================
