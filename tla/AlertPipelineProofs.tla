------------------------ MODULE AlertPipelineProofs ------------------------
(***************************************************************************)
(* Theorems about AlertPipeline, for any sets of workers and readings and  *)
(* any bounds.  One inductive invariant carries all of them: the types,    *)
(* the exclusive hold of a claimed row, the effects that go with each      *)
(* phase and status, and the accounting of claims.                         *)
(***************************************************************************)
EXTENDS AlertPipeline, TLAPS

\* Every worker that is past a claim has a reading in hand.
HoldersHaveItems ==
    \A w \in Workers :
        HoldsJob(w) \/ HoldsEvent(w) => task[w].item \in Readings

IInv ==
    /\ TypeOK
    /\ HoldersHaveItems
    /\ HeldRowsAreFenced
    /\ OutcomeIsWhatHappened
    /\ OneIncidentPerReading
    /\ SettledRowsTellTheTruth
    /\ EveryClaimIsAnAttempt

-----------------------------------------------------------------------------
(* The backoff is a natural number of seconds for every attempt count.     *)
LEMMA RetryDelayIsNat ==
    ASSUME NEW attempt \in Nat
    PROVE  RetryDelay(attempt) \in Nat
<1>. DEFINE a == IF attempt < 1 THEN 1 ELSE IF attempt > 8 THEN 8 ELSE attempt
<1>1. a \in 1..8
  OBVIOUS
<1>2. \A i \in 1..8 : <<1, 2, 4, 8, 16, 32, 64, 128>>[i] \in Nat
  OBVIOUS
<1>. QED
  BY <1>1, <1>2 DEF RetryDelay

(* The rows the statements write are rows, for either table.               *)
LEMMA NewRowType ==
    ASSUME NEW Status, "pending" \in Status, NEW now \in Nat
    PROVE  NewRow(now) \in Row(Status)
BY DEF NewRow, AbsentRow, Row

LEMMA ClaimRowType ==
    ASSUME NEW Status, NEW row \in Row(Status), NEW s \in Status,
           NEW w \in Workers, NEW now \in Nat
    PROVE  ClaimRow(row, s, w, now) \in Row(Status)
<1>1. row.gen + 1 \in Nat /\ now + Lease \in Nat
  BY LeaseRowAssumption DEF Row
<1>. QED
  BY <1>1 DEF ClaimRow, Row

LEMMA SettleRowType ==
    ASSUME NEW Status, NEW row \in Row(Status), NEW s \in Status,
           NEW attempts \in Nat, NEW available \in Nat
    PROVE  SettleRow(row, s, attempts, available) \in Row(Status)
BY DEF SettleRow, Row

LEMMA FailRowType ==
    ASSUME NEW Status, NEW row \in Row(Status),
           "dead" \in Status, "retry" \in Status,
           NEW attempts \in Nat, NEW now \in Nat
    PROVE  FailRow(row, attempts, now) \in Row(Status)
<1>1. now + RetryDelay(attempts) \in Nat
  BY RetryDelayIsNat
<1>. QED
  BY <1>1, SettleRowType DEF FailRow

(* What the statements do to the columns the invariants speak of.          *)
LEMMA ClaimRowFields ==
    ASSUME NEW Status, NEW row \in Row(Status), NEW s, NEW w, NEW now
    PROVE  LET c == ClaimRow(row, s, w, now) IN
           /\ c.status = s /\ c.owner = w
           /\ c.gen = row.gen + 1 /\ c.attempts = row.attempts
BY DEF ClaimRow, Row

LEMMA SettleRowFields ==
    ASSUME NEW Status, NEW row \in Row(Status), NEW s, NEW attempts, NEW available
    PROVE  LET c == SettleRow(row, s, attempts, available) IN
           c.status = s /\ c.attempts = attempts /\ c.gen = row.gen
BY DEF SettleRow, Row

LEMMA FailRowFields ==
    ASSUME NEW Status, NEW row \in Row(Status), NEW attempts, NEW now
    PROVE  LET c == FailRow(row, attempts, now) IN
           /\ c.status = IF attempts >= MaxAttempts THEN "dead" ELSE "retry"
           /\ c.attempts = attempts /\ c.gen = row.gen
BY SettleRowFields DEF FailRow

(* A claim opens the next attempt; a settlement closes it.                 *)
LEMMA ClaimAccounts ==
    ASSUME NEW Status, NEW row \in Row(Status), row.status \in Waiting,
           ClaimsMatchAttempts(row), NEW s \in {"running", "sending"}, NEW w, NEW now
    PROVE  ClaimsMatchAttempts(ClaimRow(row, s, w, now))
<1>1. row.gen = row.attempts /\ row.attempts # MaxAttempts /\ row.attempts <= MaxAttempts
  BY DEF ClaimsMatchAttempts, Waiting, Row
<1>2. PICK c : c = ClaimRow(row, s, w, now)
  OBVIOUS
<1>3. c.status = s /\ c.gen = row.gen + 1 /\ c.attempts = row.attempts
  BY <1>2, ClaimRowFields
<1>4. c.gen = c.attempts + 1 /\ c.status \in {"running", "sending"}
  BY <1>1, <1>3 DEF Row
<1>5. ClaimsMatchAttempts(c)
  BY <1>1, <1>3, <1>4 DEF ClaimsMatchAttempts
<1>. QED
  BY <1>2, <1>5

LEMMA SettleAccounts ==
    ASSUME NEW Status, NEW row \in Row(Status), row.status \in {"running", "sending"},
           ClaimsMatchAttempts(row), NEW s \in {"succeeded", "delivered"}, NEW available
    PROVE  ClaimsMatchAttempts(SettleRow(row, s, row.attempts, available))
BY SettleRowFields DEF ClaimsMatchAttempts

LEMMA FailAccounts ==
    ASSUME NEW Status, NEW row \in Row(Status), row.status \in {"running", "sending"},
           ClaimsMatchAttempts(row), NEW now
    PROVE  ClaimsMatchAttempts(FailRow(row, row.attempts + 1, now))
<1>1. row.gen = row.attempts + 1 /\ row.attempts # MaxAttempts /\ row.attempts <= MaxAttempts
  BY DEF ClaimsMatchAttempts
<1>2. row.attempts \in Nat /\ MaxAttempts \in Nat
  BY LeaseRowAssumption DEF Row
<1>. QED
  BY <1>1, <1>2, FailRowFields DEF ClaimsMatchAttempts

(* A row another worker settles or claims is not a row this one holds.     *)
LEMMA HoldsAreExclusive ==
    ASSUME IInv, NEW w \in Workers, NEW v \in Workers, v # w
    PROVE  /\ HoldsJob(w) /\ HoldsJob(v) => task[w].item # task[v].item
           /\ HoldsEvent(w) /\ HoldsEvent(v) => task[w].item # task[v].item
BY DEF IInv, HeldRowsAreFenced, Fenced

(* The instants a statement may be given are natural numbers.              *)
LEMMA CapturedIsNat ==
    ASSUME TypeOK, NEW w \in Workers, NEW now \in Captured(w)
    PROVE  now \in Nat
BY DEF TypeOK, Task, Captured

-----------------------------------------------------------------------------
LEMMA InitInv == Init => IInv
<1>. SUFFICES ASSUME Init PROVE IInv
  OBVIOUS
<1>1. TypeOK
  BY DEF Init, TypeOK, Row, AbsentRow, JobStatus, OutboxStatus, Task, IdleTask, Phase
<1>2. HoldersHaveItems /\ HeldRowsAreFenced /\ OutcomeIsWhatHappened
  BY DEF Init, HoldersHaveItems, HeldRowsAreFenced, OutcomeIsWhatHappened,
         HoldsJob, HoldsEvent, IdleTask
<1>3. OneIncidentPerReading /\ SettledRowsTellTheTruth
  BY DEF Init, OneIncidentPerReading, SettledRowsTellTheTruth, AbsentRow
<1>4. EveryClaimIsAnAttempt
  BY LeaseRowAssumption DEF Init, EveryClaimIsAnAttempt, ClaimsMatchAttempts, AbsentRow
<1>. QED
  BY <1>1, <1>2, <1>3, <1>4 DEF IInv

-----------------------------------------------------------------------------
(* One lemma per action.  Each first says what the action does to the rows *)
(* and to the worker's task, then re-establishes the parts it can disturb. *)

LEMMA ReturnedTask ==
    ASSUME TypeOK, NEW w \in Workers, Return(w)
    PROVE  /\ task'[w] = IdleTask(clock)
           /\ \A v \in Workers \ {w} : task'[v] = task[v]
           /\ task' \in [Workers -> Task]
<1>1. IdleTask(clock) \in Task
  BY DEF TypeOK, IdleTask, Task, Phase
<1>. QED
  BY <1>1 DEF TypeOK, Return

LEMMA ProceededTask ==
    ASSUME TypeOK, NEW w \in Workers, NEW phase \in Phase, NEW failed \in BOOLEAN,
           Proceed(w, phase, failed)
    PROVE  /\ task'[w].phase = phase /\ task'[w].failed = failed
           /\ task'[w].item = task[w].item /\ task'[w].gen = task[w].gen
           /\ task'[w].attempts = task[w].attempts
           /\ \A v \in Workers \ {w} : task'[v] = task[v]
           /\ task' \in [Workers -> Task]
<1>. DEFINE new == [task[w] EXCEPT !.phase = phase, !.failed = failed, !.since = clock]
<1>1. task[w] \in Task /\ clock \in Nat
  BY DEF TypeOK
<1>2. /\ new \in Task
      /\ new.phase = phase /\ new.failed = failed /\ new.item = task[w].item
      /\ new.gen = task[w].gen /\ new.attempts = task[w].attempts
  BY <1>1 DEF Task
<1>3. task'[w] = new
  BY DEF TypeOK, Proceed
<1>4. /\ \A v \in Workers \ {w} : task'[v] = task[v]
      /\ task' \in [Workers -> Task]
  BY <1>2 DEF TypeOK, Proceed
<1>. QED
  BY <1>2, <1>3, <1>4

LEMMA IngestInv ==
    ASSUME IInv, NEW r \in Readings, NEW exceeds \in BOOLEAN, Ingest(r, exceeds)
    PROVE  IInv'
<1>1. jobs[r].status = "absent"
  BY DEF IInv, SettledRowsTellTheTruth, Ingest
<1>2. incidents[r] = 0
  BY DEF IInv, TypeOK, SettledRowsTellTheTruth, Ingest
<1>3. TypeOK'
  BY NewRowType DEF IInv, TypeOK, Ingest, JobStatus, faultVars
<1>4. HoldersHaveItems'
  BY DEF IInv, HoldersHaveItems, Ingest, HoldsJob, HoldsEvent
<1>5. HeldRowsAreFenced'
  BY <1>1 DEF IInv, TypeOK, HoldersHaveItems, HeldRowsAreFenced, Fenced, Ingest,
              HoldsJob, HoldsEvent
<1>6. OutcomeIsWhatHappened'
  BY DEF IInv, OutcomeIsWhatHappened, Ingest
<1>7. OneIncidentPerReading'
  BY DEF IInv, OneIncidentPerReading, Ingest
<1>8. SettledRowsTellTheTruth'
  BY <1>1, <1>2 DEF IInv, TypeOK, SettledRowsTellTheTruth, Ingest, NewRow, AbsentRow
<1>9. EveryClaimIsAnAttempt'
  BY LeaseRowAssumption
     DEF IInv, TypeOK, EveryClaimIsAnAttempt, ClaimsMatchAttempts, Ingest, NewRow, AbsentRow
<1>. QED
  BY <1>3, <1>4, <1>5, <1>6, <1>7, <1>8, <1>9 DEF IInv
LEMMA ClaimAlertJobInv ==
    ASSUME IInv, NEW w \in Workers, ClaimAlertJob(w)
    PROVE  IInv'
<1>1. PICK now \in Captured(w), r \in Readings :
          /\ jobs[r].status \in Waiting
          /\ jobs' = [jobs EXCEPT ![r] = ClaimRow(jobs[r], "running", w, now)]
          /\ Hold(w, r, "process", jobs[r])
  BY DEF ClaimAlertJob, FirstClaimable, Claimable, IInv, TypeOK
<1>. DEFINE old == jobs[r]
           new == ClaimRow(old, "running", w, now)
<1>2. old \in Row(JobStatus) /\ now \in Nat
  BY CapturedIsNat DEF IInv, TypeOK
<1>3. new \in Row(JobStatus)
  BY <1>2, ClaimRowType DEF JobStatus
<1>4. /\ new.status = "running" /\ new.owner = w
      /\ new.gen = old.gen + 1 /\ new.attempts = old.attempts
  BY <1>2, ClaimRowFields
<1>5. jobs'[r] = new /\ \A q \in Readings \ {r} : jobs'[q] = jobs[q]
  BY <1>1 DEF IInv, TypeOK
<1>6. /\ task'[w] = [phase |-> "process", item |-> r, gen |-> old.gen + 1,
                     attempts |-> old.attempts, failed |-> FALSE, since |-> clock]
      /\ \A v \in Workers \ {w} : task'[v] = task[v]
  BY <1>1 DEF Hold, IInv, TypeOK
<1>7. incidents[r] = 0
  BY <1>1 DEF IInv, TypeOK, SettledRowsTellTheTruth, Waiting
<1>8. TypeOK'
  <2>1. jobs' \in [Readings -> Row(JobStatus)]
    BY <1>1, <1>3 DEF IInv, TypeOK
  <2>2. task'[w] \in Task
    BY <1>2, <1>6 DEF Task, Phase, Row, IInv, TypeOK
  <2>3. task' \in [Workers -> Task]
    BY <1>1, <1>6, <2>2 DEF Hold, IInv, TypeOK
  <2>. QED
    BY <2>1, <2>3 DEF IInv, TypeOK, ClaimAlertJob, faultVars
<1>9. HoldersHaveItems'
  BY <1>6 DEF IInv, HoldersHaveItems, HoldsJob, HoldsEvent
<1>10. HeldRowsAreFenced'
  <2>. SUFFICES ASSUME NEW v \in Workers
                PROVE  /\ HoldsJob(v)' =>
                             /\ Fenced(jobs'[task'[v].item], "running", v, task'[v].gen)
                             /\ jobs'[task'[v].item].attempts = task'[v].attempts
                       /\ HoldsEvent(v)' =>
                             /\ Fenced(outbox'[task'[v].item], "sending", v, task'[v].gen)
                             /\ outbox'[task'[v].item].attempts = task'[v].attempts
    BY DEF HeldRowsAreFenced, Fenced
  <2>1. CASE v = w
    BY <1>4, <1>5, <1>6, <2>1 DEF HoldsJob, HoldsEvent, Fenced
  <2>2. CASE v # w
    <3>1. HoldsJob(v) => task[v].item \in Readings \ {r}
      BY <1>1 DEF IInv, HoldersHaveItems, HeldRowsAreFenced, Fenced, Waiting
    <3>. QED
      BY <1>5, <1>6, <2>2, <3>1
         DEF IInv, HeldRowsAreFenced, Fenced, HoldsJob, HoldsEvent, ClaimAlertJob
  <2>. QED
    BY <2>1, <2>2
<1>11. OutcomeIsWhatHappened'
  BY <1>6, <1>7 DEF IInv, OutcomeIsWhatHappened, ClaimAlertJob
<1>12. OneIncidentPerReading'
  BY DEF IInv, OneIncidentPerReading, ClaimAlertJob
<1>13. SettledRowsTellTheTruth'
  BY <1>1, <1>4, <1>5, <1>7
     DEF IInv, TypeOK, SettledRowsTellTheTruth, ClaimAlertJob, Waiting
<1>14. EveryClaimIsAnAttempt'
  BY <1>1, <1>2, <1>5, ClaimAccounts
     DEF IInv, EveryClaimIsAnAttempt, ClaimsMatchAttempts, ClaimAlertJob
<1>. QED
  BY <1>8, <1>9, <1>10, <1>11, <1>12, <1>13, <1>14 DEF IInv
(* A worker that lets go of its row without touching the database, and a   *)
(* step that touches neither, keep everything the invariant says.          *)
LEMMA LetGoInv ==
    ASSUME IInv, TypeOK', UNCHANGED <<dbVars, delivered>>,
           \A v \in Workers : \/ task'[v] = task[v]
                             \/ task'[v].phase \in {"claimAlert", "claimOutbox"}
    PROVE  IInv'
<1>1. HoldersHaveItems' /\ HeldRowsAreFenced'
  BY DEF IInv, HoldersHaveItems, HeldRowsAreFenced, Fenced, HoldsJob, HoldsEvent, dbVars
<1>2. OutcomeIsWhatHappened'
  BY DEF IInv, OutcomeIsWhatHappened, dbVars
<1>3. OneIncidentPerReading' /\ SettledRowsTellTheTruth' /\ EveryClaimIsAnAttempt'
  BY DEF IInv, OneIncidentPerReading, SettledRowsTellTheTruth, EveryClaimIsAnAttempt,
         ClaimsMatchAttempts, dbVars
<1>. QED
  BY <1>1, <1>2, <1>3 DEF IInv

LEMMA NothingClaimedInv ==
    ASSUME IInv, NEW w \in Workers, NoAlertJob(w) \/ NoOutboxEvent(w)
    PROVE  IInv'
<1>1. CASE NoAlertJob(w)
  <2>1. /\ task' \in [Workers -> Task]
        /\ \A v \in Workers : task'[v] = task[v] \/ task'[v].phase = "claimOutbox"
    BY <1>1, ProceededTask DEF IInv, NoAlertJob, Phase
  <2>2. TypeOK'
    BY <1>1, <2>1 DEF IInv, TypeOK, NoAlertJob, dbVars, faultVars
  <2>. QED
    BY <1>1, <2>1, <2>2, LetGoInv DEF NoAlertJob, dbVars
<1>2. CASE NoOutboxEvent(w)
  <2>1. TypeOK'
    BY <1>2, ReturnedTask DEF IInv, TypeOK, NoOutboxEvent, dbVars, faultVars
  <2>2. \A v \in Workers : task'[v] = task[v] \/ task'[v].phase = "claimAlert"
    BY <1>2, ReturnedTask DEF IInv, NoOutboxEvent, IdleTask
  <2>. QED
    BY <1>2, <2>1, <2>2, LetGoInv DEF NoOutboxEvent, dbVars
<1>. QED
  BY <1>1, <1>2

LEMMA StatementFailsInv ==
    ASSUME IInv, NEW w \in Workers,
           FinishAlertJobFails(w) \/ ClaimOutboxEventFails(w) \/ SettleOutboxFails(w)
    PROVE  IInv'
<1>1. /\ Return(w) /\ UNCHANGED <<clock, up, stops, dbVars, delivered>>
      /\ \/ statementErrors' = statementErrors
         \/ statementErrors' = statementErrors + 1
  BY DEF FinishAlertJobFails, ClaimOutboxEventFails, SettleOutboxFails, StatementFails
<1>2. TypeOK'
  BY <1>1, ReturnedTask DEF IInv, TypeOK, dbVars
<1>3. \A v \in Workers : task'[v] = task[v] \/ task'[v].phase = "claimAlert"
  BY <1>1, ReturnedTask DEF IInv, IdleTask
<1>. QED
  BY <1>1, <1>2, <1>3, LetGoInv

LEMMA EnvironmentInv ==
    ASSUME IInv, Stop \/ Start \/ Tick
    PROVE  IInv'
<1>1. IdleTask(clock) \in Task /\ IdleTask(clock).phase = "claimAlert"
  BY DEF IInv, TypeOK, IdleTask, Task, Phase
<1>2. /\ UNCHANGED <<dbVars, delivered>>
      /\ task' = task \/ task' = [w \in Workers |-> IdleTask(clock)]
  BY DEF Stop, Start, Tick
<1>3. TypeOK'
  <2>1. task' \in [Workers -> Task]
    BY <1>1, <1>2 DEF IInv, TypeOK
  <2>2. up' \in BOOLEAN
    <3>1. up' = up \/ up' = TRUE \/ up' = FALSE
      BY DEF Stop, Start, Tick
    <3>. QED
      BY <3>1, Zenon DEF IInv, TypeOK
  <2>3. clock' \in Nat /\ stops' \in Nat /\ statementErrors' \in Nat
    BY DEF IInv, TypeOK, Stop, Start, Tick
  <2>. QED
    BY <1>2, <2>1, <2>2, <2>3 DEF IInv, TypeOK, dbVars
<1>4. \A v \in Workers : task'[v] = task[v] \/ task'[v].phase = "claimAlert"
  BY <1>1, <1>2
<1>. QED
  BY <1>2, <1>3, <1>4, LetGoInv

LEMMA ProcessAlertFailsInv ==
    ASSUME IInv, NEW w \in Workers, ProcessAlertFails(w)
    PROVE  IInv'
<1>1. /\ task'[w].phase = "finish" /\ task'[w].failed = TRUE
      /\ task'[w].item = task[w].item /\ task'[w].gen = task[w].gen
      /\ task'[w].attempts = task[w].attempts
      /\ \A v \in Workers \ {w} : task'[v] = task[v]
      /\ task' \in [Workers -> Task]
  BY ProceededTask DEF IInv, ProcessAlertFails, Phase
<1>2. TypeOK'
  BY <1>1 DEF IInv, TypeOK, ProcessAlertFails, dbVars, faultVars
<1>3. task[w].phase = "process"
  BY DEF ProcessAlertFails, At
<1>5. HoldersHaveItems' /\ HeldRowsAreFenced'
  BY <1>1, <1>3 DEF IInv, HoldersHaveItems, HeldRowsAreFenced, Fenced,
     HoldsJob, HoldsEvent, ProcessAlertFails, dbVars
<1>6. OutcomeIsWhatHappened'
  BY <1>1, <1>3 DEF IInv, OutcomeIsWhatHappened, ProcessAlertFails, dbVars
<1>7. OneIncidentPerReading' /\ SettledRowsTellTheTruth' /\ EveryClaimIsAnAttempt'
  BY DEF IInv, OneIncidentPerReading, SettledRowsTellTheTruth, EveryClaimIsAnAttempt,
         ClaimsMatchAttempts, ProcessAlertFails, dbVars
<1>. QED
  BY <1>2, <1>5, <1>6, <1>7 DEF IInv

LEMMA DeliverFailsInv ==
    ASSUME IInv, NEW w \in Workers, DeliverFails(w)
    PROVE  IInv'
<1>1. /\ task'[w].phase = "settle" /\ task'[w].failed = TRUE
      /\ task'[w].item = task[w].item /\ task'[w].gen = task[w].gen
      /\ task'[w].attempts = task[w].attempts
      /\ \A v \in Workers \ {w} : task'[v] = task[v]
      /\ task' \in [Workers -> Task]
  BY ProceededTask DEF IInv, DeliverFails, Phase
<1>2. TypeOK'
  BY <1>1 DEF IInv, TypeOK, DeliverFails, dbVars, faultVars
<1>3. task[w].phase = "deliver"
  BY DEF DeliverFails, At
<1>5. HoldersHaveItems' /\ HeldRowsAreFenced'
  BY <1>1, <1>3 DEF IInv, HoldersHaveItems, HeldRowsAreFenced, Fenced,
     HoldsJob, HoldsEvent, DeliverFails, dbVars
<1>6. OutcomeIsWhatHappened'
  BY <1>1, <1>3 DEF IInv, OutcomeIsWhatHappened, DeliverFails, dbVars
<1>7. OneIncidentPerReading' /\ SettledRowsTellTheTruth' /\ EveryClaimIsAnAttempt'
  BY DEF IInv, OneIncidentPerReading, SettledRowsTellTheTruth, EveryClaimIsAnAttempt,
         ClaimsMatchAttempts, DeliverFails, dbVars
<1>. QED
  BY <1>2, <1>5, <1>6, <1>7 DEF IInv
LEMMA ClaimOutboxEventInv ==
    ASSUME IInv, NEW w \in Workers, ClaimOutboxEvent(w)
    PROVE  IInv'
<1>1. PICK now \in Captured(w), r \in Readings :
          /\ outbox[r].status \in Waiting
          /\ outbox' = [outbox EXCEPT ![r] = ClaimRow(outbox[r], "sending", w, now)]
          /\ Hold(w, r, "deliver", outbox[r])
  BY DEF ClaimOutboxEvent, FirstClaimable, Claimable, IInv, TypeOK
<1>. DEFINE old == outbox[r]
           new == ClaimRow(old, "sending", w, now)
<1>2. old \in Row(OutboxStatus) /\ now \in Nat
  BY CapturedIsNat DEF IInv, TypeOK
<1>3. new \in Row(OutboxStatus)
  BY <1>2, ClaimRowType DEF OutboxStatus
<1>4. /\ new.status = "sending" /\ new.owner = w
      /\ new.gen = old.gen + 1 /\ new.attempts = old.attempts
  BY <1>2, ClaimRowFields
<1>5. outbox'[r] = new /\ \A q \in Readings \ {r} : outbox'[q] = outbox[q]
  BY <1>1 DEF IInv, TypeOK
<1>6. /\ task'[w] = [phase |-> "deliver", item |-> r, gen |-> old.gen + 1,
                     attempts |-> old.attempts, failed |-> FALSE, since |-> clock]
      /\ \A v \in Workers \ {w} : task'[v] = task[v]
  BY <1>1 DEF Hold, IInv, TypeOK
<1>7. delivered[r] = 0
  BY <1>1 DEF IInv, TypeOK, SettledRowsTellTheTruth, Waiting
<1>8. TypeOK'
  <2>1. outbox' \in [Readings -> Row(OutboxStatus)]
    BY <1>1, <1>3 DEF IInv, TypeOK
  <2>2. task'[w] \in Task
    BY <1>2, <1>6 DEF Task, Phase, Row, IInv, TypeOK
  <2>3. task' \in [Workers -> Task]
    BY <1>1, <1>6, <2>2 DEF Hold, IInv, TypeOK
  <2>. QED
    BY <2>1, <2>3 DEF IInv, TypeOK, ClaimOutboxEvent, faultVars
<1>9. HoldersHaveItems'
  BY <1>6 DEF IInv, HoldersHaveItems, HoldsJob, HoldsEvent
<1>10. HeldRowsAreFenced'
  <2>. SUFFICES ASSUME NEW v \in Workers
                PROVE  /\ HoldsJob(v)' =>
                             /\ Fenced(jobs'[task'[v].item], "running", v, task'[v].gen)
                             /\ jobs'[task'[v].item].attempts = task'[v].attempts
                       /\ HoldsEvent(v)' =>
                             /\ Fenced(outbox'[task'[v].item], "sending", v, task'[v].gen)
                             /\ outbox'[task'[v].item].attempts = task'[v].attempts
    BY DEF HeldRowsAreFenced, Fenced
  <2>1. CASE v = w
    BY <1>4, <1>5, <1>6, <2>1 DEF HoldsJob, HoldsEvent, Fenced
  <2>2. CASE v # w
    <3>1. HoldsEvent(v) => task[v].item \in Readings \ {r}
      BY <1>1 DEF IInv, HoldersHaveItems, HeldRowsAreFenced, Fenced, Waiting
    <3>. QED
      BY <1>5, <1>6, <2>2, <3>1
         DEF IInv, HeldRowsAreFenced, Fenced, HoldsJob, HoldsEvent, ClaimOutboxEvent
  <2>. QED
    BY <2>1, <2>2
<1>11. OutcomeIsWhatHappened'
  BY <1>6, <1>7 DEF IInv, OutcomeIsWhatHappened, ClaimOutboxEvent
<1>12. OneIncidentPerReading'
  BY <1>1, <1>4, <1>5 DEF IInv, OneIncidentPerReading, ClaimOutboxEvent, Waiting
<1>13. SettledRowsTellTheTruth'
  BY <1>1, <1>4, <1>5, <1>7
     DEF IInv, TypeOK, SettledRowsTellTheTruth, ClaimOutboxEvent, Waiting
<1>14. EveryClaimIsAnAttempt'
  BY <1>1, <1>2, <1>5, ClaimAccounts
     DEF IInv, EveryClaimIsAnAttempt, ClaimsMatchAttempts, ClaimOutboxEvent
<1>. QED
  BY <1>8, <1>9, <1>10, <1>11, <1>12, <1>13, <1>14 DEF IInv
LEMMA ProcessAlertInv ==
    ASSUME IInv, NEW w \in Workers, ProcessAlert(w)
    PROVE  IInv'
<1>. DEFINE r == task[w].item
<1>1. /\ task'[w].phase = "finish" /\ task'[w].failed = FALSE
      /\ task'[w].item = task[w].item /\ task'[w].gen = task[w].gen
      /\ task'[w].attempts = task[w].attempts
      /\ \A v \in Workers \ {w} : task'[v] = task[v]
      /\ task' \in [Workers -> Task]
  BY ProceededTask DEF IInv, ProcessAlert, Phase
<1>2. task[w].phase = "process" /\ r \in Readings
  BY DEF IInv, HoldersHaveItems, HoldsJob, ProcessAlert, At
<1>3. incidents[r] = 0 /\ jobs[r].status = "running"
  BY <1>2 DEF IInv, OutcomeIsWhatHappened, HeldRowsAreFenced, HoldsJob, Fenced
<1>4. reading[r] = "exceeding"
  BY <1>2, <1>3 DEF IInv, SettledRowsTellTheTruth
<1>5. PICK now \in Captured(w) : outbox' = [outbox EXCEPT ![r] = NewRow(now)]
  BY <1>4 DEF ProcessAlert
<1>6. /\ outbox[r].status = "absent"
      /\ incidents' = [incidents EXCEPT ![r] = incidents[r] + 1]
      /\ audited' = audited \cup {<<"telemetry.alert.evaluate", r>>}
      /\ UNCHANGED <<clock, reading, jobs, delivered, faultVars>>
  BY <1>4 DEF ProcessAlert
<1>7. /\ incidents'[r] = 1
      /\ \A q \in Readings \ {r} : incidents'[q] = incidents[q]
      /\ outbox'[r] = NewRow(now)
      /\ \A q \in Readings \ {r} : outbox'[q] = outbox[q]
  BY <1>2, <1>3, <1>5, <1>6 DEF IInv, TypeOK
<1>8. NewRow(now).status = "pending" /\ NewRow(now).gen = 0 /\ NewRow(now).attempts = 0
  BY DEF NewRow, AbsentRow
<1>9. now \in Nat
  BY CapturedIsNat DEF IInv
<1>10. TypeOK'
  <2>1. outbox' \in [Readings -> Row(OutboxStatus)]
    BY <1>5, <1>9, NewRowType DEF IInv, TypeOK, OutboxStatus
  <2>2. incidents' \in [Readings -> Nat]
    BY <1>2, <1>6 DEF IInv, TypeOK
  <2>3. audited' \subseteq {"telemetry.ingest", "telemetry.alert.evaluate"} \X Readings
    BY <1>2, <1>6 DEF IInv, TypeOK
  <2>. QED
    BY <1>1, <1>6, <2>1, <2>2, <2>3 DEF IInv, TypeOK, faultVars
<1>11. HoldersHaveItems'
  BY <1>1, <1>2 DEF IInv, HoldersHaveItems, HoldsJob, HoldsEvent
<1>12. HeldRowsAreFenced'
  <2>1. \A v \in Workers : HoldsEvent(v) => task[v].item \in Readings \ {r}
    BY <1>6 DEF IInv, HoldersHaveItems, HeldRowsAreFenced, Fenced
  <2>. QED
    BY <1>1, <1>2, <1>6, <1>7, <2>1
       DEF IInv, HeldRowsAreFenced, Fenced, HoldsJob, HoldsEvent
<1>13. OutcomeIsWhatHappened'
  <2>1. \A v \in Workers \ {w} : HoldsJob(v) => task[v].item \in Readings \ {r}
    BY <1>2, HoldsAreExclusive DEF IInv, HoldersHaveItems, HoldsJob
  <2>. QED
    BY <1>1, <1>6, <1>7, <2>1 DEF IInv, OutcomeIsWhatHappened, HoldsJob
<1>14. OneIncidentPerReading'
  BY <1>6, <1>7, <1>8 DEF IInv, OneIncidentPerReading
<1>15. SettledRowsTellTheTruth'
  BY <1>3, <1>6, <1>7, <1>8 DEF IInv, TypeOK, SettledRowsTellTheTruth
<1>16. EveryClaimIsAnAttempt'
  BY <1>6, <1>7, <1>8, LeaseRowAssumption
     DEF IInv, EveryClaimIsAnAttempt, ClaimsMatchAttempts
<1>. QED
  BY <1>10, <1>11, <1>12, <1>13, <1>14, <1>15, <1>16 DEF IInv

LEMMA FinishAlertJobInv ==
    ASSUME IInv, NEW w \in Workers, FinishAlertJob(w)
    PROVE  IInv'
<1>. DEFINE r == task[w].item
           t == task[w]
<1>1. /\ t.phase = "finish" /\ r \in Readings /\ t \in Task
      /\ jobs[r].status = "running" /\ jobs[r].attempts = t.attempts
      /\ jobs[r] \in Row(JobStatus)
  BY DEF IInv, TypeOK, HoldersHaveItems, HeldRowsAreFenced, Fenced, HoldsJob,
         FinishAlertJob, At
<1>2. PICK now \in Captured(w) :
          jobs' = [jobs EXCEPT ![r] = FinishedJob(jobs[r], t, now)]
  BY DEF FinishAlertJob
<1>. DEFINE new == FinishedJob(jobs[r], t, now)
<1>3. now \in Nat /\ t.attempts \in Nat /\ t.failed \in BOOLEAN
  BY <1>1, CapturedIsNat DEF IInv, Task
<1>4. jobs'[r] = new /\ \A q \in Readings \ {r} : jobs'[q] = jobs[q]
  BY <1>1, <1>2 DEF IInv, TypeOK
<1>5. /\ task'[w].phase = "claimAlert"
      /\ \A v \in Workers \ {w} : task'[v] = task[v]
      /\ task' \in [Workers -> Task]
  BY ReturnedTask DEF IInv, FinishAlertJob, IdleTask
<1>6. new \in Row(JobStatus)
  <2>1. {"succeeded", "dead", "retry"} \subseteq JobStatus /\ t.attempts + 1 \in Nat
    BY <1>3 DEF JobStatus
  <2>2. SettleRow(jobs[r], "succeeded", t.attempts, now) \in Row(JobStatus)
    BY <1>1, <1>3, <2>1, SettleRowType
  <2>3. FailRow(jobs[r], t.attempts + 1, now) \in Row(JobStatus)
    BY <1>1, <1>3, <2>1, FailRowType
  <2>. QED
    BY <2>2, <2>3 DEF FinishedJob
<1>7. new.status = IF t.failed THEN (IF t.attempts + 1 >= MaxAttempts THEN "dead" ELSE "retry")
                                ELSE "succeeded"
  BY <1>1, SettleRowFields, FailRowFields DEF FinishedJob
<1>8. ClaimsMatchAttempts(new)
  BY <1>1, SettleAccounts, FailAccounts DEF IInv, EveryClaimIsAnAttempt, FinishedJob
<1>9. incidents[r] = IF t.failed THEN 0 ELSE 1
  BY <1>1 DEF IInv, OutcomeIsWhatHappened
<1>10. UNCHANGED <<clock, reading, incidents, outbox, audited, delivered, faultVars>>
  BY DEF FinishAlertJob
<1>11. TypeOK'
  BY <1>2, <1>5, <1>6, <1>10 DEF IInv, TypeOK, faultVars
<1>12. HoldersHaveItems'
  BY <1>5 DEF IInv, HoldersHaveItems, HoldsJob, HoldsEvent
<1>13. HeldRowsAreFenced'
  <2>1. \A v \in Workers \ {w} : HoldsJob(v) => task[v].item \in Readings \ {r}
    BY <1>1, HoldsAreExclusive DEF IInv, HoldersHaveItems, HoldsJob
  <2>. QED
    BY <1>4, <1>5, <1>10, <2>1
       DEF IInv, HeldRowsAreFenced, Fenced, HoldsJob, HoldsEvent
<1>14. OutcomeIsWhatHappened'
  BY <1>5, <1>10 DEF IInv, OutcomeIsWhatHappened
<1>15. OneIncidentPerReading'
  BY <1>10 DEF IInv, OneIncidentPerReading
<1>16. SettledRowsTellTheTruth'
  BY <1>1, <1>3, <1>4, <1>7, <1>9, <1>10 DEF IInv, TypeOK, SettledRowsTellTheTruth
<1>17. EveryClaimIsAnAttempt'
  BY <1>4, <1>8, <1>10 DEF IInv, EveryClaimIsAnAttempt, ClaimsMatchAttempts
<1>. QED
  BY <1>11, <1>12, <1>13, <1>14, <1>15, <1>16, <1>17 DEF IInv
LEMMA DeliverInv ==
    ASSUME IInv, NEW w \in Workers, Deliver(w)
    PROVE  IInv'
<1>. DEFINE r == task[w].item
<1>1. /\ task'[w].phase = "settle" /\ task'[w].failed = FALSE
      /\ task'[w].item = task[w].item /\ task'[w].gen = task[w].gen
      /\ task'[w].attempts = task[w].attempts
      /\ \A v \in Workers \ {w} : task'[v] = task[v]
      /\ task' \in [Workers -> Task]
  BY ProceededTask DEF IInv, Deliver, Phase
<1>2. /\ task[w].phase = "deliver" /\ r \in Readings
      /\ outbox[r].status = "sending" /\ delivered[r] = 0
  BY DEF IInv, HoldersHaveItems, HeldRowsAreFenced, OutcomeIsWhatHappened, Fenced,
         HoldsEvent, Deliver, At
<1>3. /\ delivered'[r] = 1
      /\ \A q \in Readings \ {r} : delivered'[q] = delivered[q]
      /\ delivered' \in [Readings -> Nat]
  BY <1>2 DEF IInv, TypeOK, Deliver
<1>4. UNCHANGED <<clock, dbVars, faultVars>>
  BY DEF Deliver
<1>5. TypeOK'
  BY <1>1, <1>3, <1>4 DEF IInv, TypeOK, dbVars, faultVars
<1>6. HoldersHaveItems' /\ HeldRowsAreFenced'
  BY <1>1, <1>2, <1>4 DEF IInv, HoldersHaveItems, HeldRowsAreFenced, Fenced,
     HoldsJob, HoldsEvent, dbVars
<1>7. OutcomeIsWhatHappened'
  <2>1. \A v \in Workers \ {w} : HoldsEvent(v) => task[v].item \in Readings \ {r}
    BY <1>2, HoldsAreExclusive DEF IInv, HoldersHaveItems, HoldsEvent
  <2>. QED
    BY <1>1, <1>3, <1>4, <2>1 DEF IInv, OutcomeIsWhatHappened, HoldsEvent, dbVars
<1>8. OneIncidentPerReading'
  BY <1>4 DEF IInv, OneIncidentPerReading, dbVars
<1>9. SettledRowsTellTheTruth'
  BY <1>2, <1>3, <1>4 DEF IInv, SettledRowsTellTheTruth, dbVars
<1>10. EveryClaimIsAnAttempt'
  BY <1>4 DEF IInv, EveryClaimIsAnAttempt, ClaimsMatchAttempts, dbVars
<1>. QED
  BY <1>5, <1>6, <1>7, <1>8, <1>9, <1>10 DEF IInv

(* The two settlements of an event differ only in the row they write: a    *)
(* delivered one when the notifier took it, a failed one when it did not.  *)
LEMMA SettledOutboxInv ==
    ASSUME IInv, NEW w \in Workers, NEW new \in Row(OutboxStatus),
           task[w].phase = "settle", Return(w),
           outbox' = [outbox EXCEPT ![task[w].item] = new],
           UNCHANGED <<clock, reading, jobs, incidents, audited, delivered, faultVars>>,
           new.status \in (IF task[w].failed THEN {"dead", "retry"} ELSE {"delivered"}),
           ClaimsMatchAttempts(new)
    PROVE  IInv'
<1>. DEFINE r == task[w].item
<1>1. /\ r \in Readings /\ task[w].failed \in BOOLEAN
      /\ outbox[r].status = "sending"
      /\ delivered[r] = IF task[w].failed THEN 0 ELSE 1
  BY DEF IInv, TypeOK, Task, HoldersHaveItems, HeldRowsAreFenced, Fenced,
         OutcomeIsWhatHappened, HoldsEvent
<1>2. outbox'[r] = new /\ \A q \in Readings \ {r} : outbox'[q] = outbox[q]
  BY <1>1 DEF IInv, TypeOK
<1>3. /\ task'[w].phase = "claimAlert"
      /\ \A v \in Workers \ {w} : task'[v] = task[v]
      /\ task' \in [Workers -> Task]
  BY ReturnedTask DEF IInv, IdleTask
<1>4. TypeOK'
  BY <1>3 DEF IInv, TypeOK, faultVars
<1>5. HoldersHaveItems'
  BY <1>3 DEF IInv, HoldersHaveItems, HoldsJob, HoldsEvent
<1>6. HeldRowsAreFenced'
  <2>1. \A v \in Workers \ {w} : HoldsEvent(v) => task[v].item \in Readings \ {r}
    BY HoldsAreExclusive DEF IInv, HoldersHaveItems, HoldsEvent
  <2>. QED
    BY <1>2, <1>3, <2>1
       DEF IInv, HeldRowsAreFenced, Fenced, HoldsJob, HoldsEvent
<1>7. OutcomeIsWhatHappened'
  BY <1>3 DEF IInv, OutcomeIsWhatHappened
<1>8. OneIncidentPerReading'
  BY <1>1, <1>2 DEF IInv, OneIncidentPerReading
<1>9. SettledRowsTellTheTruth'
  BY <1>1, <1>2 DEF IInv, SettledRowsTellTheTruth
<1>10. EveryClaimIsAnAttempt'
  BY <1>2 DEF IInv, EveryClaimIsAnAttempt, ClaimsMatchAttempts
<1>. QED
  BY <1>4, <1>5, <1>6, <1>7, <1>8, <1>9, <1>10 DEF IInv

LEMMA HeldEvent ==
    ASSUME IInv, NEW w \in Workers, At(w, "settle")
    PROVE  LET row == outbox[task[w].item] IN
           /\ row \in Row(OutboxStatus) /\ row.status = "sending"
           /\ row.attempts = task[w].attempts /\ row.attempts \in Nat
           /\ row.available \in Nat
           /\ ClaimsMatchAttempts(row)
<1>1. task[w].item \in Readings /\ HoldsEvent(w)
  BY DEF IInv, HoldersHaveItems, HoldsEvent, At
<1>. QED
  BY <1>1 DEF IInv, TypeOK, Row, HeldRowsAreFenced, Fenced, EveryClaimIsAnAttempt

LEMMA CompleteOutboxEventInv ==
    ASSUME IInv, NEW w \in Workers, CompleteOutboxEvent(w)
    PROVE  IInv'
<1>. DEFINE row == outbox[task[w].item]
           new == SettleRow(row, "delivered", row.attempts, row.available)
<1>1. /\ At(w, "settle") /\ task[w].failed = FALSE /\ Return(w)
      /\ outbox' = [outbox EXCEPT ![task[w].item] = new]
      /\ UNCHANGED <<clock, reading, jobs, incidents, audited, delivered, faultVars>>
  BY DEF CompleteOutboxEvent, IInv, TypeOK, Task
<1>2. /\ row \in Row(OutboxStatus) /\ row.status = "sending"
      /\ row.attempts \in Nat /\ row.available \in Nat /\ ClaimsMatchAttempts(row)
  BY <1>1, HeldEvent
<1>3. new \in Row(OutboxStatus)
  BY <1>2, SettleRowType DEF OutboxStatus
<1>4. new.status = "delivered"
  BY <1>2, SettleRowFields
<1>5. ClaimsMatchAttempts(new)
  BY <1>2, SettleAccounts
<1>. QED
  BY <1>1, <1>3, <1>4, <1>5, SettledOutboxInv DEF At

LEMMA FailOutboxEventInv ==
    ASSUME IInv, NEW w \in Workers, FailOutboxEvent(w)
    PROVE  IInv'
<1>. DEFINE row == outbox[task[w].item]
<1>1. PICK now \in Captured(w) :
          outbox' = [outbox EXCEPT ![task[w].item] = FailRow(row, task[w].attempts + 1, now)]
  BY DEF FailOutboxEvent
<1>. DEFINE new == FailRow(row, task[w].attempts + 1, now)
<1>2. /\ At(w, "settle") /\ task[w].failed = TRUE /\ Return(w)
      /\ UNCHANGED <<clock, reading, jobs, incidents, audited, delivered, faultVars>>
  BY DEF FailOutboxEvent, IInv, TypeOK, Task
<1>3. now \in Nat /\ task[w].attempts + 1 \in Nat
  BY <1>2, HeldEvent, CapturedIsNat DEF IInv
<1>4. new \in Row(OutboxStatus)
  BY <1>2, <1>3, HeldEvent, FailRowType DEF OutboxStatus
<1>5. new.status \in {"dead", "retry"}
  BY <1>2, HeldEvent, FailRowFields
<1>6. ClaimsMatchAttempts(new)
  BY <1>2, HeldEvent, FailAccounts
<1>. QED
  BY <1>1, <1>2, <1>4, <1>5, <1>6, SettledOutboxInv DEF At

-----------------------------------------------------------------------------
LEMMA StepInv == IInv /\ [Next]_vars => IInv'
<1>. SUFFICES ASSUME IInv, [Next]_vars
              PROVE  IInv'
  OBVIOUS
<1>1. CASE \E r \in Readings, exceeds \in BOOLEAN : Ingest(r, exceeds)
  BY <1>1, IngestInv
<1>2. ASSUME NEW w \in Workers, AlertStep(w)
      PROVE  IInv'
  BY <1>2, ClaimAlertJobInv, NothingClaimedInv, ProcessAlertInv, ProcessAlertFailsInv,
     FinishAlertJobInv, StatementFailsInv DEF AlertStep
<1>3. ASSUME NEW w \in Workers, OutboxStep(w)
      PROVE  IInv'
  BY <1>3, ClaimOutboxEventInv, NothingClaimedInv, DeliverInv, DeliverFailsInv,
     CompleteOutboxEventInv, FailOutboxEventInv, StatementFailsInv DEF OutboxStep
<1>4. CASE Stop \/ Start \/ Tick
  BY <1>4, EnvironmentInv
<1>5. CASE UNCHANGED vars
  <2>1. TypeOK'
    BY <1>5 DEF IInv, TypeOK, vars
  <2>. QED
    BY <1>5, <2>1, LetGoInv DEF vars, dbVars
<1>. QED
  BY <1>1, <1>2, <1>3, <1>4, <1>5 DEF Next, processOne

(* The conjunction of the run-checked invariants and the two auxiliary     *)
(* facts is inductive.                                                     *)
THEOREM Invariance == Spec => []IInv
BY InitInv, StepInv, PTL DEF Spec

(* Every variable keeps its type, for any number of workers, readings,     *)
(* attempts and faults.                                                    *)
THEOREM TypeCorrect == Spec => []TypeOK
<1>1. IInv => TypeOK
  BY DEF IInv
<1>. QED
  BY <1>1, Invariance, PTL

(* The worker that claimed a job or an event is the only one working on    *)
(* it, and its fencing columns still match when it comes to settle it.     *)
THEOREM ClaimsAreExclusive == Spec => []HeldRowsAreFenced
<1>1. IInv => HeldRowsAreFenced
  BY DEF IInv
<1>. QED
  BY <1>1, Invariance, PTL

(* Whatever is interleaved, retried, stopped or failed, a reading has at   *)
(* most one incident, and its notification and audit record exactly with   *)
(* it.                                                                     *)
THEOREM AlertsAreAtomic == Spec => []OneIncidentPerReading
<1>1. IInv => OneIncidentPerReading
  BY DEF IInv
<1>. QED
  BY <1>1, Invariance, PTL

(* A succeeded, delivered or dead row says what happened to its reading.   *)
THEOREM SettlementsAreTrue == Spec => []SettledRowsTellTheTruth
<1>1. IInv => SettledRowsTellTheTruth
  BY DEF IInv
<1>. QED
  BY <1>1, Invariance, PTL

(* No row is claimed more often than its attempts allow, nor given up      *)
(* before they are used.                                                   *)
THEOREM AttemptsAreAccounted == Spec => []EveryClaimIsAnAttempt
<1>1. IInv => EveryClaimIsAnAttempt
  BY DEF IInv
<1>. QED
  BY <1>1, Invariance, PTL

(* What a worker is about to record is what happened to the reading.       *)
THEOREM OutcomesAreTrue == Spec => []OutcomeIsWhatHappened
<1>1. IInv => OutcomeIsWhatHappened
  BY DEF IInv
<1>. QED
  BY <1>1, Invariance, PTL

-----------------------------------------------------------------------------
(* The statements that write a row which somebody claimed.                 *)
LEMMA ClaimedJobWrites ==
    ASSUME IInv, Next, NEW r \in Readings, jobs'[r] # jobs[r],
           jobs[r].status \notin {"absent"} \cup Waiting
    PROVE  \E w \in Workers : FinishAlertJob(w) /\ task[w].item = r
<1>1. ASSUME NEW q \in Readings, NEW exceeds \in BOOLEAN, Ingest(q, exceeds)
      PROVE  FALSE
  <2>1. jobs[q].status = "absent"
    BY <1>1 DEF IInv, SettledRowsTellTheTruth, Ingest
  <2>2. q # r
    BY <2>1
  <2>. QED
    BY <1>1, <2>2 DEF Ingest, IInv, TypeOK
<1>2. ASSUME NEW w \in Workers, ClaimAlertJob(w)
      PROVE  FALSE
  <2>1. PICK now \in Captured(w), q \in Readings :
            /\ jobs[q].status \in Waiting
            /\ jobs' = [jobs EXCEPT ![q] = ClaimRow(jobs[q], "running", w, now)]
    BY <1>2 DEF ClaimAlertJob, FirstClaimable, Claimable, IInv, TypeOK
  <2>2. q # r
    BY <2>1
  <2>. QED
    BY <2>1, <2>2 DEF IInv, TypeOK
<1>3. PICK w \in Workers : FinishAlertJob(w)
  BY <1>1, <1>2
     DEF Next, processOne, AlertStep, OutboxStep, NoAlertJob, ProcessAlert, ProcessAlertFails,
         FinishAlertJobFails, ClaimOutboxEvent, NoOutboxEvent, ClaimOutboxEventFails, Deliver,
         DeliverFails, CompleteOutboxEvent, FailOutboxEvent, SettleOutboxFails, Stop, Start, Tick,
         dbVars
<1>4. task[w].item = r
  BY <1>3 DEF FinishAlertJob, IInv, TypeOK
<1>. QED
  BY <1>3, <1>4

LEMMA ClaimedEventWrites ==
    ASSUME IInv, Next, NEW r \in Readings, outbox'[r] # outbox[r],
           outbox[r].status \notin {"absent"} \cup Waiting
    PROVE  \E w \in Workers : /\ CompleteOutboxEvent(w) \/ FailOutboxEvent(w)
                              /\ task[w].item = r
<1>1. ASSUME NEW w \in Workers, ProcessAlert(w)
      PROVE  FALSE
  <2>1. outbox' = outbox \/ outbox[task[w].item].status = "absent"
    BY <1>1 DEF ProcessAlert
  <2>2. r # task[w].item
    BY <2>1
  <2>. QED
    BY <1>1, <2>2 DEF ProcessAlert, IInv, TypeOK
<1>2. ASSUME NEW w \in Workers, ClaimOutboxEvent(w)
      PROVE  FALSE
  <2>1. PICK now \in Captured(w), q \in Readings :
            /\ outbox[q].status \in Waiting
            /\ outbox' = [outbox EXCEPT ![q] = ClaimRow(outbox[q], "sending", w, now)]
    BY <1>2 DEF ClaimOutboxEvent, FirstClaimable, Claimable, IInv, TypeOK
  <2>2. q # r
    BY <2>1
  <2>. QED
    BY <2>1, <2>2 DEF IInv, TypeOK
<1>3. PICK w \in Workers : CompleteOutboxEvent(w) \/ FailOutboxEvent(w)
  BY <1>1, <1>2
     DEF Next, processOne, AlertStep, OutboxStep, Ingest, NoAlertJob, ClaimAlertJob,
         ProcessAlertFails, FinishAlertJob, FinishAlertJobFails, NoOutboxEvent,
         ClaimOutboxEventFails, Deliver, DeliverFails, SettleOutboxFails, Stop, Start, Tick, dbVars
<1>4. task[w].item = r
  BY <1>3 DEF CompleteOutboxEvent, FailOutboxEvent, IInv, TypeOK
<1>. QED
  BY <1>3, <1>4

(* A row that somebody claimed is written by nobody but the holder of that *)
(* very claim, and a settled row by nobody (FinishAlertJob,                *)
(* CompleteOutboxEvent, FailOutboxEvent).                                  *)
THEOREM ClaimsAreSettledByTheirHolder == Spec => SettledByHolder
<1>. DEFINE A ==
      \A r \in Readings :
        /\ jobs'[r] # jobs[r] /\ jobs[r].status \notin {"absent"} \cup Waiting
              => \E w \in Workers : /\ At(w, "finish") /\ task[w].item = r
                                    /\ Fenced(jobs[r], "running", w, task[w].gen)
                                    /\ task'[w].phase = "claimAlert"
        /\ outbox'[r] # outbox[r] /\ outbox[r].status \notin {"absent"} \cup Waiting
              => \E w \in Workers : /\ At(w, "settle") /\ task[w].item = r
                                    /\ Fenced(outbox[r], "sending", w, task[w].gen)
                                    /\ task'[w].phase = "claimAlert"
<1>1. IInv /\ [Next]_vars => [A]_vars
  <2>. SUFFICES ASSUME IInv, Next PROVE A
    OBVIOUS
  <2>1. ASSUME NEW w \in Workers, Return(w)
        PROVE  task'[w].phase = "claimAlert"
    BY <2>1, ReturnedTask DEF IInv, IdleTask
  <2>2. ASSUME NEW r \in Readings,
               jobs'[r] # jobs[r], jobs[r].status \notin {"absent"} \cup Waiting
        PROVE  \E w \in Workers : /\ At(w, "finish") /\ task[w].item = r
                                  /\ Fenced(jobs[r], "running", w, task[w].gen)
                                  /\ task'[w].phase = "claimAlert"
    BY <2>1, <2>2, ClaimedJobWrites DEF FinishAlertJob
  <2>3. ASSUME NEW r \in Readings,
               outbox'[r] # outbox[r], outbox[r].status \notin {"absent"} \cup Waiting
        PROVE  \E w \in Workers : /\ At(w, "settle") /\ task[w].item = r
                                  /\ Fenced(outbox[r], "sending", w, task[w].gen)
                                  /\ task'[w].phase = "claimAlert"
    BY <2>1, <2>3, ClaimedEventWrites DEF CompleteOutboxEvent, FailOutboxEvent, Acknowledgeable
  <2>. QED
    BY <2>2, <2>3
<1>. QED
  BY <1>1, Invariance, PTL DEF Spec, SettledByHolder

-----------------------------------------------------------------------------
(* The stage of a reading, for the states the invariant allows.            *)
LEMMA StageCases ==
    ASSUME IInv, NEW r \in Readings
    PROVE  /\ reading[r] = "absent" => Stage(r) = "none"
           /\ reading[r] = "normal" => Stage(r) = "ignored"
           /\ reading[r] = "exceeding" /\ incidents[r] = 0 =>
                 Stage(r) = IF jobs[r].status = "dead" THEN "abandoned" ELSE "owed"
           /\ reading[r] = "exceeding" /\ incidents[r] # 0 =>
                 Stage(r) = IF outbox[r].status = "delivered" THEN "notified"
                            ELSE IF outbox[r].status = "dead" THEN "undelivered" ELSE "reported"
           /\ reading[r] \in {"absent", "normal", "exceeding"}
BY DEF Stage, IInv, TypeOK

(* An event belongs to an exceeding reading with its incident.             *)
LEMMA EventsAreReported ==
    ASSUME IInv, NEW r \in Readings, outbox[r].status # "absent"
    PROVE  reading[r] = "exceeding" /\ incidents[r] = 1
<1>1. incidents[r] = 1
  BY DEF IInv, OneIncidentPerReading
<1>. QED
  BY <1>1 DEF IInv, SettledRowsTellTheTruth

(* Rows whose status does not enter or leave what the stage looks at.      *)
LEMMA StageStays ==
    ASSUME IInv, NEW r \in Readings,
           reading'[r] = reading[r], incidents'[r] = incidents[r],
           jobs'[r].status = "dead" <=> jobs[r].status = "dead",
           outbox'[r].status = "delivered" <=> outbox[r].status = "delivered",
           outbox'[r].status = "dead" <=> outbox[r].status = "dead"
    PROVE  Stage(r)' = Stage(r)
BY DEF Stage, IInv, TypeOK

(* One reading moves and the others stay: a move of the promise.           *)
LEMMA StageMoves ==
    ASSUME NEW r \in Readings, NEW from, NEW to, Stage(r) = from, Stage(r)' = to,
           \A q \in Readings \ {r} : Stage(q)' = Stage(q)
    PROVE  Promise!Move(r, from, to)
<1>1. stageOf[r] = from
  BY DEF stageOf
<1>2. stageOf' = [stageOf EXCEPT ![r] = to]
  BY DEF stageOf
<1>. QED
  BY <1>1, <1>2 DEF Promise!Move

LEMMA NothingMoves ==
    ASSUME \A q \in Readings : Stage(q)' = Stage(q)
    PROVE  stageOf' = stageOf
BY DEF stageOf

(* A table where at most the row of r was written leaves the stages of the *)
(* other readings alone.                                                   *)
LEMMA OthersStay ==
    ASSUME IInv, NEW r \in Readings,
           \A q \in Readings \ {r} : /\ reading'[q] = reading[q]
                                      /\ incidents'[q] = incidents[q]
                                      /\ jobs'[q] = jobs[q] /\ outbox'[q] = outbox[q]
    PROVE  \A q \in Readings \ {r} : Stage(q)' = Stage(q)
BY DEF Stage, IInv, TypeOK

(* One lemma per action that writes a row: the move it makes.              *)
LEMMA IngestKeepsPromise ==
    ASSUME IInv, NEW r \in Readings, NEW exceeds \in BOOLEAN, Ingest(r, exceeds)
    PROVE  Promise!Accept(r)
<1>1. Stage(r) = "none" /\ incidents[r] = 0 /\ incidents' = incidents
  BY StageCases DEF Ingest, IInv, TypeOK, SettledRowsTellTheTruth
<1>2. \A q \in Readings \ {r} : Stage(q)' = Stage(q)
  BY OthersStay DEF Ingest, IInv, TypeOK
<1>3. CASE exceeds
  <2>1. reading'[r] = "exceeding" /\ jobs'[r].status = "pending"
    BY <1>3 DEF Ingest, IInv, TypeOK, NewRow, AbsentRow
  <2>2. Stage(r)' = "owed"
    BY <1>1, <2>1 DEF Stage
  <2>. QED
    BY <1>1, <1>2, <2>2, StageMoves DEF Promise!Accept
<1>4. CASE ~exceeds
  <2>1. reading'[r] = "normal"
    BY <1>4 DEF Ingest, IInv, TypeOK
  <2>2. Stage(r)' = "ignored"
    BY <2>1 DEF Stage
  <2>. QED
    BY <1>1, <1>2, <2>2, StageMoves DEF Promise!Accept
<1>. QED
  BY <1>3, <1>4

LEMMA ProcessAlertKeepsPromise ==
    ASSUME IInv, NEW w \in Workers, ProcessAlert(w)
    PROVE  Promise!Report(task[w].item)
<1>1. PICK r \in Readings : r = task[w].item
  BY DEF ProcessAlert, At, IInv, HoldersHaveItems, HoldsJob
<1>2. /\ jobs[r].status = "running" /\ incidents[r] = 0
      /\ reading[r] = "exceeding"
  BY <1>1 DEF ProcessAlert, At, IInv, HeldRowsAreFenced, HoldsJob, Fenced,
              OutcomeIsWhatHappened, SettledRowsTellTheTruth
<1>3. PICK now \in Captured(w) :
          /\ incidents' = [incidents EXCEPT ![r] = incidents[r] + 1]
          /\ outbox' = [outbox EXCEPT ![r] = NewRow(now)]
          /\ reading' = reading /\ jobs' = jobs
  BY <1>1, <1>2 DEF ProcessAlert
<1>4. Stage(r) = "owed"
  BY <1>2, StageCases
<1>5. /\ incidents'[r] = 1 /\ outbox'[r].status = "pending"
      /\ reading'[r] = "exceeding"
  BY <1>2, <1>3 DEF IInv, TypeOK, NewRow, AbsentRow
<1>6. Stage(r)' = "reported"
  BY <1>5 DEF Stage
<1>7. \A q \in Readings \ {r} : Stage(q)' = Stage(q)
  BY <1>3, OthersStay DEF IInv, TypeOK
<1>. QED
  BY <1>1, <1>4, <1>6, <1>7, StageMoves DEF Promise!Report

LEMMA FinishAlertJobKeepsPromise ==
    ASSUME IInv, NEW w \in Workers, FinishAlertJob(w)
    PROVE  Promise!Report(task[w].item) \/ UNCHANGED stageOf
<1>1. PICK r \in Readings : r = task[w].item
  BY DEF FinishAlertJob, At, IInv, HoldersHaveItems, HoldsJob
<1>2. PICK now \in Captured(w) :
          jobs' = [jobs EXCEPT ![r] = FinishedJob(jobs[r], task[w], now)]
  BY <1>1 DEF FinishAlertJob
<1>3. UNCHANGED <<reading, incidents, outbox>>
  BY DEF FinishAlertJob
<1>4. /\ jobs[r] \in Row(JobStatus) /\ jobs[r].status = "running"
      /\ reading[r] = "exceeding"
      /\ incidents[r] = IF task[w].failed THEN 0 ELSE 1
  BY <1>1 DEF FinishAlertJob, At, Fenced, IInv, TypeOK, OutcomeIsWhatHappened,
              SettledRowsTellTheTruth
<1>5. \A q \in Readings \ {r} : Stage(q)' = Stage(q)
  BY <1>2, <1>3, OthersStay DEF IInv, TypeOK
<1>6. jobs'[r] = FinishedJob(jobs[r], task[w], now)
  BY <1>2 DEF IInv, TypeOK
<1>7. CASE task[w].failed
  <2>1. PICK attempts : attempts = task[w].attempts + 1
    OBVIOUS
  <2>2. jobs'[r].status \in {"dead", "retry"}
    BY <1>4, <1>6, <1>7, <2>1, FailRowFields DEF FinishedJob
  <2>3. Stage(r) = "owed"
    BY <1>4, <1>7, StageCases
  <2>4. Stage(r)' = IF jobs'[r].status = "dead" THEN "abandoned" ELSE "owed"
    BY <1>3, <1>4, <1>7 DEF Stage
  <2>5. CASE jobs'[r].status = "dead"
    BY <1>1, <1>5, <2>3, <2>4, <2>5, StageMoves DEF Promise!Report
  <2>6. CASE jobs'[r].status = "retry"
    BY <1>5, <2>3, <2>4, <2>6, NothingMoves
  <2>. QED
    BY <2>2, <2>5, <2>6
<1>8. CASE ~task[w].failed
  <2>1. incidents[r] = 1
    BY <1>4, <1>8
  <2>2. Stage(r)' = Stage(r)
    BY <1>3, <1>4, <2>1 DEF Stage
  <2>. QED
    BY <1>5, <2>2, NothingMoves
<1>. QED
  BY <1>7, <1>8

(* Settling an event decides between notified and undelivered.             *)
LEMMA SettledEventKeepsPromise ==
    ASSUME IInv, NEW w \in Workers, CompleteOutboxEvent(w) \/ FailOutboxEvent(w)
    PROVE  Promise!Notify(task[w].item) \/ UNCHANGED stageOf
<1>1. PICK r \in Readings : r = task[w].item
  BY DEF CompleteOutboxEvent, FailOutboxEvent, At, IInv, HoldersHaveItems, HoldsEvent
<1>2. PICK new : /\ outbox' = [outbox EXCEPT ![r] = new]
                 /\ new.status \in {"delivered", "dead", "retry"}
  <2>1. outbox[r] \in Row(OutboxStatus)
    BY DEF IInv, TypeOK
  <2>2. CASE CompleteOutboxEvent(w)
    <3>1. PICK new :
            new = SettleRow(outbox[r], "delivered", outbox[r].attempts, outbox[r].available)
      OBVIOUS
    <3>2. new.status = "delivered"
      BY <2>1, <3>1, SettleRowFields
    <3>. QED
      BY <1>1, <2>2, <3>1, <3>2 DEF CompleteOutboxEvent
  <2>3. CASE FailOutboxEvent(w)
    <3>1. PICK now : outbox' = [outbox EXCEPT ![r] = FailRow(outbox[r], task[w].attempts + 1, now)]
      BY <1>1, <2>3 DEF FailOutboxEvent
    <3>2. PICK attempts : attempts = task[w].attempts + 1
      OBVIOUS
    <3>3. PICK new : new = FailRow(outbox[r], attempts, now)
      OBVIOUS
    <3>4. new.status \in {"dead", "retry"}
      BY <2>1, <3>3, FailRowFields
    <3>. QED
      BY <3>1, <3>2, <3>3, <3>4
  <2>. QED
    BY <2>2, <2>3
<1>3. UNCHANGED <<reading, incidents, jobs>>
  BY DEF CompleteOutboxEvent, FailOutboxEvent
<1>4. outbox[r].status = "sending"
  BY <1>1 DEF CompleteOutboxEvent, FailOutboxEvent, Acknowledgeable, Fenced
<1>5. reading[r] = "exceeding" /\ incidents[r] = 1
  BY <1>4, EventsAreReported
<1>6. outbox'[r] = new /\ \A q \in Readings \ {r} : outbox'[q] = outbox[q]
  BY <1>2 DEF IInv, TypeOK
<1>7. Stage(r) = "reported"
  BY <1>4, <1>5, StageCases
<1>8. Stage(r)' = IF new.status = "delivered" THEN "notified"
                  ELSE IF new.status = "dead" THEN "undelivered" ELSE "reported"
  BY <1>3, <1>5, <1>6 DEF Stage
<1>9. \A q \in Readings \ {r} : Stage(q)' = Stage(q)
  BY <1>3, <1>6, OthersStay
<1>10. CASE new.status = "retry"
  BY <1>7, <1>8, <1>9, <1>10, NothingMoves
<1>11. CASE new.status \in {"delivered", "dead"}
  BY <1>1, <1>7, <1>8, <1>9, <1>11, StageMoves DEF Promise!Notify
<1>. QED
  BY <1>2, <1>10, <1>11

(* A claim moves no reading.                                               *)
LEMMA ClaimKeepsPromise ==
    ASSUME IInv, NEW w \in Workers, ClaimAlertJob(w) \/ ClaimOutboxEvent(w)
    PROVE  UNCHANGED stageOf
<1>1. CASE ClaimAlertJob(w)
  <2>1. PICK now \in Captured(w), r \in Readings :
            /\ jobs[r].status \in Waiting
            /\ jobs' = [jobs EXCEPT ![r] = ClaimRow(jobs[r], "running", w, now)]
    BY <1>1 DEF ClaimAlertJob, FirstClaimable, Claimable, IInv, TypeOK
  <2>2. jobs'[r].status = "running"
    BY <2>1, ClaimRowFields DEF IInv, TypeOK
  <2>3. \A q \in Readings : jobs'[q].status = "dead" <=> jobs[q].status = "dead"
    BY <2>1, <2>2 DEF Waiting, IInv, TypeOK
  <2>4. UNCHANGED <<reading, incidents, outbox>>
    BY <1>1 DEF ClaimAlertJob
  <2>. QED
    BY <2>3, <2>4, StageStays, NothingMoves
<1>2. CASE ClaimOutboxEvent(w)
  <2>1. PICK now \in Captured(w), r \in Readings :
            /\ outbox[r].status \in Waiting
            /\ outbox' = [outbox EXCEPT ![r] = ClaimRow(outbox[r], "sending", w, now)]
    BY <1>2 DEF ClaimOutboxEvent, FirstClaimable, Claimable, IInv, TypeOK
  <2>2. outbox'[r].status = "sending"
    BY <2>1, ClaimRowFields DEF IInv, TypeOK
  <2>3. \A q \in Readings :
           /\ outbox'[q].status = "dead" <=> outbox[q].status = "dead"
           /\ outbox'[q].status = "delivered" <=> outbox[q].status = "delivered"
    BY <2>1, <2>2 DEF Waiting, IInv, TypeOK
  <2>4. UNCHANGED <<reading, incidents, jobs>>
    BY <1>2 DEF ClaimOutboxEvent
  <2>. QED
    BY <2>3, <2>4, StageStays, NothingMoves
<1>. QED
  BY <1>1, <1>2

(* The pipeline with its workers, leases, retries and crashes implements   *)
(* the promise of AlertPromise: an exceeding reading owes an incident      *)
(* until it is reported together with its notification or abandoned, and a *)
(* reported one is notified or given up; no stage is skipped, repeated or  *)
(* left again.                                                             *)
THEOREM ImplementsThePromise == Spec => ImplementsPromise
<1>1. Init => Promise!Init
  BY DEF Init, Promise!Init, stageOf, Stage
<1>2. IInv /\ [Next]_vars => [Promise!Next]_stageOf
  <2>1. ASSUME UNCHANGED <<reading, jobs, incidents, outbox>>
        PROVE  UNCHANGED stageOf
    BY <2>1 DEF stageOf, Stage
  <2>2. ASSUME IInv, NEW r \in Readings, NEW exceeds \in BOOLEAN, Ingest(r, exceeds)
        PROVE  Promise!Next
    BY <2>2, IngestKeepsPromise DEF Promise!Next
  <2>3. ASSUME IInv, NEW w \in Workers, AlertStep(w)
        PROVE  [Promise!Next]_stageOf
    <3>1. HoldsJob(w) => task[w].item \in Readings
      BY <2>3 DEF IInv, HoldersHaveItems
    <3>2. CASE ProcessAlert(w)
      BY <2>3, <3>1, <3>2, ProcessAlertKeepsPromise DEF Promise!Next, ProcessAlert, At, HoldsJob
    <3>3. CASE FinishAlertJob(w)
      BY <2>3, <3>1, <3>3, FinishAlertJobKeepsPromise
         DEF Promise!Next, FinishAlertJob, At, HoldsJob
    <3>4. CASE ClaimAlertJob(w)
      BY <2>3, <3>4, ClaimKeepsPromise
    <3>5. CASE NoAlertJob(w) \/ ProcessAlertFails(w) \/ FinishAlertJobFails(w)
      BY <2>1, <3>5 DEF NoAlertJob, ProcessAlertFails, FinishAlertJobFails, dbVars
    <3>. QED
      BY <2>3, <3>2, <3>3, <3>4, <3>5 DEF AlertStep
  <2>4. ASSUME IInv, NEW w \in Workers, OutboxStep(w)
        PROVE  [Promise!Next]_stageOf
    <3>1. HoldsEvent(w) => task[w].item \in Readings
      BY <2>4 DEF IInv, HoldersHaveItems
    <3>2. CASE CompleteOutboxEvent(w) \/ FailOutboxEvent(w)
      BY <2>4, <3>1, <3>2, SettledEventKeepsPromise
         DEF Promise!Next, CompleteOutboxEvent, FailOutboxEvent, At, HoldsEvent
    <3>3. CASE ClaimOutboxEvent(w)
      BY <2>4, <3>3, ClaimKeepsPromise
    <3>4. CASE \/ NoOutboxEvent(w) \/ ClaimOutboxEventFails(w) \/ Deliver(w)
               \/ DeliverFails(w) \/ SettleOutboxFails(w)
      BY <2>1, <3>4 DEF NoOutboxEvent, ClaimOutboxEventFails, Deliver, DeliverFails,
                        SettleOutboxFails, dbVars
    <3>. QED
      BY <2>4, <3>2, <3>3, <3>4 DEF OutboxStep
  <2>5. ASSUME Stop \/ Start \/ Tick \/ UNCHANGED vars
        PROVE  UNCHANGED stageOf
    BY <2>1, <2>5 DEF Stop, Start, Tick, vars, dbVars
  <2>. QED
    BY <2>2, <2>3, <2>4, <2>5 DEF Next, processOne
<1>. QED
  BY <1>1, <1>2, Invariance, PTL DEF Spec, ImplementsPromise, Promise!Spec
=============================================================================
