---------------------------- MODULE AlertPipeline ---------------------------
(***************************************************************************)
(* From a telemetry reading to a delivered notification.                   *)
(*                                                                         *)
(* Ingest stores a reading and, when it exceeds its threshold, an alert    *)
(* job in the same transaction.  The worker goroutines of worker.Runtime   *)
(* claim jobs, run AlertProcessor.ProcessAlert in a transaction of its own *)
(* (incident + outbox event + audit), and settle the job with a third      *)
(* statement; when no job is claimable they claim, deliver and settle an   *)
(* outbox event.  Claim, effect and settlement are separate commits, so    *)
(* every interleaving, crash and failed statement between them is a        *)
(* behaviour here.                                                         *)
(*                                                                         *)
(* A SQLite transaction (store.WithTx, or one autocommitted UPDATE) is one *)
(* action: WAL admits one writer and a transaction that read a stale       *)
(* snapshot cannot write.  The `now' a statement is given was read from    *)
(* the clock by its caller beforehand, so it is any instant since the      *)
(* worker reached that call.                                               *)
(***************************************************************************)
EXTENDS LeaseRow

CONSTANTS
    Readings,            \* (station, external id) keys that may be reported
    MaxTime,             \* bound on idle time, in seconds
    MaxStops,            \* bound on process stops
    MaxStatementErrors   \* bound on claim and settling statements that return an error

ASSUME AlertPipelineAssumption ==
    /\ None \notin Readings
    /\ MaxTime \in Nat
    /\ MaxStops \in Nat
    /\ MaxStatementErrors \in Nat

VARIABLES
    clock,      \* wall clock
    up,         \* the process runs (FALSE: crashed or its context cancelled)
    reading,    \* telemetry_readings: "absent", "normal" or "exceeding"
    jobs,       \* alert_jobs, keyed by reading_id (UNIQUE)
    incidents,  \* how many incidents were created for a reading
    outbox,     \* outbox_events, keyed by idempotency key "telemetry:<id>"
    audited,    \* audit_events: <<action, reading>>
    delivered,  \* how many times the notifier took a reading's event
    task,       \* per worker: where processOne is, and its copy of the row
    stops,      \* fault counters
    statementErrors

dbVars == <<reading, jobs, incidents, outbox, audited>>
faultVars == <<up, stops, statementErrors>>
vars == <<clock, up, reading, jobs, incidents, outbox, audited, delivered,
          task, stops, statementErrors>>

-----------------------------------------------------------------------------
JobStatus == {"absent", "pending", "running", "retry", "succeeded", "dead"}
OutboxStatus == {"absent", "pending", "sending", "retry", "delivered", "dead"}

(* Where a worker's processOne is:                                         *)
(*   claimAlert  - about to call ClaimAlertJob                             *)
(*   process     - holds a job, about to run ProcessAlert                  *)
(*   finish      - ProcessAlert returned, about to call FinishAlertJob     *)
(*   claimOutbox - no job was claimable, about to call ClaimOutboxEvent    *)
(*   deliver     - holds an event, about to call Deliver                   *)
(*   settle      - Deliver returned, about to call Complete/FailOutboxEvent*)
Phase == {"claimAlert", "process", "finish", "claimOutbox", "deliver", "settle"}

\* `item', `gen' and `attempts' are the worker's copy of the claimed row;
\* `failed' is the error the effect returned; `since' is when the phase began.
Task == [phase : Phase, item : Readings \cup {None}, gen : Nat,
         attempts : Nat, failed : BOOLEAN, since : Nat]

IdleTask(now) ==
    [phase |-> "claimAlert", item |-> None, gen |-> 0, attempts |-> 0,
     failed |-> FALSE, since |-> now]

At(w, phase) == up /\ task[w].phase = phase

\* The instants the caller may have read as `now' for its next statement.
Captured(w) == task[w].since .. clock

\* The effect returned: the worker goes on with its outcome.
Proceed(w, phase, failed) ==
    task' = [task EXCEPT ![w] =
        [task[w] EXCEPT !.phase = phase, !.failed = failed, !.since = clock]]

Return(w) == task' = [task EXCEPT ![w] = IdleTask(clock)]

Hold(w, r, phase, row) ==
    task' = [task EXCEPT ![w] =
        [phase |-> phase, item |-> r, gen |-> row.gen + 1,
         attempts |-> row.attempts, failed |-> FALSE, since |-> clock]]

Init ==
    /\ clock = 0
    /\ up = TRUE
    /\ reading = [r \in Readings |-> "absent"]
    /\ jobs = [r \in Readings |-> AbsentRow]
    /\ incidents = [r \in Readings |-> 0]
    /\ outbox = [r \in Readings |-> AbsentRow]
    /\ audited = {}
    /\ delivered = [r \in Readings |-> 0]
    /\ task = [w \in Workers |-> IdleTask(0)]
    /\ stops = 0
    /\ statementErrors = 0

-----------------------------------------------------------------------------
(* telemetry.Service.Ingest.  A repeated external id inserts nothing and   *)
(* returns created = false, so only the first report is a step.            *)
Ingest(r, exceeds) ==
    /\ up
    /\ reading[r] = "absent"
    /\ reading' = [reading EXCEPT ![r] = IF exceeds THEN "exceeding" ELSE "normal"]
    /\ jobs' = IF exceeds THEN [jobs EXCEPT ![r] = NewRow(clock)] ELSE jobs
    /\ audited' = audited \cup {<<"telemetry.ingest", r>>}
    /\ UNCHANGED <<clock, incidents, outbox, delivered, task, faultVars>>

-----------------------------------------------------------------------------
(* ClaimAlertJob commits: the row is running under a new generation.       *)
ClaimAlertJob(w) ==
    /\ At(w, "claimAlert")
    /\ \E now \in Captured(w) : \E r \in FirstClaimable(jobs, now) :
          /\ jobs' = [jobs EXCEPT ![r] = ClaimRow(jobs[r], "running", w, now)]
          /\ Hold(w, r, "process", jobs[r])
    /\ UNCHANGED <<clock, reading, incidents, outbox, audited, delivered, faultVars>>

\* Mutant of NoAlertJob: the iteration ends without looking at the outbox.
NoAlertJobReturns(w) ==
    /\ At(w, "claimAlert")
    /\ \E now \in Captured(w) : \A r \in Readings : ~Claimable(jobs[r], now)
    /\ Return(w)
    /\ UNCHANGED <<clock, dbVars, delivered, faultVars>>

(* ClaimAlertJob returns ErrNotFound: this iteration tries the outbox.     *)
NoAlertJob(w) ==
    /\ At(w, "claimAlert")
    /\ \E now \in Captured(w) : \A r \in Readings : ~Claimable(jobs[r], now)
    /\ Proceed(w, "claimOutbox", FALSE)
    /\ UNCHANGED <<clock, dbVars, delivered, faultVars>>

(* ProcessAlert commits.  The outbox key is unique, so the transaction     *)
(* commits only if no earlier one inserted the event of this reading.      *)
ProcessAlert(w) ==
    LET r == task[w].item IN
    /\ At(w, "process")
    /\ IF reading[r] = "exceeding"
       THEN /\ outbox[r].status = "absent"
            /\ incidents' = [incidents EXCEPT ![r] = incidents[r] + 1]
            /\ \E now \in Captured(w) :
                  outbox' = [outbox EXCEPT ![r] = NewRow(now)]
            /\ audited' = audited \cup {<<"telemetry.alert.evaluate", r>>}
       ELSE UNCHANGED <<incidents, outbox, audited>>
    /\ Proceed(w, "finish", FALSE)
    /\ UNCHANGED <<clock, reading, jobs, delivered, faultVars>>

\* Mutant of ProcessAlertFails: the incident was committed on its own.
ProcessAlertFailsHalfway(w) ==
    /\ At(w, "process")
    /\ incidents' = [incidents EXCEPT ![task[w].item] = @ + 1]
    /\ Proceed(w, "finish", TRUE)
    /\ UNCHANGED <<clock, reading, jobs, outbox, audited, delivered, faultVars>>

(* ProcessAlert returns an error: its transaction is rolled back.          *)
ProcessAlertFails(w) ==
    /\ At(w, "process")
    /\ Proceed(w, "finish", TRUE)
    /\ UNCHANGED <<clock, dbVars, delivered, faultVars>>

(* A statement has no effect: its WHERE clause refused the row (LeaseError)*)
(* or SQLite returned an error, which is a bounded fault.                  *)
StatementFails(refused) ==
    /\ refused \/ statementErrors < MaxStatementErrors
    /\ statementErrors' = IF refused THEN statementErrors ELSE statementErrors + 1

\* Mutants of FinishedJob: the processing error is dropped; a status the
\* table does not know.
FinishedJobDropsError(row, t, now) == SettleRow(row, "succeeded", t.attempts, now)

FinishedJobUnknownStatus(row, t, now) ==
    SettleRow(row, IF t.failed THEN "failed" ELSE "succeeded", t.attempts, now)

(* The row FinishAlertJob writes, from the worker's copy of the job and    *)
(* the error ProcessAlert returned.                                        *)
FinishedJob(row, t, now) ==
    IF t.failed THEN FailRow(row, t.attempts + 1, now)
                ELSE SettleRow(row, "succeeded", t.attempts, now)

(* FinishAlertJob changes the row it is fenced on.                         *)
FinishAlertJob(w) ==
    LET r == task[w].item IN
    /\ At(w, "finish")
    /\ Fenced(jobs[r], "running", w, task[w].gen)
    /\ \E now \in Captured(w) :
          jobs' = [jobs EXCEPT ![r] = FinishedJob(jobs[r], task[w], now)]
    /\ Return(w)
    /\ UNCHANGED <<clock, reading, incidents, outbox, audited, delivered, faultVars>>

(* FinishAlertJob fails: SQLite returned an error (busy, I/O) or no row    *)
(* passed the fence (LeaseError).  Either way the row stays as it is and   *)
(* the iteration ends; nothing retries the settlement.                     *)
FinishAlertJobFails(w) ==
    /\ At(w, "finish")
    /\ StatementFails(~Fenced(jobs[task[w].item], "running", w, task[w].gen))
    /\ Return(w)
    /\ UNCHANGED <<clock, up, stops, dbVars, delivered>>

-----------------------------------------------------------------------------
(* ClaimOutboxEvent commits: the event is sending under a new generation.  *)
ClaimOutboxEvent(w) ==
    /\ At(w, "claimOutbox")
    /\ \E now \in Captured(w) : \E r \in FirstClaimable(outbox, now) :
          /\ outbox' = [outbox EXCEPT ![r] = ClaimRow(outbox[r], "sending", w, now)]
          /\ Hold(w, r, "deliver", outbox[r])
    /\ UNCHANGED <<clock, reading, jobs, incidents, audited, delivered, faultVars>>

(* Nothing to send: the iteration ends and the loop waits for its ticker.  *)
NoOutboxEvent(w) ==
    /\ At(w, "claimOutbox")
    /\ \E now \in Captured(w) : \A r \in Readings : ~Claimable(outbox[r], now)
    /\ Return(w)
    /\ UNCHANGED <<clock, dbVars, delivered, faultVars>>

(* ClaimOutboxEvent fails with an error: the iteration ends as well.  (A   *)
(* failed ClaimAlertJob leaves the worker where it is: no step.)           *)
ClaimOutboxEventFails(w) ==
    /\ At(w, "claimOutbox")
    /\ StatementFails(FALSE)
    /\ Return(w)
    /\ UNCHANGED <<clock, up, stops, dbVars, delivered>>

(* Notifier.Deliver returns nil: the event is out.                         *)
Deliver(w) ==
    /\ At(w, "deliver")
    /\ delivered' = [delivered EXCEPT ![task[w].item] = @ + 1]
    /\ Proceed(w, "settle", FALSE)
    /\ UNCHANGED <<clock, dbVars, faultVars>>

(* Notifier.Deliver returns an error and delivers nothing.                 *)
DeliverFails(w) ==
    /\ At(w, "deliver")
    /\ Proceed(w, "settle", TRUE)
    /\ UNCHANGED <<clock, dbVars, delivered, faultVars>>

(* CompleteOutboxEvent accepts only a lease that has not expired at the    *)
(* caller's `now'.                                                         *)
Acknowledgeable(row, w, gen, now) ==
    Fenced(row, "sending", w, gen) /\ row.expires > now

CompleteOutboxEvent(w) ==
    LET r == task[w].item IN
    /\ At(w, "settle")
    /\ ~task[w].failed
    /\ \E now \in Captured(w) : Acknowledgeable(outbox[r], w, task[w].gen, now)
    /\ outbox' = [outbox EXCEPT ![r] =
                     SettleRow(outbox[r], "delivered", outbox[r].attempts,
                               outbox[r].available)]
    /\ Return(w)
    /\ UNCHANGED <<clock, reading, jobs, incidents, audited, delivered, faultVars>>

(* FailOutboxEvent changes the row it is fenced on; it does not look at    *)
(* the expiry.                                                             *)
FailOutboxEvent(w) ==
    LET r == task[w].item IN
    /\ At(w, "settle")
    /\ task[w].failed
    /\ Fenced(outbox[r], "sending", w, task[w].gen)
    /\ \E now \in Captured(w) :
          outbox' = [outbox EXCEPT ![r] =
                        FailRow(outbox[r], task[w].attempts + 1, now)]
    /\ Return(w)
    /\ UNCHANGED <<clock, reading, jobs, incidents, audited, delivered, faultVars>>

(* CompleteOutboxEvent or FailOutboxEvent fails: a SQLite error, a lost    *)
(* fence, or a lease that expired before the acknowledgement.  The row     *)
(* stays as it is.                                                         *)
SettleOutboxFails(w) ==
    LET row == outbox[task[w].item] IN
    /\ At(w, "settle")
    /\ StatementFails(
          IF task[w].failed
          THEN ~Fenced(row, "sending", w, task[w].gen)
          ELSE \E now \in Captured(w) : ~Acknowledgeable(row, w, task[w].gen, now))
    /\ Return(w)
    /\ UNCHANGED <<clock, up, stops, dbVars, delivered>>

-----------------------------------------------------------------------------
(* SIGTERM cancels the context every claim, processor, delivery and UPDATE *)
(* runs under, and a crash ends them: what is in flight has no effect and  *)
(* the goroutines are gone.                                                *)
Stop ==
    /\ up
    /\ stops < MaxStops
    /\ up' = FALSE
    /\ stops' = stops + 1
    /\ task' = [w \in Workers |-> IdleTask(clock)]
    /\ UNCHANGED <<clock, dbVars, delivered, statementErrors>>

(* A new process on the same database, with the same owner names.          *)
Start ==
    /\ ~up
    /\ up' = TRUE
    /\ task' = [w \in Workers |-> IdleTask(clock)]
    /\ UNCHANGED <<clock, dbVars, delivered, stops, statementErrors>>

\* Some row is waiting for its backoff to run out.
RetryPending ==
    \E r \in Readings : \/ jobs[r].status = "retry" /\ jobs[r].available > clock
                        \/ outbox[r].status = "retry" /\ outbox[r].available > clock

(* MaxTime bounds the time that passes for no reason; while a retry is     *)
(* due later the clock always runs on.                                     *)
Tick ==
    /\ clock < MaxTime \/ RetryPending
    /\ clock' = clock + 1
    /\ UNCHANGED <<up, dbVars, delivered, task, stops, statementErrors>>

AlertStep(w) ==
    \/ ClaimAlertJob(w) \/ NoAlertJob(w)
    \/ ProcessAlert(w) \/ ProcessAlertFails(w)
    \/ FinishAlertJob(w) \/ FinishAlertJobFails(w)

OutboxStep(w) ==
    \/ ClaimOutboxEvent(w) \/ NoOutboxEvent(w) \/ ClaimOutboxEventFails(w)
    \/ Deliver(w) \/ DeliverFails(w)
    \/ CompleteOutboxEvent(w) \/ FailOutboxEvent(w) \/ SettleOutboxFails(w)

processOne(w) == AlertStep(w) \/ OutboxStep(w)

Next ==
    \/ \E r \in Readings, exceeds \in BOOLEAN : Ingest(r, exceeds)
    \/ \E w \in Workers : processOne(w)
    \/ Stop \/ Start \/ Tick

Spec == Init /\ [][Next]_vars

(* Runtime.loop calls processOne again at every tick of its ticker and     *)
(* every call in it returns; the supervisor of the process restarts it;    *)
(* time passes.                                                            *)
Fairness ==
    /\ \A w \in Workers : WF_vars(processOne(w))
    /\ WF_vars(Start)
    /\ WF_vars(Tick)

FairSpec == Spec /\ Fairness

-----------------------------------------------------------------------------
HoldsJob(w) == task[w].phase \in {"process", "finish"}
HoldsEvent(w) == task[w].phase \in {"deliver", "settle"}

TypeOK ==
    /\ clock \in Nat
    /\ up \in BOOLEAN
    /\ reading \in [Readings -> {"absent", "normal", "exceeding"}]
    /\ jobs \in [Readings -> Row(JobStatus)]
    /\ incidents \in [Readings -> Nat]
    /\ outbox \in [Readings -> Row(OutboxStatus)]
    /\ audited \subseteq {"telemetry.ingest", "telemetry.alert.evaluate"} \X Readings
    /\ delivered \in [Readings -> Nat]
    /\ task \in [Workers -> Task]
    /\ stops \in Nat
    /\ statementErrors \in Nat

(* A worker between claim and settlement still owns the row it holds, under*)
(* the generation it claimed and with the attempt count it copied: no other*)
(* worker, and no later incarnation of itself, runs the same job or sends  *)
(* the same event meanwhile.                                               *)
HeldRowsAreFenced ==
    \A w \in Workers :
        /\ HoldsJob(w) =>
              /\ Fenced(jobs[task[w].item], "running", w, task[w].gen)
              /\ jobs[task[w].item].attempts = task[w].attempts
        /\ HoldsEvent(w) =>
              /\ Fenced(outbox[task[w].item], "sending", w, task[w].gen)
              /\ outbox[task[w].item].attempts = task[w].attempts

(* The outcome a worker is about to record is the one that happened: the   *)
(* incident exists exactly when ProcessAlert is remembered to have         *)
(* succeeded, the notifier took the event exactly when Deliver is, and no  *)
(* worker starts either for a reading it has already happened to.          *)
OutcomeIsWhatHappened ==
    \A w \in Workers :
        LET r == task[w].item IN
        /\ task[w].phase = "process" => incidents[r] = 0
        /\ task[w].phase = "finish" => incidents[r] = IF task[w].failed THEN 0 ELSE 1
        /\ task[w].phase = "deliver" => delivered[r] = 0
        /\ task[w].phase = "settle" => delivered[r] = IF task[w].failed THEN 0 ELSE 1

(* ProcessAlert is all or nothing and takes effect once, however often its *)
(* job is claimed: a reading has one incident, its notification and its    *)
(* audit record together, or none of them.                                 *)
OneIncidentPerReading ==
    \A r \in Readings :
        LET event == IF outbox[r].status = "absent" THEN 0 ELSE 1
            record == IF <<"telemetry.alert.evaluate", r>> \in audited THEN 1 ELSE 0
        IN  incidents[r] = event /\ incidents[r] = record

(* What a settled row claims is what happened.  An exceeding reading always*)
(* has its job; a succeeded job has created the incident and a dead one has*)
(* not; a delivered event was taken by the notifier, a dead one never was, *)
(* and none is taken twice.                                                *)
SettledRowsTellTheTruth ==
    \A r \in Readings :
        /\ reading[r] = "exceeding" <=> jobs[r].status # "absent"
        /\ jobs[r].status = "succeeded" => incidents[r] = 1
        /\ incidents[r] > 0 => jobs[r].status \in {"running", "succeeded"}
        /\ outbox[r].status = "delivered" => delivered[r] = 1
        /\ delivered[r] > 0 => outbox[r].status \in {"sending", "delivered"}
        /\ delivered[r] <= 1

\* The row was claimed once per failed attempt, and once more while it is
\* held or after it succeeded.
ClaimsMatchAttempts(row) ==
    LET open == IF row.status \in {"running", "sending", "succeeded", "delivered"}
                THEN 1 ELSE 0
    IN  /\ row.gen = row.attempts + open
        /\ row.attempts <= MaxAttempts
        /\ row.attempts = MaxAttempts <=> row.status = "dead"

(* No claim goes unaccounted for: the generation of every job and event is *)
(* its failed attempts plus the one in progress, so no row is ever tried   *)
(* more than max_attempts times and none is given up before.               *)
EveryClaimIsAnAttempt ==
    \A r \in Readings : ClaimsMatchAttempts(jobs[r]) /\ ClaimsMatchAttempts(outbox[r])

(* A claimed row changes only in the step in which the worker holding that *)
(* very claim settles it; a settled row never changes again.               *)
SettledByHolder ==
    [][\A r \in Readings :
        /\ jobs'[r] # jobs[r] /\ jobs[r].status \notin {"absent"} \cup Waiting
              => \E w \in Workers : /\ At(w, "finish") /\ task[w].item = r
                                    /\ Fenced(jobs[r], "running", w, task[w].gen)
                                    /\ task'[w].phase = "claimAlert"
        /\ outbox'[r] # outbox[r] /\ outbox[r].status \notin {"absent"} \cup Waiting
              => \E w \in Workers : /\ At(w, "settle") /\ task[w].item = r
                                    /\ Fenced(outbox[r], "sending", w, task[w].gen)
                                    /\ task'[w].phase = "claimAlert"]_vars

-----------------------------------------------------------------------------
(* What the pipeline promises about each reading.                          *)
Stage(r) ==
    CASE reading[r] = "absent" -> "none"
      [] reading[r] = "normal" -> "ignored"
      [] reading[r] = "exceeding" /\ incidents[r] = 0 ->
            IF jobs[r].status = "dead" THEN "abandoned" ELSE "owed"
      [] OTHER ->
            IF outbox[r].status = "delivered" THEN "notified"
            ELSE IF outbox[r].status = "dead" THEN "undelivered" ELSE "reported"

stageOf == [r \in Readings |-> Stage(r)]

Promise == INSTANCE AlertPromise WITH stage <- stageOf

(* The pipeline implements the promise: every reading goes through its     *)
(* stages in order, whatever is interleaved, stopped or failed.            *)
ImplementsPromise == Promise!Spec

(* Without stops, failed settlements and deliveries slower than the lease, *)
(* every owed incident is created or given up and every notification is    *)
(* delivered or given up.                                                  *)
ImplementsFairPromise == Promise!FairSpec

(* README: failures lead "eventually [to] a permanent dead state" and      *)
(* delivery is "reliable": an exceeding reading gets its incident, or its  *)
(* job dies.                                                               *)
EveryAlertSettles ==
    \A r \in Readings :
        reading[r] = "exceeding" ~> (incidents[r] > 0 \/ jobs[r].status = "dead")
=============================================================================
