# Waterpro in TLA+

Waterpro is a Go service on one SQLite database that runs the protection of
drinking-water sources: sampling and laboratory review, discharge permits,
pollution incidents with their command and remediation, telemetry with
background alerting. The modules here are translated from `src/internal`, one
operator per operation; TLC checks them on small instances, and TLAPS proves the
safety of every component, and two refinements, for every instance.

## The system

| Component | State it keeps | Operations | Hard behaviour |
|---|---|---|---|
| Telemetry (`telemetry`, `repository/sqlite/telemetry.go`) | `telemetry_readings`, `alert_jobs` | Ingest, ClaimAlertJob, ProcessAlert, FinishAlertJob | repeated readings; claim, effect and settlement are three commits |
| Outbox (`repository/sqlite/events.go`) | `outbox_events` | insert by producers, Claim, Complete, Fail | acknowledgement after the lease, stops between commits |
| Worker runtime (`worker`) | one goroutine per worker, its copy of a claimed row | Run, loop, processOne | concurrent workers, cancellation, restart under the same owner names |
| Incident command (`incident`) | `incidents`, `containment_assignments` | Report, Claim, Advance, AssignContainment | leases read before the transaction, takeover, text comparison of times |
| Remediation (`remediation`) | `remediation_plans`, `remediation_actions` | CreatePlan, Approve, CompleteAction | repeated and late completions, resolution at the same time |
| Sampling (`sampling`) | `sampling_plans`, `sample_sequences`, `samples`, `custody_events` | CreatePlan, PublishPlan, Collect, Handoff, CustodyHistory | numbering, custody chain, capacity of a station |
| Laboratory (`laboratory`) | `lab_results` | RecordResult, Submit, Review | one transaction over result, sample, incident and outbox |
| Permits (`permit`) | `permits`, `discharge_events` | Create, Activate, Suspend, ReportDischarge | daily sum, idempotency, integer width, time text |
| Authentication (`auth`, `middleware`) | `users`, `sessions`, the actor in a request's context | Login, Authenticate, RequireAuth, Logout, SetUserActive, DeleteExpiredSessions | checks before the transaction, generations, stale actors |
| Source registry (`source`) | sources, zones, stations | Register..., List... | pagination while rows are inserted |
| Audit (`audit`) | `audit_events` | Insert, queries | written in the operation's transaction |
| Store (`repository/sqlite/store.go`) | the database, `schema_migrations` | Open, Migrate, WithTx | deferred transactions, concurrent start-up |
| Process (`cmd/server`, `platform`, `config`) | server, workers, store handle | run, Bootstrap | order of shutdown, repeated bootstrap |
| HTTP (`httpapi`) | none | routes to the services | none |

They interact through the database only. Ingest inserts a job that a worker
turns into an incident and an outbox event; Review and Report insert incidents
and outbox events; Suspend inserts an outbox event; workers deliver them.
Activate reads the incidents that laboratory reviews opened. Every operation is
one transaction of `WithTx`, or one statement; SQLite in WAL mode admits one
writer, and a transaction whose snapshot is stale cannot write. This is why a
transaction is one action in every module. What is *not* atomic, the clock read
before a transaction and the commits of a worker's iteration, is kept apart.

What makes each part correct: a claimed row has one holder and its outcome is
recorded truthfully; effects happen once; leases protect a commander and bar
the former one; a resolved incident has no work left; numbering has no holes;
custody is a chain; an exceedance always becomes an incident, and no permit of
its source comes into force before it is remedied; the volume of a day stays
within the limit; a suspension is always announced; a token once retired never
lets anyone in again, and guesses at a password are bounded; a listing walked
page by page misses nothing; a process serves only a database that is ready, and
stops when it is told to.

## Modules

| Module | Models | State and actions against the code |
|---|---|---|
| `LeaseRow` | the lease and retry columns shared by `alert_jobs` and `outbox_events` | `Claimable`, `ClaimRow`, `Fenced`, `SettleRow`, `FailRow` are the WHERE and SET clauses. The random token is named by the generation it comes with. |
| `AlertPipeline` | Ingest, the workers, ProcessAlert, delivery, stops and restarts | `task[w]` is the goroutine's position in `processOne` and its copy of the row. One action per statement and outcome, failures included. `Captured(w)` are the values `time.Now()` may have had. |
| `AlertPromise` | what alerting promises, one stage per reading | the abstract specification `AlertPipeline` implements |
| `TimeText` | `formatTime` and SQL's comparison of its text | an instant counts half seconds; an odd one is written with a fraction |
| `IncidentCommand` | incident.Service and remediation.Service | a call is `Begin` (the clock is read) and later its transaction or `Reject` |
| `SampleChain` | sampling.Service and laboratory.Service | a sample is named by the plan it comes from; one action per operation; windows are in half seconds and compared as `TimeText` |
| `PermitDischarge` | permit.Service | one action per operation; `Wrap` is the width of a volume |
| `ExceedanceResponse` | the way from a confirmed exceedance to a permit | `SampleChain` extended, `IncidentCommand` and `PermitDischarge` instantiated on one database: the incidents are those that reviews insert, `OpenExceedances` is the query of Activate over them |
| `AuthSessions` | auth.Service, its repository and `RequireAuth` | `request[c]` is a login between its reading of the row and its transaction, or a request whose actor is in the context; `retired` remembers the tokens that were logged out or revoked |
| `SourceRegistry` | source.Service and the listing of sources | a walk is a client that follows `next_cursor`; registrations come between its pages |
| `Lifecycle` | `run` of `cmd/server`, Open and Migrate, Bootstrap | `proc[p]` is where main is, its server, workers and requests; one action per statement of the start-up and per way out of the `select` |
| `...MC` | model values and small sets for TLC | |
| `...Proofs` | the theorems about the module of the same name, one each for `AlertPipeline`, `IncidentCommand`, `SampleChain`, `PermitDischarge`, `ExceedanceResponse`, `AuthSessions`, `SourceRegistry` and `Lifecycle` | |

Operators whose names start like another's and which are commented as its
mutant are wrong on purpose: each stands for a plausible bug and shows that the
property named with it in `PROJECT.json` would notice.

## Runs

Passing runs:

| Run | Instance | Shows |
|---|---|---|
| `alert_faults` | 2 workers, 1 reading, 3 attempts, a stop, a failed statement, lease of 2 s | `HeldRowsAreFenced`, `OutcomeIsWhatHappened`, `EveryClaimIsAnAttempt`, `SettledByHolder`, `OneIncidentPerReading`, `SettledRowsTellTheTruth` under competition, crash and restart, and the refinement `ImplementsPromise` |
| `alert_live` | 2 workers, 2 readings, no stop and no failed statement, a lease longer than any delivery | `ImplementsFairPromise`: everything is settled in the end |
| `incidents` | 2 supervisors and an operator, 1 incident, a plan of 2 actions, 2 claims, lease of half a second, time to 3 half seconds | `ResolvedActionsSucceeded`, `ApproverOnRecord`; as action properties `WritesByLatestClaimant`, `NoLiveLeaseStolen`, `ExpiredLeaseIsBarred`, `SuccessIsFinal` |
| `sampling_plans` | 3 plans, 2 stations, capacity 2, windows with and without fractions that nest, cross and touch, 2 business days | `CapacityHolds`, `SequencesAreDense` |
| `exceedance_response` | 1 sample, 2 results, an operator, an analyst and a supervisor, an incident per result with a plan of 1 action, a permit with 4 versions | `CustodyUnbroken`, `TestedOnOneReview`, `ExceedancesAnswered` along the sample; `PermitsWaitForRemediation` from the review to the permit |
| `permits` | 3 keys, 3 volumes, 2 days, 4 status changes, an exceedance that comes and goes | `DailyLimitHolds`, `RefusalsAreJust`, `SuspensionsAnnounced` |
| `auth_sessions` | 2 supervisors, 2 clients, 2 tokens, threshold 2, 2 changes of active flags, clean-ups of 1 row | `LiveSessionsAreCurrent`, `GuessesAreBounded`; as action properties `RetiredTokensStayOut`, `CleanupSparesLiveSessions`, `SomeoneInCharge` |
| `source_registry` | 4 sources, pages of 1 and 2, each source switched once | `WalksAreComplete` |
| `lifecycle` | 2 processes, each with up to 2 requests, that fail, are killed and start again without limit | `ReadyBeforeServing`, `DrainedCleanly`, and `StopsEventually` under fairness |

Each also checks the `TypeOK` of its module, `sampling_plans` and `alert_live`
excepted, whose modules have it in another run.

Runs that must find a violation, each a disagreement between the code and the
repository's README:

| Run | What happens |
|---|---|
| `alert_stranded` | a process that stops between claim and settlement leaves the job `running`; the claim statement never selects it again |
| `incident_late_assignment` | a containment assignment is added to a resolved incident |
| `permit_half_second` | discharges in the first second of a day are counted on the day before |

What the models show of the code beyond these runs. The first three come from
which row a check looks at and when, the others from a missing operation, a
comparison or a race:

- `CompleteAction` checks the status of the plan cited, not of the plan the
  action belongs to: an action of a draft plan is completed by citing an approved
  one (`remediation/service.go:160`). `CompleteAction(u, ...)` of
  `IncidentCommand` therefore takes any action with any plan.
- The first approval moves the sample to `tested`, and another submitted result
  of the same sample can then only be rejected (`laboratory/service.go:136`). A
  rejected result never returns to draft: the transition table allows it and no
  operation does it.
- A report of a discharge repeated under its key meets the checks of status and
  capacity first (`permit/service.go:176` and `:184`, the key is looked at in
  `:191`), and the sum already holds its first copy. Where README.md:71 promises
  the event on record, or a conflict for a key used otherwise, the answer is then
  "capacity exceeded": a report of 600 of 1000 litres cannot be repeated.
  `RefusalsAreJust` states exactly when: if the day has no room for it twice.
- `CountOverlappingPlans` compares windows as text
  (`repository/sqlite/sampling.go:79`), so three
  plans that end at 10:00:30.5Z are not counted for a new one that starts at
  10:00:30Z, and four overlap where the limit is three. `CapacityHolds` states what
  is left: no whole second is taken by more plans than the capacity.
- No operation takes a containment assignment out of `pending`, so an incident
  that was given one is never resolved; none sets a permit to `expired`, which
  stays `active` with only the check in ReportDischarge; and an active permit stays
  active when an exceedance is confirmed later.
- `CustodyHistory` is ordered by the times users gave, so a handoff reported with
  an early time is shown before the one it followed.
- `CompleteOutboxEvent` refuses an acknowledgement that comes after the lease, and
  no claim selects the event again, which stays `sending` for ever: a delivered
  notification is never sent twice, at the price of never being settled. The
  actions `Acknowledgeable` and `SettleOutboxFails` have it, and `alert_live` must
  therefore exclude it with a lease longer than any delivery.
- `TransitionIncident` compares the expiry of a lease as text, so an advance is
  admitted up to a second after the lease ran out. `ExpiredLeaseIsBarred` states
  what is left: never beyond the second of the expiry. In the same way a clean-up
  may delete a session within the second before it expires
  (`CleanupSparesLiveSessions`).
- `total + volume` wraps for volumes near the largest integer. `permits` reports
  volumes up to the greatest that does not wrap (`SafeVolumes`), on which the
  limit holds; the next volume would be accepted and break it. A day whose sum on
  record overflows makes `SUM` fail, which is an internal error and no refusal
  (`SumFails`).
- The lock of an account is looked at before the transaction. Attempts in flight
  when it falls are counted too, which `GuessesAreBounded` allows for; a slow
  failure locks from its own earlier clock and so may shorten a lock; a right
  password in flight clears a lock; and a failure that cannot be written is not
  counted.
- A supervisor may not deactivate their own account, yet two who deactivate one
  another at the same time leave nobody in charge: the later request was
  authenticated before its author was deactivated. `SomeoneInCharge` states that
  this is the only way.
- Of two first start-ups at once, the one that looked for the supervisor before
  the other inserted it ends with an error; the next start succeeds.
- When a signal arrives before main is parked in the `select`, the end of the
  workers may be taken instead of `ctx.Done`: `run` returns without Shutdown, and
  requests in flight are cut. On the other path requests are waited for, but the
  workers are not. `DrainedCleanly` is therefore about the processes that went
  through Shutdown.

### Bounds

`MaxTime` bounds idle time only in `AlertPipeline`: while a retry is due the
clock runs on, so backoff is always waited out. `MaxAttempts` is 2 or 3 instead
of 5: retry, and retry followed by dead, both occur. `MaxStops` and
`MaxStatementErrors` of one suffice to separate any two statements of an
iteration; two faults in one history are outside the runs and inside the
theorems. Two workers or users are all that contend for one row. `MaxGeneration`
of 2 lets command change hands once, and the former commander's calls arrive
after it. `MaxVersion` bounds completions of an action, or status changes of a
permit. `Capacity` is 3 in the code; 2 with three plans puts one plan more than
fits on a station and leaves room for a second station. A volume has 8 bits;
only the relation of its greatest value to the limit matters. A day has four
half seconds in `PermitDischarge` and in `sampling_plans`, enough for an instant
at the start, inside the first second and after it. `permits` and
`exceedance_response` use times in whole seconds, on which text order is the order
of time; `permit_half_second` adds the others, and `sampling_plans` has windows of
both kinds, some of which share only half a second.

In `exceedance_response` the clock reaches 1 and each incident is claimed once:
what a lease protects is the matter of `incidents`, and here only the order of
review, response and activation counts. Both results of the sample may exceed,
so a permit waits for two incidents, and 4 versions let it be activated,
suspended and activated again. Two clients in `auth_sessions` are a login and a
request, two logins, or two requests at once; 2 changes of active flags are a
deactivation and a reactivation, or two deactivations; a threshold of 2 is passed
by the attempts already admitted (`MaxFailures` 4 is twice that); session and
lock last one tick, so both run out. A longer clock with longer locks finds
nothing more. `source_registry` has room for a source before, at and after every
cursor, and for a page after the first that is full, partly full and empty.
`lifecycle` needs no bound but that on requests.

Deadlock checking is off where the bounds, or the protocol, let a history end:
in `SampleChain` when every plan is collected and handed on, in
`ExceedanceResponse` when every sample has been reviewed, in
`AuthSessions` when tokens and changes are used up, in `SourceRegistry` when all
is registered and listed.

### Fairness

`Runtime.loop` calls `processOne` at every tick of a ticker and every call in
it returns, so each worker is weakly fair on its own; time passes (`WF(Tick)`);
a stopped process is started again (`WF(Start)`), which is what its supervisor
does. No fairness is asked of stations, users, failures or successes.
`ImplementsFairPromise` therefore holds because failed attempts run out, not
because attempts succeed.

## Proofs

Every safety property that a passing run checks is a theorem, for any sets of
users, rows, workers, clients or processes and any bounds, two of them under
hypotheses that the run satisfies and the code does not enforce (see below):

| Module | Theorems and the properties they state |
|---|---|
| `AlertPipelineProofs` | `TypeCorrect` (`TypeOK`), `ClaimsAreExclusive` (`HeldRowsAreFenced`), `OutcomesAreTrue` (`OutcomeIsWhatHappened`), `AlertsAreAtomic` (`OneIncidentPerReading`), `SettlementsAreTrue` (`SettledRowsTellTheTruth`), `AttemptsAreAccounted` (`EveryClaimIsAnAttempt`), `ClaimsAreSettledByTheirHolder` (`SettledByHolder`), `ImplementsThePromise` (`ImplementsPromise`) |
| `IncidentCommandProofs` | `TypeCorrect` (`TypeOK`), `ResolutionIsFinal` (`ResolvedActionsSucceeded`), `ApproverIsKept` (`ApproverOnRecord`), `CommandIsFenced` (`WritesByLatestClaimant`), `LeasesAreRespected` (`NoLiveLeaseStolen`), `AdvancesNeedALease` (`ExpiredLeaseIsBarred`), `SuccessesStand` (`SuccessIsFinal`) |
| `SampleChainProofs` | `TypeCorrect` (`TypeOK`), `CapacityIsKept` (`CapacityHolds`), `NumberingIsDense` (`SequencesAreDense`), `CustodyIsAChain` (`CustodyUnbroken`), `TestsAreReviewed` (`TestedOnOneReview`), `ExceedancesAreAnswered` (`ExceedancesAnswered`) |
| `PermitDischargeProofs` | `TypeCorrect` (`TypeOK`), `EverySuspensionIsAnnounced` (`SuspensionsAnnounced`), `DailyLimitIsKept` (`DailyLimitHolds`, for whole seconds and sums that fit), `NoRefusalIsUnjust` (`RefusalsAreJust`, for whole seconds) |
| `ExceedanceResponseProofs` | `PermitsAwaitRemedy` (`PermitsWaitForRemediation`), `PermitsAreControlled` (the composition implements `PermitDischarge`) |
| `AuthSessionsProofs` | `TypeCorrect` (`TypeOK`), `SessionsFollowTheUser` (`LiveSessionsAreCurrent`), `GuessingIsBounded` (`GuessesAreBounded`), `RetiredTokensAreUseless` (`RetiredTokensStayOut`), `CleanupIsSafe` (`CleanupSparesLiveSessions`), `SupervisionLasts` (`SomeoneInCharge`) |
| `SourceRegistryProofs` | `TypeCorrect` (`TypeOK`), `ListingIsComplete` (`WalksAreComplete`) |
| `LifecycleProofs` | `TypeCorrect` (`TypeOK`), `ServingIsReady` (`ReadyBeforeServing`), `DrainingIsClean` (`DrainedCleanly`) |

Each module has a theorem `Invariance` (`ResponseInvariance` for the composition)
that its inductive invariant holds always; the others follow from it. There is
one lemma per action, with a step per conjunct that the action can disturb, over
lemmas about the rows that its statements write. The inductive invariants were
model-checked before they were proved.

### Assumptions

The assumptions on constants are the named `ASSUME`s of the modules. They say that
numbers are numbers, that `None` is no number, user or row (`NoRowIsNone`: SQL's
"no rows" is not a row), and that tables which the code counts or lists are
finite. Three theorems have hypotheses of their own:

- `DailyLimitIsKept` asks for times without a fraction of a second
  (`WholeSecondsOnly`) and for volumes that fit an integer on top of a full day
  (`SumsFit`). Without the first the limit may be exceeded, as
  `permit_half_second` shows; without the second `total + volume` wraps. The run
  `permits` is an instance of both.
- `NoRefusalIsUnjust` asks for `WholeSecondsOnly`: otherwise a report may be refused
  for what was discharged on another day. It needs nothing of volumes, as a sum
  that wraps is negative and never refused.
- `PermitsAreControlled` asks for finitely many results, as it counts incidents.

### The inductive arguments

`AlertPipeline`. None of the parts of `IInv` is inductive alone. That a worker's
effect happens once needs that the row it holds is held by nobody else
(`HeldRowsAreFenced`); that needs that only rows without a holder are claimable;
that a settlement writes the truth needs what the worker remembers to agree with
what happened (`OutcomeIsWhatHappened`), which for the phase `process` needs that
no incident exists for a job still to be processed, and so on round. `IInv` adds
only `HoldersHaveItems`, that a worker past its claim has a row in hand. The
refinement has one lemma `...KeepsPromise` per action, which says at which
reading's stage the action moves, if it moves any.

`IncidentCommand`. The properties about leases compare an instant with the
clock, while the code compares it with a clock reading made earlier:
`CallsBeganBefore` (no reading is from the future) ties them, and
`CommandIsOnRecord` ties the commander, token and generation of a row to what the
claims returned. `ResolvedActionsSucceeded` holds because actions come only with
a plan, at a time the incident is not resolved (`ActionsHaveAPlan`).

`SampleChain`. `NumberedDensely` says of the samples taken at a station on a day
what `SequencesAreDense` says of their labels; a sample more takes the next number,
and adds one to a count that is a number because only finitely many plans exist
(`PlansAreFinite`), each with at most one sample (`RowsBelongTogether`).
`CustodyFollowsStatus` gives the length of the chain by the status of the sample,
from which a handoff knows its link. `CapacityHolds` needs no
more than types and finitely many plans: of two plans that both take a second, each begins no later than that second
and ends after it, so their texts differ before the fraction and the query counts
them (`PlannedOverlap`); its count bounds the plans of each second of the new
window, and no other operation adds a planned sampling.

`PermitDischarge`. The version of a permit tells its status (`VersionsTellStatus`:
1 a draft, even in force, odd suspended), so keys of suspensions never repeat. For
the limit, `VolumeOf` is a fold, about which the prover has no induction: the facts
needed of it (it is a number, does not depend on other rows, and loses exactly the
volume of an element that is left out) are proved by taking a smallest finite set
of keys that is a counterexample, which exists as strict inclusion of finite sets
is well-founded. The rest is arithmetic: in whole seconds the text order is the
order of time, and the bounds of a day as text select the reports whose own
`dayStart` it is. So the query's answer is the volume of the day (`QueryIsDay`), from
which both sides of the limit follow: what is admitted fits, and what is refused does
not.

`ExceedanceResponse`. Its invariant extends that of `SampleChain`:
`IncidentsHaveRows` (a review's incidents are the rows that are not absent) and
`ResolvedIsRemedied`. With `ExceedancesAnswered` every confirmed exceedance has a
row, and Activate's count of zero leaves it resolved. `PermitsAreControlled` closes
the gap between the models: `PermitDischarge` has a mere count go up and down where
the program has reviews, commanders and remediation. The theorem says that what
they do to the query's answer is one more, one less or nothing, so what holds for
any such count holds for theirs.

`AuthSessions`. `RowsAreIssued` and `RetiredRowsAreDead` say that a retired token's
row is revoked or gone and is not issued again. `GuessesAreAccounted` is what makes
the bound inductive: the failures on record and the attempts still in flight
together stay within it, as only attempts that read the row before the lock are still
to be counted; no lock falls away earlier than a lock's length after the first
attempts (`LocksLast`).

`SourceRegistry`. The rows of a page are the first ones of `ORDER BY id`, which the
model defines by rank: the n-th row is the one with n rows up to it.
`InOrderProperties` proves that ranks are a bijection onto the positions and grow
with the ids. `ListedUpToCursor` then says that nothing is listed beyond the cursor, so a
page only appends greater ids, and `DueStillMatches` that what is due still matches
the query, so the next page finds it.

`Lifecycle`. `Sound` says of each stage of a process what it may rely on
(`StagesAreEarned`: from which stage on the migration is applied and the organization
and the supervisor exist), that the migration is applied only under the lock under
which the ledger was read (`MigrationIsExclusive`), and that a draining process has
no listener and a drained one no request (`DrainsAreFinal`). What one process relies
on no other undoes.

### What stays with TLC

Liveness under fairness (`ImplementsFairPromise`, `StopsEventually`), which the
prover cannot state steps of; and the three runs that find a violation, which are
counterexamples and not theorems.

## Abstractions, and what is not modelled

- Text, severities, payloads, coordinates and request ids carry no decision that
  a property tells apart and are left out. Requests that are refused for what
  they contain change nothing.
- An operation's transaction is one action: that its statements take effect
  together or not at all is what `WithTx` promises and not something these models
  test. The faults of `AlertPipeline` and the kills of `Lifecycle` fall between
  transactions, or roll one back.
- In `AlertPipeline` a failing claim of a job is no step, as nothing changes.
  Whether processing or delivery fails is a choice made anew each time.
- In `SampleChain` users are active and stations and sources are too; a
  business day is a fixed number of seconds, without changes of a zone's
  offset; the times of custody events are left out.
- In `PermitDischarge` the exceedances of a source are a count that reviews
  increase and resolutions decrease. Create does not look at the source's active
  flag, which the code requires: the model may create a permit where the code would
  refuse, and no property depends on it. A report may carry any instant, also of
  the future, as in the code.
- In `ExceedanceResponse` incidents reported by hand are left out, as permits do
  not count them, and so are discharges, which change no permit. An incident is
  named by its originating result.
- In `AuthSessions` a password is right or wrong, and the upgrade of its hash,
  which the same transaction writes, is left out; a token is known to those it
  was issued to. CreateUser only adds users.
- Ids are random; in `SourceRegistry` they are numbers in any order of
  registration. Names, positions and types of sources, zones and stations are
  left out, and UpdateSourceActive, which the store offers and no service calls,
  is included because the listing must bear it. Zones and stations are there for
  the order in which registrations are possible; the listing does not depend on them.
- In `Lifecycle` the credentials of the bootstrap are configured, and alike for
  every process; without them it does nothing. There is one migration, as in the
  repository.

Not modelled: the HTTP layer, which has no state and whose routes make one
service call each; the queries of the audit trail and its DeleteBefore, which
are single statements (DeleteBefore has no caller); SQLite itself, beyond what
`WithTx` promises: that a transaction whose snapshot is stale fails and changes
nothing is one of the failures every action may have; error values, which are
the actions that change nothing; and `BatchActionResult`, a type that no
operation uses.

## Plan

What could be added:

1. The composition implements `IncidentCommand` as well, once `Report` there is
   split from who calls it: an incident of a review has no call and no audit record
   of the command behind it.
2. The audit trail of `SampleChain`, `PermitDischarge` and `AuthSessions`, one
   record per operation in the same transaction, as in `IncidentCommand`.
3. Delivery of the notifications of reviews, reports and suspensions by the outbox
   workers of `AlertPipeline`, which now delivers those of alerts.
