----------------------------- MODULE Lifecycle ------------------------------
(***************************************************************************)
(* Processes of the server on one database file: opening and migrating it, *)
(* bootstrapping the first supervisor, serving, and stopping on a signal   *)
(* (cmd/server run, Store.Open and Migrate, platform.Bootstrap, and        *)
(* worker.Run as far as it ends).  The bootstrap credentials are           *)
(* configured alike for every process.                                     *)
(***************************************************************************)
EXTENDS Naturals

CONSTANTS
    Processes,
    None,          \* nobody
    MaxRequests    \* bound on requests in flight in a process

ASSUME LifecycleAssumption ==
    /\ None \notin Processes
    /\ MaxRequests \in Nat

VARIABLES
    proc,          \* per process: where main is, and its server and workers
    writer,        \* the process holding the database's write lock, or None
    applied,       \* how often the migration was applied
    organization, supervisor   \* whether these rows exist

vars == <<proc, writer, applied, organization, supervisor>>

-----------------------------------------------------------------------------
\* Where main is: "select" is parked in the select of run, "launched" is on
\* the way to it with server and workers started.
StartUp == {"migrate", "ledger", "commit", "organization", "lookup", "create"}
Serving == {"launched", "select"}
Stage == {"down", "draining", "closing"} \cup StartUp \cup Serving

\* How run ended, or is about to.
Outcome == {"none", "start", "drained", "timeout", "workers", "serve", "killed"}

Process == [stage : Stage, pending : BOOLEAN, signalled : BOOLEAN,
            server : {"off", "listening", "failed", "closed"},
            workers : {"off", "running", "returned"},
            inflight : 0..MaxRequests, outcome : Outcome, cut : BOOLEAN]

Down == [stage |-> "down", pending |-> FALSE, signalled |-> FALSE, server |-> "off",
         workers |-> "off", inflight |-> 0, outcome |-> "none", cut |-> FALSE]

Init ==
    /\ proc = [p \in Processes |-> Down]
    /\ writer = None
    /\ applied = 0
    /\ organization = FALSE
    /\ supervisor = FALSE

dbVars == <<writer, applied, organization, supervisor>>

\* Process p is at a stage, and this step moves it on to another.
At(p, stage) == proc[p].stage = stage
Goto(p, stage) == proc' = [proc EXCEPT ![p].stage = stage]

Start(p) ==
    /\ At(p, "down")
    /\ proc' = [proc EXCEPT ![p] = [Down EXCEPT !.stage = "migrate"]]
    /\ UNCHANGED dbVars

(* SIGINT or SIGTERM cancels the context of run.                           *)
Signal(p) ==
    /\ ~At(p, "down") /\ ~proc[p].signalled
    /\ proc' = [proc EXCEPT ![p].signalled = TRUE]
    /\ UNCHANGED dbVars

Release(p) == writer' = IF writer = p THEN None ELSE writer

Killed(p) ==
    /\ ~At(p, "down")
    /\ proc' = [proc EXCEPT ![p] = [Down EXCEPT !.outcome = "killed",
                                                !.cut = proc[p].inflight > 0]]
    /\ Release(p)
    /\ UNCHANGED <<applied, organization, supervisor>>

-----------------------------------------------------------------------------
(* A statement of the start-up runs only under a live context.             *)
StartsWith(p, stage) == At(p, stage) /\ ~proc[p].signalled

(* A cancelled context, a lock busy for too long, a supervisor inserted by *)
(* another process since the look-up, or any other error ends run; an open *)
(* transaction is rolled back.                                             *)
FailStart(p) ==
    /\ proc[p].stage \in StartUp
    /\ proc' = [proc EXCEPT ![p] = [Down EXCEPT !.outcome = "start"]]
    /\ Release(p)
    /\ UNCHANGED <<applied, organization, supervisor>>

\* Mutant of BeginImmediate: a plain BEGIN, which waits for nobody.
BeginDeferred(p) ==
    /\ StartsWith(p, "migrate")
    /\ Goto(p, "ledger")
    /\ UNCHANGED dbVars

(* BEGIN IMMEDIATE waits for the writer.                                   *)
BeginImmediate(p) ==
    /\ StartsWith(p, "migrate")
    /\ writer = None
    /\ writer' = p
    /\ Goto(p, "ledger")
    /\ UNCHANGED <<applied, organization, supervisor>>

(* The ledger schema_migrations says whether the one migration is applied. *)
CheckLedger(p) ==
    /\ StartsWith(p, "ledger")
    /\ proc' = [proc EXCEPT ![p].stage = "commit", ![p].pending = applied = 0]
    /\ UNCHANGED dbVars

CommitMigrations(p) ==
    /\ StartsWith(p, "commit")
    /\ applied' = applied + (IF proc[p].pending THEN 1 ELSE 0)
    /\ Release(p)
    /\ Goto(p, "organization")
    /\ UNCHANGED <<organization, supervisor>>

\* Mutant of AfterOrganization: an organization that exists counts as
\* bootstrapped.
AfterExistingOrganization == IF organization THEN "launched" ELSE "lookup"

AfterOrganization == "lookup"

(* Bootstrap inserts the organization; a unique constraint is no error.    *)
CreateOrganization(p) ==
    /\ StartsWith(p, "organization")
    /\ writer = None
    /\ organization' = TRUE
    /\ Goto(p, AfterOrganization)
    /\ UNCHANGED <<writer, applied, supervisor>>

(* Bootstrap looks the supervisor up, and if there is none hashes the      *)
(* password before it inserts one.                                         *)
LookUpSupervisor(p) ==
    /\ StartsWith(p, "lookup")
    /\ Goto(p, IF supervisor THEN "launched" ELSE "create")
    /\ UNCHANGED dbVars

CreateSupervisor(p) ==
    /\ StartsWith(p, "create")
    /\ writer = None
    /\ ~supervisor
    /\ supervisor' = TRUE
    /\ Goto(p, "launched")
    /\ UNCHANGED <<writer, applied, organization>>

-----------------------------------------------------------------------------
(* The goroutine of the workers, which return when the context is done.    *)
LaunchWorkers(p) ==
    /\ At(p, "launched") /\ proc[p].workers = "off"
    /\ proc' = [proc EXCEPT ![p].workers = "running"]
    /\ UNCHANGED dbVars

WorkersReturn(p) ==
    /\ proc[p].workers = "running" /\ proc[p].signalled
    /\ proc' = [proc EXCEPT ![p].workers = "returned"]
    /\ UNCHANGED dbVars

(* The goroutine of the server.  ListenAndServe fails, at once or later,   *)
(* for want of the address or of connections.                              *)
LaunchServer(p) ==
    /\ proc[p].stage \in Serving /\ proc[p].server = "off"
    /\ proc[p].workers # "off"
    /\ proc' = [proc EXCEPT ![p].server = "listening"]
    /\ UNCHANGED dbVars

ServeFails(p) ==
    /\ proc[p].stage \in Serving /\ proc[p].workers # "off"
    /\ proc[p].server \in {"off", "listening"}
    /\ proc' = [proc EXCEPT ![p].server = "failed"]
    /\ UNCHANGED dbVars

\* Mutant of Accepting: the listener stays open until the process ends.
AcceptingToTheEnd(p) == proc[p].server \in {"listening", "closed"}

Accepting(p) == proc[p].server = "listening"

Accept(p) ==
    /\ Accepting(p)
    /\ proc[p].inflight < MaxRequests
    /\ proc' = [proc EXCEPT ![p].inflight = @ + 1]
    /\ UNCHANGED dbVars

Respond(p) ==
    /\ proc[p].inflight > 0
    /\ proc' = [proc EXCEPT ![p].inflight = @ - 1]
    /\ UNCHANGED dbVars

-----------------------------------------------------------------------------
(* main reaches the select while no channel is ready, and waits.           *)
Park(p) ==
    /\ At(p, "launched") /\ proc[p].workers # "off"
    /\ ~proc[p].signalled /\ proc[p].server # "failed"
    /\ Goto(p, "select")
    /\ UNCHANGED dbVars

(* ctx.Done: Shutdown closes the listeners.                                *)
ShutDown(p) ==
    /\ proc[p].stage \in Serving /\ proc[p].workers # "off"
    /\ proc[p].signalled
    /\ proc' = [proc EXCEPT ![p].stage = "draining",
                            ![p].server = IF @ = "failed" THEN @ ELSE "closed"]
    /\ UNCHANGED dbVars

\* Mutant of Return: run returns without the deferred Close of the store.
ReturnUnclosed(p, outcome) ==
    proc' = [proc EXCEPT ![p].stage = "returned", ![p].outcome = outcome]

Return(p, outcome) ==
    proc' = [proc EXCEPT ![p].stage = "closing", ![p].outcome = outcome]

(* Shutdown finds no request in flight.                                    *)
Drained(p) ==
    /\ At(p, "draining")
    /\ proc[p].inflight = 0
    /\ Return(p, IF proc[p].server = "failed" THEN "serve" ELSE "drained")
    /\ UNCHANGED dbVars

\* Mutant of ShutdownTimesOut: Shutdown is given a context without a deadline.
ShutdownWaits(p) == FALSE /\ UNCHANGED vars

(* The shutdown timeout passes.                                            *)
ShutdownTimesOut(p) ==
    /\ At(p, "draining")
    /\ Return(p, "timeout")
    /\ UNCHANGED dbVars

(* workerError: only if main was not yet parked when the signal came, for  *)
(* a parked one is woken by ctx.Done, which closes first.                  *)
TakeWorkerError(p) ==
    /\ At(p, "launched") /\ proc[p].workers = "returned"
    /\ Return(p, "workers")
    /\ UNCHANGED dbVars

TakeServeError(p) ==
    /\ proc[p].stage \in Serving /\ proc[p].server = "failed"
    /\ Return(p, "serve")
    /\ UNCHANGED dbVars

(* run returns: the store is closed and the process ends with whatever     *)
(* requests and workers it still had.                                      *)
Close(p) ==
    /\ At(p, "closing")
    /\ proc' = [proc EXCEPT ![p] = [Down EXCEPT !.outcome = proc[p].outcome,
                                                !.cut = proc[p].inflight > 0]]
    /\ UNCHANGED dbVars

-----------------------------------------------------------------------------
StartStep(p) ==
    \/ BeginImmediate(p) \/ CheckLedger(p) \/ CommitMigrations(p)
    \/ CreateOrganization(p) \/ LookUpSupervisor(p) \/ CreateSupervisor(p)
    \/ FailStart(p)

MainStep(p) ==
    \/ StartStep(p)
    \/ LaunchWorkers(p) \/ Park(p)
    \/ ShutDown(p) \/ Drained(p) \/ ShutdownTimesOut(p)
    \/ TakeWorkerError(p) \/ TakeServeError(p)
    \/ Close(p)

OtherStep(p) ==
    \/ Start(p) \/ Signal(p) \/ Killed(p)
    \/ LaunchServer(p) \/ ServeFails(p) \/ Accept(p) \/ Respond(p)
    \/ WorkersReturn(p)

Next == \E p \in Processes : MainStep(p) \/ OtherStep(p)

Spec == Init /\ [][Next]_vars

(* The main goroutine runs on, and a timeout passes; of handlers, workers, *)
(* clients and other processes nothing is asked.                           *)
FairSpec == Spec /\ \A p \in Processes : WF_vars(MainStep(p))

-----------------------------------------------------------------------------
TypeOK ==
    /\ proc \in [Processes -> Process]
    /\ writer \in Processes \cup {None}
    /\ applied \in Nat
    /\ organization \in BOOLEAN /\ supervisor \in BOOLEAN

(* README: migration "safely repeats on an existing database", "bootstrap  *)
(* is idempotent".  Whatever processes start at once, fail or are killed   *)
(* half-way: the migration is applied once at most, and a process that     *)
(* serves finds it applied and the organization with its supervisor there. *)
ReadyBeforeServing ==
    /\ applied <= 1
    /\ \A p \in Processes : proc[p].stage \in Serving =>
          applied = 1 /\ organization /\ supervisor

(* README: the process "stops accepting HTTP requests, ... waits for       *)
(* in-flight requests".  A process that went through Shutdown in time      *)
(* leaves no request unanswered when the store is closed.                  *)
DrainedCleanly ==
    \A p \in Processes : proc[p].outcome = "drained" => proc[p].inflight = 0 /\ ~proc[p].cut

(* "within the configured shutdown timeout": a process that is told to     *)
(* stop does so, be it in the middle of its start-up, and even if a        *)
(* request never ends.                                                     *)
StopsEventually ==
    \A p \in Processes : proc[p].signalled ~> At(p, "down")
=============================================================================
