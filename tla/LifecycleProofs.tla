-------------------------- MODULE LifecycleProofs ---------------------------
(***************************************************************************)
(* Theorems about Lifecycle, for any set of processes and any number of    *)
(* requests.  The migration is a critical section under the database's     *)
(* write lock; what a process relies on later never goes away; and a       *)
(* process that drained has no listener left that could take a request.    *)
(***************************************************************************)
EXTENDS Lifecycle, TLAPS

\* The stages that follow the migration, the organization, the supervisor.
Migrated == {"organization", "lookup", "create"} \cup Serving
Organized == {"lookup", "create"} \cup Serving

(* What holds of process p in state x:                                     *)
\* The transaction of the migration holds the write lock, so that what it
\* read in the ledger is still so when it commits.
MigrationIsExclusive(p, x) ==
    /\ x.stage \in {"ledger", "commit"} => writer = p
    /\ x.stage = "commit" => (x.pending <=> applied = 0)

StagesAreEarned(x) ==
    /\ x.stage \in Migrated => applied = 1
    /\ x.stage \in Organized => organization
    /\ x.stage \in Serving => supervisor

\* Nothing is accepted after the listeners were closed.
DrainsAreFinal(x) ==
    /\ x.stage = "draining" => x.server # "listening"
    /\ x.stage # "down" => ~x.cut
    /\ x.outcome = "drained" =>
          /\ x.stage \in {"closing", "down"}
          /\ x.server # "listening"
          /\ x.inflight = 0 /\ ~x.cut

Sound(p, x) == MigrationIsExclusive(p, x) /\ StagesAreEarned(x) /\ DrainsAreFinal(x)

IInv ==
    /\ TypeOK
    /\ applied <= 1
    /\ \A p \in Processes : Sound(p, proc[p])

-----------------------------------------------------------------------------
\* What a step of p may do to the database: nothing is undone, and what is
\* written under the lock is written by its holder.
DatabaseGrows(p) ==
    /\ writer' \in Processes \cup {None}
    /\ writer \in Processes \ {p} => writer' = writer /\ applied' = applied
    /\ applied' \in Nat /\ applied <= applied' /\ applied' <= 1
    /\ organization' \in BOOLEAN /\ (organization => organization')
    /\ supervisor' \in BOOLEAN /\ (supervisor => supervisor')

(* Process p moves; the others keep their lock, and what they saw of the   *)
(* database is still there.                                                *)
LEMMA OneProcessMoves ==
    ASSUME IInv, NEW p \in Processes, NEW x \in Process,
           proc' = [proc EXCEPT ![p] = x],
           DatabaseGrows(p), Sound(p, x)'
    PROVE  IInv'
<1>1. /\ proc' \in [Processes -> Process] /\ proc'[p] = x
      /\ \A q \in Processes \ {p} : proc'[q] = proc[q]
  BY DEF IInv, TypeOK
<1>2. TypeOK'
  BY <1>1 DEF DatabaseGrows, TypeOK
<1>3. ASSUME NEW q \in Processes \ {p}
      PROVE  Sound(q, proc[q])'
  <2>1. /\ MigrationIsExclusive(q, proc[q]) /\ StagesAreEarned(proc[q]) /\ DrainsAreFinal(proc[q])
        /\ applied \in Nat
    BY DEF IInv, TypeOK, Sound
  <2>2. proc'[q] = proc[q]
    BY <1>1
  <2>3. MigrationIsExclusive(q, proc[q])'
    BY <2>1, <2>2 DEF MigrationIsExclusive, DatabaseGrows
  <2>4. StagesAreEarned(proc[q])'
    BY <2>1, <2>2 DEF StagesAreEarned, DatabaseGrows
  <2>5. DrainsAreFinal(proc[q])'
    BY <2>1, <2>2 DEF DrainsAreFinal
  <2>. QED
    BY <2>3, <2>4, <2>5 DEF Sound
<1>4. Sound(p, proc[p])'
  BY <1>1 DEF Sound, MigrationIsExclusive, StagesAreEarned, DrainsAreFinal
<1>5. \A q \in Processes : Sound(q, proc[q])'
  BY <1>3, <1>4
<1>. QED
  BY <1>2, <1>5 DEF IInv, DatabaseGrows

(* The same for a step that writes nothing to the database.                *)
LEMMA OnlyItsProcessMoves ==
    ASSUME IInv, NEW p \in Processes, NEW x \in Process,
           proc' = [proc EXCEPT ![p] = x], UNCHANGED dbVars, Sound(p, x)
    PROVE  IInv'
<1>1. Sound(p, x)'
  BY DEF dbVars, Sound, MigrationIsExclusive, StagesAreEarned, DrainsAreFinal
<1>2. /\ writer \in Processes \cup {None} /\ applied \in Nat
      /\ organization \in BOOLEAN /\ supervisor \in BOOLEAN /\ applied <= 1
  BY DEF IInv, TypeOK
<1>3. /\ writer' = writer /\ applied' = applied
      /\ organization' = organization /\ supervisor' = supervisor
  BY DEF dbVars
<1>4. DatabaseGrows(p)
  BY <1>2, <1>3 DEF DatabaseGrows
<1>. QED
  BY <1>1, <1>4, OneProcessMoves

(* A process that ends gives up the lock, and only its own.                *)
LEMMA ProcessEnds ==
    ASSUME IInv, NEW p \in Processes, NEW x \in Process, x.stage = "down", x.outcome # "drained",
           proc' = [proc EXCEPT ![p] = x], Release(p),
           UNCHANGED <<applied, organization, supervisor>>
    PROVE  IInv'
<1>1. /\ writer \in Processes \cup {None} /\ applied \in Nat
      /\ organization \in BOOLEAN /\ supervisor \in BOOLEAN /\ applied <= 1
  BY DEF IInv, TypeOK
<1>2. writer' \in Processes \cup {None} /\ (writer \in Processes \ {p} => writer' = writer)
  BY <1>1 DEF Release
<1>3. Sound(p, x)'
  BY DEF Sound, MigrationIsExclusive, StagesAreEarned, DrainsAreFinal, Migrated, Organized, Serving
<1>4. DatabaseGrows(p)
  BY <1>1, <1>2 DEF DatabaseGrows
<1>. QED
  BY <1>3, <1>4, OneProcessMoves

-----------------------------------------------------------------------------
\* What is left of a process that has ended.
Ended(outcome, cut) == [Down EXCEPT !.outcome = outcome, !.cut = cut]

LEMMA EndedIsProcess ==
    ASSUME NEW outcome \in Outcome, NEW cut \in BOOLEAN
    PROVE  LET d == Ended(outcome, cut) IN
           /\ d \in Process /\ d.stage = "down" /\ d.outcome = outcome /\ d.cut = cut
           /\ d.inflight = 0 /\ d.server = "off"
<1>1. 0 \in 0..MaxRequests
  BY LifecycleAssumption
<1>. QED
  BY <1>1 DEF Ended, Down, Process, Stage

LEMMA InitInv == Init => IInv
<1>. SUFFICES ASSUME Init PROVE IInv
  OBVIOUS
<1>1. 0 \in 0..MaxRequests
  BY LifecycleAssumption
<1>2. Down \in Process
  BY <1>1 DEF Down, Process, Stage, Outcome
<1>3. proc \in [Processes -> Process]
  BY <1>2 DEF Init
<1>5. writer \in Processes \cup {None} /\ applied \in Nat /\ applied <= 1
  BY DEF Init
<1>6. organization \in BOOLEAN /\ supervisor \in BOOLEAN
  BY DEF Init
<1>4. \A p \in Processes : Sound(p, proc[p])
  BY DEF Init, Down, Sound, MigrationIsExclusive, StagesAreEarned, DrainsAreFinal, Migrated,
         Organized, Serving
<1>. QED
  BY <1>3, <1>4, <1>5, <1>6 DEF IInv, TypeOK

(* What is known of a process before its step.                             *)
LEMMA Before ==
    ASSUME IInv, NEW p \in Processes
    PROVE  proc[p] \in Process /\ Sound(p, proc[p])
BY DEF IInv, TypeOK

(* A process whose fields change within their types.                       *)
LEMMA ProcessMoves ==
    ASSUME NEW x \in Process, NEW stage \in Stage, NEW outcome \in Outcome,
           NEW server \in {"off", "listening", "failed", "closed"}
    PROVE  /\ [x EXCEPT !.stage = stage, !.server = server] \in Process
           /\ [x EXCEPT !.stage = stage, !.outcome = outcome] \in Process
BY DEF Process

LEMMA SignalsAreFlags ==
    ASSUME NEW x \in Process
    PROVE  [x EXCEPT !.signalled = TRUE] \in Process
BY DEF Process

(* A process starts from nothing.                                          *)
LEMMA StartInv ==
    ASSUME IInv, NEW p \in Processes, Start(p)
    PROVE  IInv'
<1>. DEFINE r == [Down EXCEPT !.stage = "migrate"]
<1>1. proc' = [proc EXCEPT ![p] = r] /\ UNCHANGED dbVars
  BY DEF Start, At, Down
<1>0. 0 \in 0..MaxRequests
  BY LifecycleAssumption
<1>2. r \in Process
  BY <1>0 DEF Down, Process, Stage, StartUp, Outcome
<1>3. Sound(p, r)
  BY Before
     DEF Start, At, Down, Process, Sound, MigrationIsExclusive, StagesAreEarned,
         DrainsAreFinal, Migrated, Organized, Serving
<1>. QED
  BY <1>1, <1>2, <1>3, OnlyItsProcessMoves

LEMMA SignalInv ==
    ASSUME IInv, NEW p \in Processes, Signal(p)
    PROVE  IInv'
<1>. DEFINE r == [proc[p] EXCEPT !.signalled = TRUE]
<1>1. proc' = [proc EXCEPT ![p] = r] /\ UNCHANGED dbVars
  BY DEF Signal, At
<1>2. r \in Process
  BY Before, SignalsAreFlags
<1>3. Sound(p, r)
  BY Before
     DEF Signal, At, Process, Sound, MigrationIsExclusive, StagesAreEarned,
         DrainsAreFinal, Migrated, Organized, Serving
<1>. QED
  BY <1>1, <1>2, <1>3, OnlyItsProcessMoves

(* What the ledger says holds until the commit, for the lock is held.      *)
LEMMA CheckLedgerInv ==
    ASSUME IInv, NEW p \in Processes, CheckLedger(p)
    PROVE  IInv'
<1>. DEFINE r == [proc[p] EXCEPT !.stage = "commit", !.pending = (applied = 0)]
<1>1. proc' = [proc EXCEPT ![p] = r] /\ UNCHANGED dbVars
  BY DEF CheckLedger, StartsWith, At
<1>2. r \in Process
  <2>1. "commit" \in Stage
    BY DEF Stage, StartUp
  <2>2. (applied = 0) \in BOOLEAN
    OBVIOUS
  <2>. QED
    BY Before, <2>1, <2>2, Zenon DEF Process
<1>3. Sound(p, r)
  BY Before
     DEF CheckLedger, StartsWith, At, Process, Sound, MigrationIsExclusive, StagesAreEarned,
         DrainsAreFinal, Migrated, Organized, Serving
<1>. QED
  BY <1>1, <1>2, <1>3, OnlyItsProcessMoves

LEMMA LookUpSupervisorInv ==
    ASSUME IInv, NEW p \in Processes, LookUpSupervisor(p)
    PROVE  IInv'
<1>. DEFINE r == [proc[p] EXCEPT !.stage = IF supervisor THEN "launched" ELSE "create"]
<1>1. proc' = [proc EXCEPT ![p] = r] /\ UNCHANGED dbVars
  BY DEF LookUpSupervisor, StartsWith, At, Goto
<1>2. r \in Process
  BY Before, LifecycleAssumption
     DEF LookUpSupervisor, StartsWith, At, Goto, Process, Stage, StartUp, Serving, Outcome
<1>3. Sound(p, r)
  BY Before
     DEF LookUpSupervisor, StartsWith, At, Goto, Process, Sound, MigrationIsExclusive,
         StagesAreEarned, DrainsAreFinal, Migrated, Organized, Serving
<1>. QED
  BY <1>1, <1>2, <1>3, OnlyItsProcessMoves

LEMMA LaunchWorkersInv ==
    ASSUME IInv, NEW p \in Processes, LaunchWorkers(p)
    PROVE  IInv'
<1>. DEFINE r == [proc[p] EXCEPT !.workers = "running"]
<1>1. proc' = [proc EXCEPT ![p] = r] /\ UNCHANGED dbVars
  BY DEF LaunchWorkers, At
<1>2. r \in Process
  BY Before, LifecycleAssumption
     DEF LaunchWorkers, At, Process, Stage, StartUp, Serving, Outcome
<1>3. Sound(p, r)
  BY Before
     DEF LaunchWorkers, At, Process, Sound, MigrationIsExclusive, StagesAreEarned,
         DrainsAreFinal, Migrated, Organized, Serving
<1>. QED
  BY <1>1, <1>2, <1>3, OnlyItsProcessMoves

LEMMA WorkersReturnInv ==
    ASSUME IInv, NEW p \in Processes, WorkersReturn(p)
    PROVE  IInv'
<1>. DEFINE r == [proc[p] EXCEPT !.workers = "returned"]
<1>1. proc' = [proc EXCEPT ![p] = r] /\ UNCHANGED dbVars
  BY DEF WorkersReturn
<1>2. r \in Process
  BY Before, LifecycleAssumption
     DEF WorkersReturn, Process, Stage, StartUp, Serving, Outcome
<1>3. Sound(p, r)
  BY Before
     DEF WorkersReturn, Process, Sound, MigrationIsExclusive, StagesAreEarned,
         DrainsAreFinal, Migrated, Organized, Serving
<1>. QED
  BY <1>1, <1>2, <1>3, OnlyItsProcessMoves

LEMMA LaunchServerInv ==
    ASSUME IInv, NEW p \in Processes, LaunchServer(p)
    PROVE  IInv'
<1>. DEFINE r == [proc[p] EXCEPT !.server = "listening"]
<1>1. proc' = [proc EXCEPT ![p] = r] /\ UNCHANGED dbVars
  BY DEF LaunchServer
<1>2. r \in Process
  BY Before, LifecycleAssumption
     DEF LaunchServer, Process, Stage, StartUp, Serving, Outcome
<1>3. Sound(p, r)
  BY Before
     DEF LaunchServer, Process, Sound, MigrationIsExclusive, StagesAreEarned,
         DrainsAreFinal, Migrated, Organized, Serving
<1>. QED
  BY <1>1, <1>2, <1>3, OnlyItsProcessMoves

LEMMA ServeFailsInv ==
    ASSUME IInv, NEW p \in Processes, ServeFails(p)
    PROVE  IInv'
<1>. DEFINE r == [proc[p] EXCEPT !.server = "failed"]
<1>1. proc' = [proc EXCEPT ![p] = r] /\ UNCHANGED dbVars
  BY DEF ServeFails
<1>2. r \in Process
  BY Before, LifecycleAssumption
     DEF ServeFails, Process, Stage, StartUp, Serving, Outcome
<1>3. Sound(p, r)
  BY Before
     DEF ServeFails, Process, Sound, MigrationIsExclusive, StagesAreEarned,
         DrainsAreFinal, Migrated, Organized, Serving
<1>. QED
  BY <1>1, <1>2, <1>3, OnlyItsProcessMoves

(* Only a listener accepts, and a drained process has none.                *)
LEMMA AcceptInv ==
    ASSUME IInv, NEW p \in Processes, Accept(p)
    PROVE  IInv'
<1>. DEFINE r == [proc[p] EXCEPT !.inflight = proc[p].inflight + 1]
<1>1. proc' = [proc EXCEPT ![p] = r] /\ UNCHANGED dbVars
  BY DEF Accept, Accepting
<1>2. r \in Process
  BY Before, LifecycleAssumption
     DEF Accept, Accepting, Process, Stage, StartUp, Serving, Outcome
<1>3. Sound(p, r)
  BY Before
     DEF Accept, Accepting, Process, Sound, MigrationIsExclusive, StagesAreEarned,
         DrainsAreFinal, Migrated, Organized, Serving
<1>. QED
  BY <1>1, <1>2, <1>3, OnlyItsProcessMoves

LEMMA RespondInv ==
    ASSUME IInv, NEW p \in Processes, Respond(p)
    PROVE  IInv'
<1>. DEFINE r == [proc[p] EXCEPT !.inflight = proc[p].inflight - 1]
<1>1. proc' = [proc EXCEPT ![p] = r] /\ UNCHANGED dbVars
  BY DEF Respond
<1>2. r \in Process
  BY Before, LifecycleAssumption
     DEF Respond, Process, Stage, StartUp, Serving, Outcome
<1>3. Sound(p, r)
  BY Before
     DEF Respond, Process, Sound, MigrationIsExclusive, StagesAreEarned,
         DrainsAreFinal, Migrated, Organized, Serving
<1>. QED
  BY <1>1, <1>2, <1>3, OnlyItsProcessMoves

LEMMA ParkInv ==
    ASSUME IInv, NEW p \in Processes, Park(p)
    PROVE  IInv'
<1>. DEFINE r == [proc[p] EXCEPT !.stage = "select"]
<1>1. proc' = [proc EXCEPT ![p] = r] /\ UNCHANGED dbVars
  BY DEF Park, At, Goto
<1>2. r \in Process
  BY Before, LifecycleAssumption
     DEF Park, At, Goto, Process, Stage, StartUp, Serving, Outcome
<1>3. Sound(p, r)
  BY Before
     DEF Park, At, Goto, Process, Sound, MigrationIsExclusive, StagesAreEarned,
         DrainsAreFinal, Migrated, Organized, Serving
<1>. QED
  BY <1>1, <1>2, <1>3, OnlyItsProcessMoves

(* The listeners are closed before the wait begins.                        *)
LEMMA ShutDownInv ==
    ASSUME IInv, NEW p \in Processes, ShutDown(p)
    PROVE  IInv'
<1>. DEFINE r == [proc[p] EXCEPT !.stage = "draining",
                                 !.server = IF proc[p].server = "failed"
                                            THEN proc[p].server ELSE "closed"]
<1>1. proc' = [proc EXCEPT ![p] = r] /\ UNCHANGED dbVars
  BY DEF ShutDown
<1>2. r \in Process
  <2>1. PICK server \in {"off", "listening", "failed", "closed"} :
            server = IF proc[p].server = "failed" THEN proc[p].server ELSE "closed"
    OBVIOUS
  <2>2. r = [proc[p] EXCEPT !.stage = "draining", !.server = server]
    BY <2>1
  <2>3. "draining" \in Stage /\ "none" \in Outcome
    BY DEF Stage, Outcome
  <2>. HIDE DEF r
  <2>. QED
    BY Before, ProcessMoves, <2>2, <2>3
<1>3. Sound(p, r)
  BY Before
     DEF ShutDown, Process, Sound, MigrationIsExclusive, StagesAreEarned,
         DrainsAreFinal, Migrated, Organized, Serving
<1>. QED
  BY <1>1, <1>2, <1>3, OnlyItsProcessMoves

(* The drained outcome is given when nothing is in flight.                 *)
LEMMA DrainedInv ==
    ASSUME IInv, NEW p \in Processes, Drained(p)
    PROVE  IInv'
<1>. DEFINE r == [proc[p] EXCEPT !.stage = "closing",
                                 !.outcome = IF proc[p].server = "failed"
                                             THEN "serve" ELSE "drained"]
<1>1. proc' = [proc EXCEPT ![p] = r] /\ UNCHANGED dbVars
  BY DEF Drained, At, Return
<1>2. r \in Process
  <2>1. PICK outcome \in Outcome :
            outcome = IF proc[p].server = "failed" THEN "serve" ELSE "drained"
    BY DEF Outcome
  <2>2. r = [proc[p] EXCEPT !.stage = "closing", !.outcome = outcome] /\ "closing" \in Stage
    BY <2>1 DEF Stage
  <2>. HIDE DEF r
  <2>. QED
    BY Before, ProcessMoves, <2>2
<1>3. Sound(p, r)
  BY Before
     DEF Drained, At, Return, Process, Sound, MigrationIsExclusive, StagesAreEarned,
         DrainsAreFinal, Migrated, Organized, Serving
<1>. QED
  BY <1>1, <1>2, <1>3, OnlyItsProcessMoves

LEMMA ShutdownTimesOutInv ==
    ASSUME IInv, NEW p \in Processes, ShutdownTimesOut(p)
    PROVE  IInv'
<1>. DEFINE r == [proc[p] EXCEPT !.stage = "closing", !.outcome = "timeout"]
<1>1. proc' = [proc EXCEPT ![p] = r] /\ UNCHANGED dbVars
  BY DEF ShutdownTimesOut, At, Return
<1>2. r \in Process
  <2>1. "closing" \in Stage /\ "timeout" \in Outcome
    BY DEF Stage, Outcome
  <2>. QED
    BY Before, ProcessMoves, <2>1
<1>3. Sound(p, r)
  BY Before
     DEF ShutdownTimesOut, At, Return, Process, Sound, MigrationIsExclusive, StagesAreEarned,
         DrainsAreFinal, Migrated, Organized, Serving
<1>. QED
  BY <1>1, <1>2, <1>3, OnlyItsProcessMoves

LEMMA TakeWorkerErrorInv ==
    ASSUME IInv, NEW p \in Processes, TakeWorkerError(p)
    PROVE  IInv'
<1>. DEFINE r == [proc[p] EXCEPT !.stage = "closing", !.outcome = "workers"]
<1>1. proc' = [proc EXCEPT ![p] = r] /\ UNCHANGED dbVars
  BY DEF TakeWorkerError, At, Return
<1>2. r \in Process
  <2>1. "closing" \in Stage /\ "workers" \in Outcome
    BY DEF Stage, Outcome
  <2>. QED
    BY Before, ProcessMoves, <2>1
<1>3. Sound(p, r)
  BY Before
     DEF TakeWorkerError, At, Return, Process, Sound, MigrationIsExclusive, StagesAreEarned,
         DrainsAreFinal, Migrated, Organized, Serving
<1>. QED
  BY <1>1, <1>2, <1>3, OnlyItsProcessMoves

LEMMA TakeServeErrorInv ==
    ASSUME IInv, NEW p \in Processes, TakeServeError(p)
    PROVE  IInv'
<1>. DEFINE r == [proc[p] EXCEPT !.stage = "closing", !.outcome = "serve"]
<1>1. proc' = [proc EXCEPT ![p] = r] /\ UNCHANGED dbVars
  BY DEF TakeServeError, At, Return
<1>2. r \in Process
  <2>1. "closing" \in Stage /\ "serve" \in Outcome
    BY DEF Stage, Outcome
  <2>. QED
    BY Before, ProcessMoves, <2>1
<1>3. Sound(p, r)
  BY Before
     DEF TakeServeError, At, Return, Process, Sound, MigrationIsExclusive, StagesAreEarned,
         DrainsAreFinal, Migrated, Organized, Serving
<1>. QED
  BY <1>1, <1>2, <1>3, OnlyItsProcessMoves

(* Ended half-way, a process takes its open transaction with it.           *)
LEMMA KilledInv ==
    ASSUME IInv, NEW p \in Processes, Killed(p)
    PROVE  IInv'
<1>1. PICK cut \in BOOLEAN : cut = (proc[p].inflight > 0)
  <2>1. (proc[p].inflight > 0) \in BOOLEAN
    OBVIOUS
  <2>. QED
    BY <2>1, Zenon
<1>2. PICK d : d = Ended("killed", cut)
  OBVIOUS
<1>3. proc' = [proc EXCEPT ![p] = d]
  BY <1>1, <1>2, Zenon DEF Killed, Ended
<1>4. d \in Process /\ d.stage = "down" /\ d.outcome # "drained"
  <2>1. "killed" \in Outcome
    BY DEF Outcome
  <2>. QED
    BY <1>2, <2>1, EndedIsProcess
<1>5. Release(p) /\ UNCHANGED <<applied, organization, supervisor>>
  BY DEF Killed
<1>. QED
  BY <1>3, <1>4, <1>5, ProcessEnds

LEMMA FailStartInv ==
    ASSUME IInv, NEW p \in Processes, FailStart(p)
    PROVE  IInv'
<1>. DEFINE d == [Down EXCEPT !.outcome = "start"]
<1>0. 0 \in 0..MaxRequests
  BY LifecycleAssumption
<1>1. proc' = [proc EXCEPT ![p] = d]
  BY DEF FailStart
<1>2. d \in Process /\ d.stage = "down" /\ d.outcome # "drained"
  BY <1>0 DEF Down, Process, Stage, Outcome
<1>3. Release(p) /\ UNCHANGED <<applied, organization, supervisor>>
  BY DEF FailStart
<1>. HIDE DEF d
<1>. QED
  BY <1>1, <1>2, <1>3, ProcessEnds

(* The lock is taken only when nobody holds it.                            *)
LEMMA BeginImmediateInv ==
    ASSUME IInv, NEW p \in Processes, BeginImmediate(p)
    PROVE  IInv'
<1>. DEFINE r == [proc[p] EXCEPT !.stage = "ledger"]
<1>1. proc' = [proc EXCEPT ![p] = r]
  BY DEF BeginImmediate, Goto
<1>2. PICK x \in Process : x = r
  BY Before DEF Process, Stage, StartUp
<1>3. writer = None /\ writer' = p /\ UNCHANGED <<applied, organization, supervisor>>
  BY DEF BeginImmediate
<1>4. /\ applied \in Nat /\ applied <= 1 /\ organization \in BOOLEAN /\ supervisor \in BOOLEAN
  BY DEF IInv, TypeOK
<1>5. DatabaseGrows(p)
  BY <1>3, <1>4, LifecycleAssumption DEF DatabaseGrows
<1>6. x.stage = "ledger" /\ x.outcome = proc[p].outcome /\ x.cut = proc[p].cut
  BY <1>2, Before DEF Process
<1>7. proc[p].outcome # "drained" /\ ~proc[p].cut
  BY Before DEF BeginImmediate, StartsWith, At, Sound, DrainsAreFinal
<1>8. Sound(p, x)'
  BY <1>3, <1>6, <1>7
     DEF Sound, MigrationIsExclusive, StagesAreEarned, DrainsAreFinal, Migrated, Organized, Serving
<1>. QED
  BY <1>1, <1>2, <1>5, <1>8, OneProcessMoves

(* What is committed is what the ledger asked for, and once.               *)
LEMMA CommitMigrationsInv ==
    ASSUME IInv, NEW p \in Processes, CommitMigrations(p)
    PROVE  IInv'
<1>. DEFINE r == [proc[p] EXCEPT !.stage = "organization"]
<1>1. proc' = [proc EXCEPT ![p] = r]
  BY DEF CommitMigrations, Goto
<1>2. PICK x \in Process : x = r
  BY Before DEF Process, Stage, StartUp
<1>3. /\ applied \in Nat /\ applied <= 1 /\ organization \in BOOLEAN /\ supervisor \in BOOLEAN
      /\ None \notin Processes
  BY LifecycleAssumption DEF IInv, TypeOK
<1>4. writer = p /\ (proc[p].pending <=> applied = 0)
  BY Before DEF CommitMigrations, StartsWith, At, Sound, MigrationIsExclusive
<1>5. applied' = applied + (IF proc[p].pending THEN 1 ELSE 0)
  BY DEF CommitMigrations
<1>6. applied' = 1
  <2>1. CASE applied = 0
    BY <2>1, <1>4, <1>5
  <2>2. CASE applied = 1
    BY <2>2, <1>4, <1>5
  <2>. QED
    BY <2>1, <2>2, <1>3
<1>7. writer' = None /\ UNCHANGED <<organization, supervisor>>
  BY <1>4 DEF CommitMigrations, Release
<1>8. DatabaseGrows(p)
  BY <1>3, <1>4, <1>6, <1>7 DEF DatabaseGrows
<1>9. x.stage = "organization" /\ x.outcome = proc[p].outcome /\ x.cut = proc[p].cut
  BY <1>2, Before DEF Process
<1>10. proc[p].outcome # "drained" /\ ~proc[p].cut
  BY Before DEF CommitMigrations, StartsWith, At, Sound, DrainsAreFinal
<1>11. Sound(p, x)'
  BY <1>6, <1>9, <1>10
     DEF Sound, MigrationIsExclusive, StagesAreEarned, DrainsAreFinal, Organized, Serving
<1>. QED
  BY <1>1, <1>2, <1>8, <1>11, OneProcessMoves

LEMMA CreateOrganizationInv ==
    ASSUME IInv, NEW p \in Processes, CreateOrganization(p)
    PROVE  IInv'
<1>. DEFINE r == [proc[p] EXCEPT !.stage = "lookup"]
<1>1. proc' = [proc EXCEPT ![p] = r]
  BY DEF CreateOrganization, Goto, AfterOrganization
<1>2. PICK x \in Process : x = r
  BY Before DEF Process, Stage, StartUp
<1>3. /\ applied \in Nat /\ applied <= 1 /\ organization \in BOOLEAN /\ supervisor \in BOOLEAN
      /\ writer \in Processes \cup {None}
  BY DEF IInv, TypeOK
<1>4. organization' = TRUE /\ UNCHANGED <<writer, applied, supervisor>>
  BY DEF CreateOrganization
<1>5. DatabaseGrows(p)
  BY <1>3, <1>4 DEF DatabaseGrows
<1>6. x.stage = "lookup" /\ x.outcome = proc[p].outcome /\ x.cut = proc[p].cut
  BY <1>2, Before DEF Process
<1>7. proc[p].outcome # "drained" /\ ~proc[p].cut /\ applied = 1
  BY Before DEF CreateOrganization, StartsWith, At, Sound, DrainsAreFinal, StagesAreEarned, Migrated
<1>8. Sound(p, x)'
  BY <1>4, <1>6, <1>7
     DEF Sound, MigrationIsExclusive, StagesAreEarned, DrainsAreFinal, Serving
<1>. QED
  BY <1>1, <1>2, <1>5, <1>8, OneProcessMoves

LEMMA CreateSupervisorInv ==
    ASSUME IInv, NEW p \in Processes, CreateSupervisor(p)
    PROVE  IInv'
<1>. DEFINE r == [proc[p] EXCEPT !.stage = "launched"]
<1>1. proc' = [proc EXCEPT ![p] = r]
  BY DEF CreateSupervisor, Goto
<1>2. PICK x \in Process : x = r
  BY Before DEF Process, Stage, Serving
<1>3. /\ applied \in Nat /\ applied <= 1 /\ organization \in BOOLEAN /\ supervisor \in BOOLEAN
      /\ writer \in Processes \cup {None}
  BY DEF IInv, TypeOK
<1>4. supervisor' = TRUE /\ UNCHANGED <<writer, applied, organization>>
  BY DEF CreateSupervisor
<1>5. DatabaseGrows(p)
  BY <1>3, <1>4 DEF DatabaseGrows
<1>6. x.stage = "launched" /\ x.outcome = proc[p].outcome /\ x.cut = proc[p].cut
  BY <1>2, Before DEF Process
<1>7. proc[p].outcome # "drained" /\ ~proc[p].cut /\ applied = 1 /\ organization
  BY Before DEF CreateSupervisor, StartsWith, At, Sound, DrainsAreFinal, StagesAreEarned, Migrated,
                Organized
<1>8. Sound(p, x)'
  BY <1>4, <1>6, <1>7 DEF Sound, MigrationIsExclusive, StagesAreEarned, DrainsAreFinal
<1>. QED
  BY <1>1, <1>2, <1>5, <1>8, OneProcessMoves

(* What was drained when run returned is not cut off when the store closes.*)
LEMMA CloseInv ==
    ASSUME IInv, NEW p \in Processes, Close(p)
    PROVE  IInv'
<1>1. PICK cut \in BOOLEAN : cut = (proc[p].inflight > 0)
  <2>1. (proc[p].inflight > 0) \in BOOLEAN
    OBVIOUS
  <2>. QED
    BY <2>1, Zenon
<1>2. PICK d : d = Ended(proc[p].outcome, cut)
  OBVIOUS
<1>3. proc' = [proc EXCEPT ![p] = d] /\ UNCHANGED dbVars
  BY <1>1, <1>2, Zenon DEF Close, Ended
<1>4. proc[p].outcome \in Outcome /\ proc[p].inflight \in Nat
  BY Before DEF Process
<1>5. /\ d \in Process /\ d.stage = "down" /\ d.outcome = proc[p].outcome
      /\ d.cut = cut /\ d.inflight = 0 /\ d.server = "off"
  BY <1>2, <1>4, EndedIsProcess
<1>6. d.outcome = "drained" => ~d.cut
  <2>1. proc[p].outcome = "drained" => proc[p].inflight = 0
    BY Before DEF Sound, DrainsAreFinal
  <2>2. proc[p].inflight = 0 => ~(proc[p].inflight > 0)
    OBVIOUS
  <2>3. proc[p].inflight = 0 => ~cut
    BY <1>1, <2>2, Zenon
  <2>. QED
    BY <2>1, <2>3, <1>5
<1>7. Sound(p, d)
  BY <1>5, <1>6
     DEF Sound, MigrationIsExclusive, StagesAreEarned, DrainsAreFinal, Migrated, Organized, Serving
<1>. QED
  BY <1>3, <1>5, <1>7, OnlyItsProcessMoves

LEMMA StepInv == IInv /\ [Next]_vars => IInv'
<1>. SUFFICES ASSUME IInv, [Next]_vars PROVE IInv'
  OBVIOUS
<1>1. CASE UNCHANGED vars
  BY <1>1 DEF vars, IInv, TypeOK, Sound, MigrationIsExclusive, StagesAreEarned, DrainsAreFinal
<1>2. ASSUME NEW p \in Processes, StartStep(p)
      PROVE  IInv'
  BY <1>2, BeginImmediateInv, CheckLedgerInv, CommitMigrationsInv, CreateOrganizationInv,
     LookUpSupervisorInv, CreateSupervisorInv, FailStartInv DEF StartStep
<1>3. ASSUME NEW p \in Processes, MainStep(p)
      PROVE  IInv'
  BY <1>2, <1>3, LaunchWorkersInv, ParkInv, ShutDownInv, DrainedInv, ShutdownTimesOutInv,
     TakeWorkerErrorInv, TakeServeErrorInv, CloseInv DEF MainStep
<1>4. ASSUME NEW p \in Processes, OtherStep(p)
      PROVE  IInv'
  BY <1>4, StartInv, SignalInv, KilledInv, LaunchServerInv, ServeFailsInv, AcceptInv, RespondInv,
     WorkersReturnInv DEF OtherStep
<1>. QED
  BY <1>1, <1>3, <1>4 DEF Next

(* The inductive invariant holds of every state a behaviour reaches.       *)
THEOREM Invariance == Spec => []IInv
BY InitInv, StepInv, PTL DEF Spec

(* Every process and the database keep their types.                        *)
THEOREM TypeCorrect == Spec => []TypeOK
<1>1. IInv => TypeOK
  BY DEF IInv
<1>. QED
  BY <1>1, Invariance, PTL

(* However many processes start on one database, fail or are killed, the   *)
(* migration is applied once at most, and whoever serves finds it applied  *)
(* and the organization with its supervisor there (Store.Migrate and       *)
(* platform.Bootstrap before the server of run).                           *)
THEOREM ServingIsReady == Spec => []ReadyBeforeServing
<1>1. IInv => ReadyBeforeServing
  BY DEF IInv, Sound, StagesAreEarned, ReadyBeforeServing, Migrated, Organized
<1>. QED
  BY <1>1, Invariance, PTL

(* A Shutdown that returned in time leaves no request to be cut off when   *)
(* the store is closed.                                                    *)
THEOREM DrainingIsClean == Spec => []DrainedCleanly
<1>1. IInv => DrainedCleanly
  BY DEF IInv, Sound, DrainsAreFinal, DrainedCleanly
<1>. QED
  BY <1>1, Invariance, PTL
=============================================================================
