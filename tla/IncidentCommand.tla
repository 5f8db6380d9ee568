--------------------------- MODULE IncidentCommand --------------------------
(***************************************************************************)
(* Pollution incidents: report, command leases, response phases,           *)
(* containment assignments, and the remediation plan of an incident with   *)
(* its actions (incident.Service, remediation.Service and their            *)
(* repositories).                                                          *)
(*                                                                         *)
(* Every call is two steps: the handler reads the clock (Begin), and later *)
(* its one transaction runs with that `now', or has no effect (Reject).    *)
(* Other calls, and time, come in between.  Row versions that are read and *)
(* compared inside the same transaction always agree and are left out; the *)
(* version a client sends for a remediation action is kept.                *)
(***************************************************************************)
EXTENDS TimeText, FiniteSets

CONSTANTS
    Supervisors,   \* users with the protection_supervisor role
    Operators,     \* users with the field_operator role
    Incidents,     \* ids of the incidents that may be reported
    Resources,     \* containment resource codes
    Keys,          \* idempotency keys of remediation actions within a plan
    None,          \* SQL NULL
    Lease,         \* command lease, in half seconds
    MaxTime,       \* bound on the clock
    MaxGeneration, \* bound on claims of one incident
    MaxVersion     \* bound on the version of a remediation action

Users == Supervisors \cup Operators

ASSUME IncidentCommandAssumption ==
    /\ None \notin Nat
    /\ None \notin Users
    /\ Lease \in Nat \ {0}
    /\ MaxTime \in Nat /\ MaxGeneration \in Nat /\ MaxVersion \in Nat

VARIABLES
    clock,        \* half seconds
    begun,        \* per user: the `now' of the call in flight, or None
    incident,     \* incidents
    known,        \* per user: the <<incident, token>> pairs its claims returned
    assignments,  \* containment_assignments: <<incident, resource, status>>
    plan,         \* remediation_plans, keyed by incident_id (UNIQUE)
    action,       \* remediation_actions, keyed by plan and idempotency key
    outbox,       \* outbox_events: the incidents with an "incident.reported" event
    trail         \* audit_events: <<action, object, detail>>

dbVars == <<incident, assignments, plan, action, outbox, trail>>
vars == <<clock, begun, known, dbVars>>

-----------------------------------------------------------------------------
Phases == <<"reported", "assessing", "contained", "remediating", "resolved">>
IncidentStatus == {"absent"} \cup {Phases[n] : n \in 1..5}
AssignmentStatus == {"pending", "active", "completed", "cancelled"}
RemediationStatus == {"absent", "draft", "approved", "executing", "verified", "closed"}
ActionStatus == {"absent", "pending", "in_progress", "succeeded", "failed"}

\* The random lease token is named by the generation it was issued under.
IncidentRow == [status : IncidentStatus, commander : Users \cup {None},
                token : Nat, gen : Nat, expires : Nat \cup {None}]

PlanRow == [status : RemediationStatus, approver : Supervisors \cup {None}]

ActionRow == [status : ActionStatus, attempts : Nat, version : Nat]

Actions == Incidents \X Keys

AbsentIncident == [status |-> "absent", commander |-> None, token |-> 0,
                   gen |-> 0, expires |-> None]

Init ==
    /\ clock = 0
    /\ begun = [u \in Users |-> None]
    /\ incident = [i \in Incidents |-> AbsentIncident]
    /\ known = [u \in Users |-> {}]
    /\ assignments = {}
    /\ plan = [i \in Incidents |-> [status |-> "absent", approver |-> None]]
    /\ action = [a \in Actions |-> [status |-> "absent", attempts |-> 0, version |-> 0]]
    /\ outbox = {}
    /\ trail = {}

-----------------------------------------------------------------------------
Tick ==
    /\ clock < MaxTime
    /\ clock' = clock + 1
    /\ UNCHANGED <<begun, known, dbVars>>

\* A handler reads s.clock().
Begin(u) ==
    /\ begun[u] = None
    /\ begun' = [begun EXCEPT ![u] = clock]
    /\ UNCHANGED <<clock, known, dbVars>>

\* A validation, guard or SQL error: the transaction is rolled back.
Reject(u) ==
    /\ begun[u] # None
    /\ begun' = [begun EXCEPT ![u] = None]
    /\ UNCHANGED <<clock, known, dbVars>>

\* The call of user u commits.
Commit(u) == begun[u] # None /\ begun' = [begun EXCEPT ![u] = None]

Audit(kind, object, detail) == trail' = trail \cup {<<kind, object, detail>>}

-----------------------------------------------------------------------------
(* Service.Report, by any role that may collect or analyse.                *)
Report(u, i) ==
    /\ Commit(u)
    /\ incident[i].status = "absent"
    /\ incident' = [incident EXCEPT ![i].status = "reported"]
    /\ outbox' = outbox \cup {i}
    /\ Audit("incident.report", i, "success")
    /\ UNCHANGED <<clock, known, assignments, plan, action>>

\* Mutant of Vacant: an expired lease is not distinguished from a live one.
VacantAlways(row, u, now) == TRUE

(* Both guards of ClaimIncident: the one in Go compares instants, the one  *)
(* in the UPDATE compares text.                                            *)
Vacant(row, u, now) ==
    row.commander # u /\ row.expires # None
        => row.expires <= now /\ TextLeq(row.expires, now)

(* Service.Claim: a new token and generation, also for the present         *)
(* commander.  A claim leaves no audit record.                             *)
Claim(u, i) ==
    LET row == incident[i] IN
    /\ u \in Supervisors
    /\ Commit(u)
    /\ row.status \notin {"absent", "resolved"}
    /\ Vacant(row, u, begun[u])
    /\ row.gen < MaxGeneration
    /\ incident' = [incident EXCEPT ![i] =
          [row EXCEPT !.commander = u, !.gen = row.gen + 1, !.token = row.gen + 1,
                      !.expires = begun[u] + Lease]]
    /\ known' = [known EXCEPT ![u] = known[u] \cup {<<i, row.gen + 1>>}]
    /\ UNCHANGED <<clock, assignments, plan, action, outbox, trail>>

-----------------------------------------------------------------------------
(* CanTransition: response phases are completed in order.                  *)
CanTransition(from, to) == \E n \in 1..4 : from = Phases[n] /\ to = Phases[n + 1]

IncompleteAssignments(i) ==
    {a \in assignments : a[1] = i /\ a[3] \notin {"completed", "cancelled"}}

OpenActions(i) ==
    {k \in Keys : action[<<i, k>>].status \notin {"absent", "succeeded"}}

\* Mutants of HoldsCommand: all but the expiry is compared, or only it.
CommandsEver(row, u, token, now) == row.commander = u /\ row.token = token
LeaseIsLive(row, u, token, now) == row.expires # None /\ TextLess(now, row.expires)

(* The WHERE clause of TransitionIncident.  The generation it compares was *)
(* read in the same transaction.                                           *)
HoldsCommand(row, u, token, now) ==
    /\ row.commander = u
    /\ row.token = token
    /\ row.expires # None
    /\ TextLess(now, row.expires)

(* Service.Advance.                                                        *)
Advance(u, i, token, to) ==
    /\ u \in Supervisors
    /\ Commit(u)
    /\ CanTransition(incident[i].status, to)
    /\ to = "resolved" => IncompleteAssignments(i) = {} /\ OpenActions(i) = {}
    /\ HoldsCommand(incident[i], u, token, begun[u])
    /\ incident' = [incident EXCEPT ![i].status = to]
    /\ Audit("incident.advance", i, to)
    /\ UNCHANGED <<clock, known, assignments, plan, action, outbox>>

(* Service.AssignContainment: the lease is checked in Go, on instants; the *)
(* phase of the incident is not checked.  A resource code has one row per  *)
(* status.                                                                 *)
AssignContainment(u, i, token, resource) ==
    LET row == incident[i] IN
    /\ u \in Supervisors
    /\ Commit(u)
    /\ row.commander = u
    /\ row.token = token
    /\ row.expires # None
    /\ row.expires > begun[u]
    /\ \A a \in assignments : ~(a[2] = resource /\ a[3] = "pending")
    /\ assignments' = assignments \cup {<<i, resource, "pending">>}
    /\ Audit("containment.assign", i, resource)
    /\ UNCHANGED <<clock, incident, known, plan, action, outbox>>

-----------------------------------------------------------------------------
\* Mutant of Remediable: the incident may be resolved.
RemediableAnytime(i) == incident[i].status # "absent"

Remediable(i) == incident[i].status \notin {"absent", "resolved"}

(* remediation.Service.CreatePlan: the plan with all its actions.          *)
CreatePlan(u, i, keys) ==
    /\ u \in Supervisors
    /\ Commit(u)
    /\ keys # {}
    /\ Remediable(i)
    /\ plan[i].status = "absent"
    /\ plan' = [plan EXCEPT ![i].status = "draft"]
    /\ action' = [a \in Actions |->
          IF a[1] = i /\ a[2] \in keys
          THEN [status |-> "pending", attempts |-> 0, version |-> 1] ELSE action[a]]
    /\ Audit("remediation_plan.create", i, "success")
    /\ UNCHANGED <<clock, incident, known, assignments, outbox>>

(* Service.Approve: a draft plan with at least one pending action.         *)
Approve(u, i) ==
    /\ u \in Supervisors
    /\ Commit(u)
    /\ plan[i].status = "draft"
    /\ \E k \in Keys : action[<<i, k>>].status = "pending"
    /\ plan' = [plan EXCEPT ![i] = [status |-> "approved", approver |-> u]]
    /\ Audit("remediation_plan.approve", i, "success")
    /\ UNCHANGED <<clock, incident, known, assignments, action, outbox>>

\* Mutant of Executing: the transition writes the approver it was given.
ExecutingWithoutApprover(row) == [status |-> "executing", approver |-> None]

(* TransitionRemediationPlan to executing with no approver: COALESCE keeps *)
(* the one on record.                                                      *)
Executing(row) == [row EXCEPT !.status = "executing"]

\* Mutant of Completable: only the version is compared.
CompletableByVersion(row, expectedVersion) == row.version = expectedVersion

(* The WHERE clause of CompleteRemediationAction.                          *)
Completable(row, expectedVersion) ==
    /\ row.status \in {"pending", "in_progress", "failed"}
    /\ row.version = expectedVersion

\* Mutant of Completed: a status the table does not know.
CompletedUnknownStatus(row, success) ==
    [status |-> IF success THEN "success" ELSE "failed",
     attempts |-> row.attempts + 1, version |-> row.version + 1]

Completed(row, success) ==
    [status |-> IF success THEN "succeeded" ELSE "failed",
     attempts |-> row.attempts + 1, version |-> row.version + 1]

(* Service.CompleteAction(PlanID i, ActionID a): the plan cited must be    *)
(* approved or executing; the action is found by its own id and the        *)
(* version the client last saw.                                            *)
CompleteAction(u, i, a, expectedVersion, success) ==
    /\ Commit(u)
    /\ plan[i].status \in {"approved", "executing"}
    /\ Completable(action[a], expectedVersion)
    /\ expectedVersion < MaxVersion
    /\ action' = [action EXCEPT ![a] = Completed(action[a], success)]
    /\ plan' = IF plan[i].status = "approved"
               THEN [plan EXCEPT ![i] = Executing(plan[i])] ELSE plan
    /\ Audit("remediation_action.complete", a, success)
    /\ UNCHANGED <<clock, incident, known, assignments, outbox>>

-----------------------------------------------------------------------------
CommandStep(u) ==
    \E i \in Incidents :
        \/ Report(u, i)
        \/ Claim(u, i)
        \/ \E token \in 1..MaxGeneration :
              /\ <<i, token>> \in known[u]
              /\ \/ \E to \in IncidentStatus : Advance(u, i, token, to)
                 \/ \E resource \in Resources : AssignContainment(u, i, token, resource)

RemediationStep(u) ==
    \E i \in Incidents :
        \/ \E keys \in SUBSET Keys : CreatePlan(u, i, keys)
        \/ Approve(u, i)
        \/ \E a \in Actions, version \in 1..MaxVersion, success \in BOOLEAN :
              CompleteAction(u, i, a, version, success)

Next ==
    \/ Tick
    \/ \E u \in Users : Begin(u) \/ Reject(u) \/ CommandStep(u) \/ RemediationStep(u)

Spec == Init /\ [][Next]_vars

-----------------------------------------------------------------------------
TypeOK ==
    /\ clock \in Nat
    /\ begun \in [Users -> Nat \cup {None}]
    /\ incident \in [Incidents -> IncidentRow]
    /\ known \in [Users -> SUBSET (Incidents \X Nat)]
    /\ assignments \subseteq Incidents \X Resources \X AssignmentStatus
    /\ plan \in [Incidents -> PlanRow]
    /\ action \in [Actions -> ActionRow]
    /\ outbox \subseteq Incidents

\* The user whose call commits in this step.
Committing(u) == begun[u] # None /\ begun'[u] = None

CommandWritten(i) ==
    \/ incident[i].status \notin {"absent", incident'[i].status}
    \/ {a \in assignments' : a[1] = i} # {a \in assignments : a[1] = i}

(* README: "All command mutations verify the user, token, generation ...   *)
(* preventing an expired commander from writing after another claim."      *)
(* Phases and assignments are written only by the user who made the latest *)
(* claim, however late a call of an earlier commander arrives.             *)
WritesByLatestClaimant ==
    [][\A i \in Incidents : CommandWritten(i) =>
          \E u \in Supervisors : /\ Committing(u)
                                 /\ <<i, incident[i].gen>> \in known[u]
                                 /\ incident[i].commander = u]_vars

(* Command changes hands only after the lease of the present commander has *)
(* really run out, whatever `now' the claiming call captured and however   *)
(* SQL compares it.                                                        *)
NoLiveLeaseStolen ==
    [][\A i \in Incidents :
          incident[i].commander \notin {None, incident'[i].commander}
             => incident[i].expires <= clock]_vars

(* README: "Resolution is rejected until ... remediation actions are       *)
(* complete."  Of a resolved incident every remediation action succeeded,  *)
(* and stays so whatever calls are still in flight.                        *)
ResolvedActionsSucceeded ==
    \A i \in Incidents : incident[i].status = "resolved" => OpenActions(i) = {}

(* A plan in execution still names the supervisor who approved it.         *)
ApproverOnRecord ==
    \A i \in Incidents :
        plan[i].status \in {"approved", "executing"} => plan[i].approver \in Supervisors

(* An action that succeeded stays as it is: a completion that arrives late,*)
(* or twice, or through another plan, never turns it into a failure nor    *)
(* counts another attempt.                                                 *)
SuccessIsFinal ==
    [][\A a \in Actions : action[a].status = "succeeded" => action'[a] = action[a]]_vars

-----------------------------------------------------------------------------
(* README: "All command mutations verify the ... live lease."  The text    *)
(* comparison of the expiry is off by less than a second: an advance that  *)
(* commits after the lease ran out had a `now' in the second of its expiry.*)
ExpiredLeaseIsBarred ==
    [][\A i \in Incidents : incident[i].status \notin {"absent", incident'[i].status} =>
          \E u \in Supervisors : /\ Committing(u)
                                 /\ \/ incident[i].expires > begun[u]
                                    \/ second(incident[i].expires) = second(begun[u])]_vars

(* README: "Resolution is rejected until containment assignments ... are   *)
(* complete."  A resolved incident has no assignment left to do.           *)
ResolvedContainmentComplete ==
    \A i \in Incidents :
        incident[i].status = "resolved" => IncompleteAssignments(i) = {}
=============================================================================
