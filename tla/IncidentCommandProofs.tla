------------------------ MODULE IncidentCommandProofs -----------------------
(***************************************************************************)
(* Theorems about IncidentCommand, for any sets of users, incidents and    *)
(* actions and any lease.  What carries them: whoever holds command was    *)
(* given the incident's present token and a lease; no call is older than   *)
(* the clock; an incident without a plan has no actions.                   *)
(***************************************************************************)
EXTENDS IncidentCommand, TLAPS

\* The commander of an incident is the supervisor its last claim returned to.
CommandIsOnRecord(i) ==
    LET row == incident[i] IN
    row.commander # None =>
        /\ row.commander \in Supervisors
        /\ row.token = row.gen /\ <<i, row.gen>> \in known[row.commander]
        /\ row.expires \in Nat

\* A call in flight captured its `now' in the past.
CallsBeganBefore ==
    \A u \in Users : begun[u] # None => begun[u] <= clock

\* Actions come with their plan.
ActionsHaveAPlan ==
    \A a \in Actions : plan[a[1]].status = "absent" => action[a].status = "absent"

IInv ==
    /\ TypeOK
    /\ CallsBeganBefore
    /\ \A i \in Incidents : CommandIsOnRecord(i)
    /\ ActionsHaveAPlan
    /\ ResolvedActionsSucceeded
    /\ ApproverOnRecord

-----------------------------------------------------------------------------
(* The phases, listed.                                                     *)
LEMMA Statuses ==
    IncidentStatus = {"absent", "reported", "assessing", "contained", "remediating", "resolved"}
<1>1. {Phases[n] : n \in 1..5} = {Phases[1], Phases[2], Phases[3], Phases[4], Phases[5]}
  OBVIOUS
<1>. QED
  BY <1>1 DEF IncidentStatus, Phases

(* A transition leaves the phases that are not the last, and never returns *)
(* to the first.                                                           *)
LEMMA TransitionsMoveOn ==
    ASSUME NEW from, NEW to, CanTransition(from, to)
    PROVE  /\ from \in {"reported", "assessing", "contained", "remediating"}
           /\ to \in {"assessing", "contained", "remediating", "resolved"}
<1>1. PICK n \in 1..4 : from = Phases[n] /\ to = Phases[n + 1]
  BY DEF CanTransition
<1>2. n = 1 \/ n = 2 \/ n = 3 \/ n = 4
  OBVIOUS
<1>. QED
  BY <1>1, <1>2 DEF Phases

-----------------------------------------------------------------------------
LEMMA InitInv == Init => IInv
<1>. SUFFICES ASSUME Init PROVE IInv
  OBVIOUS
<1>1. AbsentIncident \in IncidentRow
  BY Statuses DEF AbsentIncident, IncidentRow
<1>2. [status |-> "absent", approver |-> None] \in PlanRow
  BY DEF PlanRow, RemediationStatus
<1>3. [status |-> "absent", attempts |-> 0, version |-> 0] \in ActionRow
  BY DEF ActionRow, ActionStatus
<1>4. TypeOK
  BY <1>1, <1>2, <1>3 DEF Init, TypeOK
<1>5. CallsBeganBefore /\ ActionsHaveAPlan
  BY DEF Init, CallsBeganBefore, ActionsHaveAPlan
<1>6. \A i \in Incidents : CommandIsOnRecord(i) /\ incident[i].status = "absent"
  BY DEF Init, CommandIsOnRecord, AbsentIncident
<1>7. ResolvedActionsSucceeded
  BY <1>6 DEF ResolvedActionsSucceeded
<1>8. ApproverOnRecord
  BY DEF Init, ApproverOnRecord
<1>. QED
  BY <1>4, <1>5, <1>6, <1>7, <1>8 DEF IInv

(* A step that writes no row and gives no command away.                    *)
LEMMA QuietInv ==
    ASSUME IInv, UNCHANGED <<known, dbVars>>, clock' \in Nat, clock' >= clock,
           begun' \in [Users -> Nat \cup {None}],
           \A u \in Users : begun'[u] \in {begun[u], clock, None}
    PROVE  IInv'
<1>1. TypeOK'
  BY DEF IInv, TypeOK, dbVars
<1>2. CallsBeganBefore'
  BY IncidentCommandAssumption DEF IInv, TypeOK, CallsBeganBefore
<1>3. \A i \in Incidents : CommandIsOnRecord(i)'
  BY DEF IInv, CommandIsOnRecord, dbVars
<1>4. (ActionsHaveAPlan /\ ResolvedActionsSucceeded /\ ApproverOnRecord)'
  BY DEF IInv, ActionsHaveAPlan, ResolvedActionsSucceeded, OpenActions, ApproverOnRecord, dbVars
<1>. QED
  BY <1>1, <1>2, <1>3, <1>4 DEF IInv

LEMMA TickInv ==
    ASSUME IInv, Tick
    PROVE  IInv'
<1>1. UNCHANGED <<known, dbVars>> /\ clock' \in Nat /\ clock' >= clock
  BY DEF Tick, IInv, TypeOK
<1>2. /\ begun' \in [Users -> Nat \cup {None}]
      /\ \A u \in Users : begun'[u] \in {begun[u], clock, None}
  BY DEF Tick, IInv, TypeOK
<1>. QED
  BY <1>1, <1>2, QuietInv

LEMMA BeginInv ==
    ASSUME IInv, NEW u \in Users, Begin(u)
    PROVE  IInv'
<1>1. UNCHANGED <<known, dbVars>> /\ clock' \in Nat /\ clock' >= clock
  BY DEF Begin, IInv, TypeOK
<1>2. /\ begun' \in [Users -> Nat \cup {None}]
      /\ \A v \in Users : begun'[v] \in {begun[v], clock, None}
  BY DEF Begin, IInv, TypeOK
<1>. QED
  BY <1>1, <1>2, QuietInv

LEMMA RejectInv ==
    ASSUME IInv, NEW u \in Users, Reject(u)
    PROVE  IInv'
<1>1. UNCHANGED <<known, dbVars>> /\ clock' \in Nat /\ clock' >= clock
  BY DEF Reject, IInv, TypeOK
<1>2. /\ begun' \in [Users -> Nat \cup {None}]
      /\ \A v \in Users : begun'[v] \in {begun[v], clock, None}
  BY DEF Reject, IInv, TypeOK
<1>. QED
  BY <1>1, <1>2, QuietInv

(* A commit ends the call of its user.                                     *)
LEMMA CommitEnds ==
    ASSUME IInv, NEW u \in Users, Commit(u), clock' = clock
    PROVE  /\ Committing(u) /\ CallsBeganBefore'
           /\ begun' \in [Users -> Nat \cup {None}]
           /\ begun[u] \in Nat /\ begun[u] <= clock
<1>1. /\ begun[u] # None /\ begun' = [begun EXCEPT ![u] = None]
      /\ begun \in [Users -> Nat \cup {None}]
  BY DEF Commit, IInv, TypeOK
<1>. QED
  BY <1>1 DEF IInv, CallsBeganBefore, Committing

-----------------------------------------------------------------------------
(* The status of an incident changes and its command does not.             *)
LEMMA StatusMoves ==
    ASSUME IInv, NEW i \in Incidents, NEW s \in IncidentStatus,
           incident' = [incident EXCEPT ![i].status = s], known' = known
    PROVE  /\ incident' \in [Incidents -> IncidentRow]
           /\ incident'[i].status = s
           /\ \A j \in Incidents \ {i} : incident'[j] = incident[j]
           /\ \A j \in Incidents : CommandIsOnRecord(j)'
<1>1. incident[i] \in IncidentRow /\ incident \in [Incidents -> IncidentRow]
  BY DEF IInv, TypeOK
<1>2. PICK row : row = [incident[i] EXCEPT !.status = s]
  OBVIOUS
<1>3. /\ row \in IncidentRow /\ row.status = s /\ row.commander = incident[i].commander
      /\ row.token = incident[i].token /\ row.gen = incident[i].gen
      /\ row.expires = incident[i].expires
  BY <1>1, <1>2 DEF IncidentRow
<1>4. incident' = [incident EXCEPT ![i] = row]
  BY <1>1, <1>2
<1>5. /\ incident'[i] = row /\ incident' \in [Incidents -> IncidentRow]
      /\ \A j \in Incidents \ {i} : incident'[j] = incident[j]
  BY <1>1, <1>3, <1>4
<1>6. \A j \in Incidents : CommandIsOnRecord(j)
  BY DEF IInv
<1>7. \A j \in Incidents : CommandIsOnRecord(j)'
  BY <1>3, <1>5, <1>6 DEF CommandIsOnRecord
<1>. QED
  BY <1>3, <1>5, <1>7

LEMMA ReportInv ==
    ASSUME IInv, NEW u \in Users, NEW i \in Incidents, Report(u, i)
    PROVE  IInv'
<1>1. /\ incident' = [incident EXCEPT ![i].status = "reported"]
      /\ outbox' = outbox \cup {i} /\ Commit(u)
      /\ UNCHANGED <<clock, known, assignments, plan, action>>
  BY DEF Report
<1>2. /\ incident' \in [Incidents -> IncidentRow] /\ incident'[i].status = "reported"
      /\ \A j \in Incidents \ {i} : incident'[j] = incident[j]
      /\ \A j \in Incidents : CommandIsOnRecord(j)'
  BY <1>1, Statuses, StatusMoves
<1>3. CallsBeganBefore' /\ begun' \in [Users -> Nat \cup {None}]
  BY <1>1, CommitEnds
<1>4. TypeOK'
  BY <1>1, <1>2, <1>3 DEF IInv, TypeOK
<1>5. ResolvedActionsSucceeded'
  BY <1>1, <1>2 DEF IInv, ResolvedActionsSucceeded, OpenActions
<1>6. (ActionsHaveAPlan /\ ApproverOnRecord)'
  BY <1>1 DEF IInv, ActionsHaveAPlan, ApproverOnRecord
<1>. QED
  BY <1>2, <1>3, <1>4, <1>5, <1>6 DEF IInv

(* Resolution waits for the actions, which are read in its transaction.    *)
LEMMA AdvanceInv ==
    ASSUME IInv, NEW u \in Users, NEW i \in Incidents, NEW token, NEW to \in IncidentStatus,
           Advance(u, i, token, to)
    PROVE  IInv'
<1>1. /\ incident' = [incident EXCEPT ![i].status = to] /\ Commit(u)
      /\ to = "resolved" => OpenActions(i) = {}
      /\ UNCHANGED <<clock, known, assignments, plan, action, outbox>>
  BY DEF Advance
<1>2. /\ incident' \in [Incidents -> IncidentRow] /\ incident'[i].status = to
      /\ \A j \in Incidents \ {i} : incident'[j] = incident[j]
      /\ \A j \in Incidents : CommandIsOnRecord(j)'
  BY <1>1, StatusMoves
<1>3. CallsBeganBefore' /\ begun' \in [Users -> Nat \cup {None}]
  BY <1>1, CommitEnds
<1>4. TypeOK'
  BY <1>1, <1>2, <1>3 DEF IInv, TypeOK
<1>5. ResolvedActionsSucceeded'
  BY <1>1, <1>2 DEF IInv, ResolvedActionsSucceeded, OpenActions
<1>6. (ActionsHaveAPlan /\ ApproverOnRecord)'
  BY <1>1 DEF IInv, ActionsHaveAPlan, ApproverOnRecord
<1>. QED
  BY <1>2, <1>3, <1>4, <1>5, <1>6 DEF IInv

(* A claim puts its own user, token, generation and expiry on record.      *)
LEMMA ClaimInv ==
    ASSUME IInv, NEW u \in Users, NEW i \in Incidents, Claim(u, i)
    PROVE  IInv'
<1>1. /\ begun[u] \in Nat /\ CallsBeganBefore' /\ begun' \in [Users -> Nat \cup {None}]
  BY CommitEnds DEF Claim
<1>2. incident[i] \in IncidentRow /\ incident \in [Incidents -> IncidentRow]
  BY DEF IInv, TypeOK
<1>3. PICK row : row = [incident[i] EXCEPT !.commander = u, !.gen = incident[i].gen + 1,
                                           !.token = incident[i].gen + 1,
                                           !.expires = begun[u] + Lease]
  OBVIOUS
<1>4. /\ row \in IncidentRow /\ row.status = incident[i].status /\ row.commander = u
      /\ row.token = row.gen /\ row.gen = incident[i].gen + 1 /\ row.gen \in Nat
      /\ row.expires \in Nat
  <2>1. incident[i].gen + 1 \in Nat /\ begun[u] + Lease \in Nat
    BY <1>1, <1>2, IncidentCommandAssumption DEF IncidentRow
  <2>. QED
    BY <1>2, <1>3, <2>1 DEF IncidentRow
<1>5. /\ u \in Supervisors
      /\ incident' = [incident EXCEPT ![i] = row]
      /\ known' = [known EXCEPT ![u] = known[u] \cup {<<i, row.gen>>}]
      /\ UNCHANGED <<clock, assignments, plan, action, outbox, trail>>
  BY <1>3, <1>4 DEF Claim
<1>6. /\ incident'[i] = row /\ incident' \in [Incidents -> IncidentRow]
      /\ \A j \in Incidents \ {i} : incident'[j] = incident[j]
      /\ \A j \in Incidents : incident'[j].status = incident[j].status
  BY <1>2, <1>4, <1>5
<1>7. /\ known' \in [Users -> SUBSET (Incidents \X Nat)]
      /\ <<i, row.gen>> \in known'[u] /\ \A v \in Users : known[v] \subseteq known'[v]
  BY <1>4, <1>5 DEF IInv, TypeOK
<1>8. \A j \in Incidents : CommandIsOnRecord(j)'
  <2>. SUFFICES ASSUME NEW j \in Incidents PROVE CommandIsOnRecord(j)'
    OBVIOUS
  <2>1. CASE j = i
    BY <2>1, <1>4, <1>5, <1>6, <1>7 DEF CommandIsOnRecord
  <2>2. CASE j # i
    <3>1. incident'[j] = incident[j] /\ CommandIsOnRecord(j)
      BY <2>2, <1>6 DEF IInv
    <3>. QED
      BY <3>1, <1>7 DEF CommandIsOnRecord, Users
  <2>. QED
    BY <2>1, <2>2
<1>9. TypeOK'
  BY <1>1, <1>5, <1>6, <1>7 DEF IInv, TypeOK
<1>10. (ActionsHaveAPlan /\ ResolvedActionsSucceeded /\ ApproverOnRecord)'
  BY <1>5, <1>6 DEF IInv, ActionsHaveAPlan, ResolvedActionsSucceeded, OpenActions, ApproverOnRecord
<1>. QED
  BY <1>1, <1>8, <1>9, <1>10 DEF IInv

LEMMA AssignContainmentInv ==
    ASSUME IInv, NEW u \in Users, NEW i \in Incidents, NEW token, NEW resource \in Resources,
           AssignContainment(u, i, token, resource)
    PROVE  IInv'
<1>1. /\ assignments' = assignments \cup {<<i, resource, "pending">>} /\ Commit(u)
      /\ UNCHANGED <<clock, incident, known, plan, action, outbox>>
  BY DEF AssignContainment
<1>2. CallsBeganBefore' /\ begun' \in [Users -> Nat \cup {None}]
  BY <1>1, CommitEnds
<1>3. TypeOK'
  BY <1>1, <1>2 DEF IInv, TypeOK, AssignmentStatus
<1>4. \A j \in Incidents : CommandIsOnRecord(j)'
  BY <1>1 DEF IInv, CommandIsOnRecord
<1>5. (ActionsHaveAPlan /\ ResolvedActionsSucceeded /\ ApproverOnRecord)'
  BY <1>1 DEF IInv, ActionsHaveAPlan, ResolvedActionsSucceeded, OpenActions, ApproverOnRecord
<1>. QED
  BY <1>2, <1>3, <1>4, <1>5 DEF IInv

-----------------------------------------------------------------------------
(* No plan is made for a resolved incident.                                *)
LEMMA CreatePlanInv ==
    ASSUME IInv, NEW u \in Users, NEW i \in Incidents, NEW keys \in SUBSET Keys,
           CreatePlan(u, i, keys)
    PROVE  IInv'
<1>. DEFINE new == [status |-> "pending", attempts |-> 0, version |-> 1]
<1>1. /\ Remediable(i) /\ Commit(u)
      /\ plan' = [plan EXCEPT ![i].status = "draft"]
      /\ action' = [a \in Actions |-> IF a[1] = i /\ a[2] \in keys THEN new ELSE action[a]]
      /\ UNCHANGED <<clock, incident, known, assignments, outbox>>
  BY DEF CreatePlan
<1>2. CallsBeganBefore' /\ begun' \in [Users -> Nat \cup {None}]
  BY <1>1, CommitEnds
<1>3. new \in ActionRow /\ new.status = "pending"
  BY DEF ActionRow, ActionStatus
<1>. HIDE DEF new
<1>4. \A a \in Actions : action'[a] = IF a[1] = i /\ a[2] \in keys THEN new ELSE action[a]
  BY <1>1
<1>5. /\ plan' \in [Incidents -> PlanRow] /\ plan'[i].status = "draft"
      /\ \A j \in Incidents \ {i} : plan'[j] = plan[j]
  BY <1>1 DEF IInv, TypeOK, PlanRow, RemediationStatus
<1>6. action' \in [Actions -> ActionRow]
  BY <1>1, <1>3 DEF IInv, TypeOK
<1>7. TypeOK'
  BY <1>1, <1>2, <1>5, <1>6 DEF IInv, TypeOK
<1>8. \A j \in Incidents : CommandIsOnRecord(j)'
  BY <1>1 DEF IInv, CommandIsOnRecord
<1>9. ActionsHaveAPlan'
  BY <1>3, <1>4, <1>5 DEF IInv, ActionsHaveAPlan, Actions
<1>10. ResolvedActionsSucceeded'
  <2>. SUFFICES ASSUME NEW j \in Incidents, incident[j].status = "resolved"
                PROVE  OpenActions(j)' = {}
    BY <1>1 DEF ResolvedActionsSucceeded
  <2>1. j # i
    BY <1>1 DEF Remediable
  <2>2. \A k \in Keys : action'[<<j, k>>] = action[<<j, k>>]
    BY <2>1, <1>4 DEF Actions
  <2>. QED
    BY <2>2 DEF IInv, ResolvedActionsSucceeded, OpenActions
<1>11. ApproverOnRecord'
  BY <1>5 DEF IInv, ApproverOnRecord
<1>. QED
  BY <1>2, <1>7, <1>8, <1>9, <1>10, <1>11 DEF IInv

LEMMA ApproveInv ==
    ASSUME IInv, NEW u \in Users, NEW i \in Incidents, Approve(u, i)
    PROVE  IInv'
<1>1. /\ u \in Supervisors /\ Commit(u)
      /\ plan' = [plan EXCEPT ![i] = [status |-> "approved", approver |-> u]]
      /\ UNCHANGED <<clock, incident, known, assignments, action, outbox>>
  BY DEF Approve
<1>2. CallsBeganBefore' /\ begun' \in [Users -> Nat \cup {None}]
  BY <1>1, CommitEnds
<1>3. /\ plan' \in [Incidents -> PlanRow]
      /\ plan'[i].status = "approved" /\ plan'[i].approver = u
      /\ \A j \in Incidents \ {i} : plan'[j] = plan[j]
  BY <1>1 DEF IInv, TypeOK, PlanRow, RemediationStatus
<1>4. TypeOK'
  BY <1>1, <1>2, <1>3 DEF IInv, TypeOK
<1>5. \A j \in Incidents : CommandIsOnRecord(j)'
  BY <1>1 DEF IInv, CommandIsOnRecord
<1>6. ActionsHaveAPlan'
  BY <1>1, <1>3 DEF IInv, ActionsHaveAPlan, Actions
<1>7. ResolvedActionsSucceeded'
  BY <1>1 DEF IInv, ResolvedActionsSucceeded, OpenActions
<1>8. ApproverOnRecord'
  BY <1>1, <1>3 DEF IInv, ApproverOnRecord
<1>. QED
  BY <1>2, <1>4, <1>5, <1>6, <1>7, <1>8 DEF IInv

(* Only an open action is completed, and a resolved incident has none.     *)
LEMMA CompleteActionInv ==
    ASSUME IInv, NEW u \in Users, NEW i \in Incidents, NEW a \in Actions,
           NEW version \in Nat, NEW success \in BOOLEAN,
           CompleteAction(u, i, a, version, success)
    PROVE  IInv'
<1>1. PICK row : row = Completed(action[a], success)
  OBVIOUS
<1>2. /\ Commit(u) /\ plan[i].status \in {"approved", "executing"}
      /\ action[a].status \in {"pending", "in_progress", "failed"}
      /\ action' = [action EXCEPT ![a] = row]
      /\ plan' = IF plan[i].status = "approved"
                 THEN [plan EXCEPT ![i] = Executing(plan[i])] ELSE plan
      /\ UNCHANGED <<clock, incident, known, assignments, outbox>>
  BY <1>1 DEF CompleteAction, Completable
<1>3. CallsBeganBefore' /\ begun' \in [Users -> Nat \cup {None}]
  BY <1>2, CommitEnds
<1>4. action[a] \in ActionRow /\ action \in [Actions -> ActionRow]
  BY DEF IInv, TypeOK
<1>5. row \in ActionRow
  BY <1>1, <1>4 DEF Completed, ActionRow, ActionStatus
<1>6. /\ action' \in [Actions -> ActionRow]
      /\ \A b \in Actions \ {a} : action'[b] = action[b]
  BY <1>2, <1>4, <1>5
<1>7. /\ plan' \in [Incidents -> PlanRow]
      /\ plan'[i].status = "executing" /\ plan'[i].approver = plan[i].approver
      /\ \A j \in Incidents \ {i} : plan'[j] = plan[j]
  <2>1. plan[i] \in PlanRow /\ plan \in [Incidents -> PlanRow]
    BY DEF IInv, TypeOK
  <2>2. PICK x : x = Executing(plan[i])
    OBVIOUS
  <2>3. x \in PlanRow /\ x.status = "executing" /\ x.approver = plan[i].approver
    BY <2>1, <2>2 DEF Executing, PlanRow, RemediationStatus
  <2>. QED
    BY <1>2, <2>1, <2>2, <2>3
<1>8. TypeOK'
  BY <1>2, <1>3, <1>6, <1>7 DEF IInv, TypeOK
<1>9. \A j \in Incidents : CommandIsOnRecord(j)'
  BY <1>2 DEF IInv, CommandIsOnRecord
<1>10. ActionsHaveAPlan'
  <2>. SUFFICES ASSUME NEW b \in Actions, plan'[b[1]].status = "absent"
                PROVE  action'[b].status = "absent"
    BY DEF ActionsHaveAPlan
  <2>1. b[1] \in Incidents /\ b[1] # i /\ plan'[b[1]] = plan[b[1]]
    BY <1>7 DEF Actions
  <2>2. action[b].status = "absent"
    BY <2>1 DEF IInv, ActionsHaveAPlan
  <2>. QED
    BY <2>2, <1>2, <1>6
<1>11. ResolvedActionsSucceeded'
  <2>. SUFFICES ASSUME NEW j \in Incidents, incident[j].status = "resolved"
                PROVE  OpenActions(j)' = {}
    BY <1>2 DEF ResolvedActionsSucceeded
  <2>1. OpenActions(j) = {}
    BY DEF IInv, ResolvedActionsSucceeded
  <2>2. \A k \in Keys : <<j, k>> \in Actions /\ <<j, k>> # a
    BY <2>1, <1>2 DEF OpenActions, Actions
  <2>. QED
    BY <2>1, <2>2, <1>6 DEF OpenActions
<1>12. ApproverOnRecord'
  BY <1>2, <1>7 DEF IInv, ApproverOnRecord
<1>. QED
  BY <1>3, <1>8, <1>9, <1>10, <1>11, <1>12 DEF IInv

-----------------------------------------------------------------------------
LEMMA StepInv == IInv /\ [Next]_vars => IInv'
<1>. SUFFICES ASSUME IInv, [Next]_vars PROVE IInv'
  OBVIOUS
<1>1. CASE UNCHANGED vars
  <2>1. clock' \in Nat /\ clock' >= clock
    BY <1>1 DEF vars, IInv, TypeOK
  <2>2. /\ begun' \in [Users -> Nat \cup {None}]
        /\ \A u \in Users : begun'[u] \in {begun[u], clock, None}
    BY <1>1 DEF vars, IInv, TypeOK
  <2>. QED
    BY <1>1, <2>1, <2>2, QuietInv DEF vars
<1>2. CASE Tick
  BY <1>2, TickInv
<1>3. ASSUME NEW u \in Users, CommandStep(u)
      PROVE  IInv'
  BY <1>3, ReportInv, ClaimInv, AdvanceInv, AssignContainmentInv DEF CommandStep
<1>4. ASSUME NEW u \in Users, RemediationStep(u)
      PROVE  IInv'
  <2>1. 1..MaxVersion \subseteq Nat
    OBVIOUS
  <2>. QED
    BY <1>4, <2>1, CreatePlanInv, ApproveInv, CompleteActionInv DEF RemediationStep
<1>. QED
  BY <1>1, <1>2, <1>3, <1>4, BeginInv, RejectInv DEF Next

(* The inductive invariant holds of every state a behaviour reaches.       *)
THEOREM Invariance == Spec => []IInv
BY InitInv, StepInv, PTL DEF Spec

(* Every row, claim and call in flight keeps its type.                     *)
THEOREM TypeCorrect == Spec => []TypeOK
<1>1. IInv => TypeOK
  BY DEF IInv
<1>. QED
  BY <1>1, Invariance, PTL

(* A resolved incident has no remediation action left undone, and no plan, *)
(* action or late completion ever adds one (Service.Advance, CreatePlan,   *)
(* CompleteAction).                                                        *)
THEOREM ResolutionIsFinal == Spec => []ResolvedActionsSucceeded
<1>1. IInv => ResolvedActionsSucceeded
  BY DEF IInv
<1>. QED
  BY <1>1, Invariance, PTL

(* The transition to executing keeps the approver (COALESCE).              *)
THEOREM ApproverIsKept == Spec => []ApproverOnRecord
<1>1. IInv => ApproverOnRecord
  BY DEF IInv
<1>. QED
  BY <1>1, Invariance, PTL

-----------------------------------------------------------------------------
(* Which calls write an incident's row, its assignments, and the actions.  *)
LEMMA IncidentWrites ==
    ASSUME IInv, Next, NEW i \in Incidents, incident'[i] # incident[i]
    PROVE  \E u \in Users :
             \/ Report(u, i)
             \/ Claim(u, i)
             \/ \E token \in Nat, to \in IncidentStatus : Advance(u, i, token, to)
<1>1. PICK u \in Users : CommandStep(u)
  BY DEF Next, Tick, Begin, Reject, RemediationStep, CreatePlan, Approve, CompleteAction, dbVars
<1>2. PICK j \in Incidents :
         \/ Report(u, j) \/ Claim(u, j)
         \/ \E token \in 1..MaxGeneration, to \in IncidentStatus : Advance(u, j, token, to)
  BY <1>1 DEF CommandStep, AssignContainment
<1>3. 1..MaxGeneration \subseteq Nat
  OBVIOUS
<1>4. j = i
  <2>1. incident' = [incident EXCEPT ![j] = incident'[j]]
    BY <1>2 DEF Report, Claim, Advance, IInv, TypeOK
  <2>. QED
    BY <2>1 DEF IInv, TypeOK
<1>. QED
  BY <1>2, <1>3, <1>4

LEMMA AssignmentWrites ==
    ASSUME IInv, Next, NEW i \in Incidents,
           {a \in assignments' : a[1] = i} # {a \in assignments : a[1] = i}
    PROVE  \E u \in Users, token \in Nat, resource \in Resources :
             AssignContainment(u, i, token, resource)
<1>1. PICK u \in Users : CommandStep(u)
  BY DEF Next, Tick, Begin, Reject, RemediationStep, CreatePlan, Approve, CompleteAction, dbVars
<1>2. PICK j \in Incidents, token \in 1..MaxGeneration, resource \in Resources :
         AssignContainment(u, j, token, resource)
  BY <1>1 DEF CommandStep, Report, Claim, Advance
<1>3. token \in Nat
  OBVIOUS
<1>4. j = i
  BY <1>2 DEF AssignContainment
<1>. QED
  BY <1>2, <1>3, <1>4

(* Phases and assignments are written under the token of the latest claim  *)
(* only, by whom it was returned to: no call of an earlier commander that  *)
(* arrives late writes (TransitionIncident, AssignContainment).            *)
THEOREM CommandIsFenced == Spec => WritesByLatestClaimant
<1>. DEFINE A == \A i \in Incidents : CommandWritten(i) =>
                    \E u \in Supervisors : /\ Committing(u)
                                           /\ <<i, incident[i].gen>> \in known[u]
                                           /\ incident[i].commander = u
<1>1. IInv /\ [Next]_vars => [A]_vars
  <2>. SUFFICES ASSUME IInv, Next, NEW i \in Incidents, CommandWritten(i)
                PROVE  \E u \in Supervisors : /\ Committing(u)
                                              /\ <<i, incident[i].gen>> \in known[u]
                                              /\ incident[i].commander = u
    OBVIOUS
  <2>1. incident[i] \in IncidentRow /\ CommandIsOnRecord(i)
    BY DEF IInv, TypeOK
  <2>2. CASE incident[i].status \notin {"absent", incident'[i].status}
    <3>1. PICK u \in Users :
             \/ Report(u, i) \/ Claim(u, i)
             \/ \E token \in Nat, to \in IncidentStatus : Advance(u, i, token, to)
      BY <2>2, IncidentWrites
    <3>2. ~Report(u, i)
      BY <2>2 DEF Report
    <3>3. ~Claim(u, i)
      <4>. SUFFICES ASSUME Claim(u, i) PROVE incident'[i].status = incident[i].status
        BY <2>2
      <4>. QED
        BY <2>1 DEF Claim, IInv, TypeOK, IncidentRow
    <3>4. PICK token \in Nat, to \in IncidentStatus : Advance(u, i, token, to)
      BY <3>1, <3>2, <3>3
    <3>5. u \in Supervisors /\ incident[i].commander = u /\ u # None /\ Commit(u) /\ clock' = clock
      BY <3>4, IncidentCommandAssumption DEF Advance, HoldsCommand
    <3>. QED
      BY <2>1, <3>5, CommitEnds DEF CommandIsOnRecord
  <2>3. CASE {a \in assignments' : a[1] = i} # {a \in assignments : a[1] = i}
    <3>1. PICK u \in Users, token \in Nat, resource \in Resources :
             AssignContainment(u, i, token, resource)
      BY <2>3, AssignmentWrites
    <3>2. u \in Supervisors /\ incident[i].commander = u /\ u # None /\ Commit(u) /\ clock' = clock
      BY <3>1, IncidentCommandAssumption DEF AssignContainment
    <3>. QED
      BY <2>1, <3>2, CommitEnds DEF CommandIsOnRecord
  <2>. QED
    BY <2>2, <2>3 DEF CommandWritten
<1>. QED
  BY <1>1, Invariance, PTL DEF Spec, WritesByLatestClaimant

(* A claim takes command from another user only when the lease has run out *)
(* by the clock, not just by the instant the call captured (ClaimIncident).*)
THEOREM LeasesAreRespected == Spec => NoLiveLeaseStolen
<1>. DEFINE A == \A i \in Incidents :
                    incident[i].commander \notin {None, incident'[i].commander}
                       => incident[i].expires <= clock
<1>1. IInv /\ [Next]_vars => [A]_vars
  <2>. SUFFICES ASSUME IInv, Next, NEW i \in Incidents,
                       incident[i].commander \notin {None, incident'[i].commander}
                PROVE  incident[i].expires <= clock
    OBVIOUS
  <2>1. incident[i] \in IncidentRow /\ CommandIsOnRecord(i)
    BY DEF IInv, TypeOK
  <2>2. PICK u \in Users :
             \/ Report(u, i) \/ Claim(u, i)
             \/ \E token \in Nat, to \in IncidentStatus : Advance(u, i, token, to)
    BY IncidentWrites
  <2>3. ~Report(u, i)
    <3>. SUFFICES ASSUME Report(u, i) PROVE incident'[i].commander = incident[i].commander
      OBVIOUS
    <3>. QED
      BY <2>1 DEF Report, IInv, TypeOK, IncidentRow
  <2>4. ASSUME NEW token \in Nat, NEW to \in IncidentStatus PROVE ~Advance(u, i, token, to)
    <3>. SUFFICES ASSUME Advance(u, i, token, to)
                  PROVE  incident'[i].commander = incident[i].commander
      OBVIOUS
    <3>. QED
      BY <2>1 DEF Advance, IInv, TypeOK, IncidentRow
  <2>5. Claim(u, i)
    BY <2>2, <2>3, <2>4
  <2>6. incident'[i].commander = u
    BY <2>1, <2>5 DEF Claim, IInv, TypeOK, IncidentRow
  <2>7. begun[u] \in Nat /\ begun[u] <= clock
    BY <2>5, CommitEnds DEF Claim
  <2>8. incident[i].expires \in Nat /\ incident[i].commander # u
    BY <2>1, <2>6 DEF CommandIsOnRecord
  <2>9. incident[i].expires <= begun[u]
    BY <2>5, <2>8, IncidentCommandAssumption DEF Claim, Vacant
  <2>. QED
    BY <2>7, <2>8, <2>9 DEF IInv, TypeOK
<1>. QED
  BY <1>1, Invariance, PTL DEF Spec, NoLiveLeaseStolen

(* A phase is advanced under a lease that had not run out when the call    *)
(* read the clock, but for the second in which text misorders.             *)
THEOREM AdvancesNeedALease == Spec => ExpiredLeaseIsBarred
<1>. DEFINE A == \A i \in Incidents : incident[i].status \notin {"absent", incident'[i].status} =>
                    \E u \in Supervisors : /\ Committing(u)
                                           /\ \/ incident[i].expires > begun[u]
                                              \/ second(incident[i].expires) = second(begun[u])
<1>1. IInv /\ [Next]_vars => [A]_vars
  <2>. SUFFICES ASSUME IInv, Next, NEW i \in Incidents,
                       incident[i].status \notin {"absent", incident'[i].status}
                PROVE  \E u \in Supervisors :
                         /\ Committing(u)
                         /\ \/ incident[i].expires > begun[u]
                            \/ second(incident[i].expires) = second(begun[u])
    OBVIOUS
  <2>1. incident[i] \in IncidentRow /\ CommandIsOnRecord(i)
    BY DEF IInv, TypeOK
  <2>2. PICK u \in Users :
           \/ Report(u, i) \/ Claim(u, i)
           \/ \E token \in Nat, to \in IncidentStatus : Advance(u, i, token, to)
    BY IncidentWrites
  <2>3. ~Report(u, i)
    BY DEF Report
  <2>4. ~Claim(u, i)
    <3>. SUFFICES ASSUME Claim(u, i) PROVE incident'[i].status = incident[i].status
      OBVIOUS
    <3>. QED
      BY <2>1 DEF Claim, IInv, TypeOK, IncidentRow
  <2>5. PICK token \in Nat, to \in IncidentStatus : Advance(u, i, token, to)
    BY <2>2, <2>3, <2>4
  <2>6. /\ u \in Supervisors /\ Commit(u) /\ clock' = clock
        /\ incident[i].expires # None /\ TextLess(begun[u], incident[i].expires)
    BY <2>5 DEF Advance, HoldsCommand
  <2>7. Committing(u) /\ begun[u] \in Nat
    BY <2>6, CommitEnds
  <2>8. incident[i].expires \in Nat
    BY <2>1, <2>6 DEF IncidentRow
  <2>9. incident[i].expires > begun[u] \/ second(incident[i].expires) = second(begun[u])
    BY <2>6, <2>7, <2>8 DEF TextLess, second
  <2>. QED
    BY <2>6, <2>7, <2>9
<1>. QED
  BY <1>1, Invariance, PTL DEF Spec, ExpiredLeaseIsBarred

(* A succeeded action is never written again: not by a late or repeated    *)
(* completion, nor by a plan made anew (CompleteRemediationAction).        *)
THEOREM SuccessesStand == Spec => SuccessIsFinal
<1>. DEFINE A == \A a \in Actions : action[a].status = "succeeded" => action'[a] = action[a]
<1>1. IInv /\ [Next]_vars => [A]_vars
  <2>. SUFFICES ASSUME IInv, Next, NEW a \in Actions, action[a].status = "succeeded"
                PROVE  action'[a] = action[a]
    OBVIOUS
  <2>1. CASE action' = action
    BY <2>1
  <2>2. ASSUME NEW u \in Users, NEW i \in Incidents, NEW keys \in SUBSET Keys,
               CreatePlan(u, i, keys)
        PROVE  action'[a] = action[a]
    <3>1. plan[a[1]].status # "absent"
      BY DEF IInv, ActionsHaveAPlan
    <3>2. a[1] # i
      BY <2>2, <3>1 DEF CreatePlan
    <3>. QED
      BY <2>2, <3>2 DEF CreatePlan
  <2>3. ASSUME NEW u \in Users, NEW i \in Incidents, NEW b \in Actions, NEW version, NEW success,
               CompleteAction(u, i, b, version, success)
        PROVE  action'[a] = action[a]
    <3>1. a # b
      BY <2>3 DEF CompleteAction, Completable
    <3>. QED
      BY <2>3, <3>1 DEF CompleteAction, IInv, TypeOK
  <2>4. ASSUME NEW u \in Users, RemediationStep(u)
        PROVE  action'[a] = action[a]
    BY <2>1, <2>2, <2>3, <2>4 DEF RemediationStep, Approve
  <2>5. ASSUME NEW u \in Users, CommandStep(u)
        PROVE  action' = action
    BY <2>5 DEF CommandStep, Report, Claim, Advance, AssignContainment
  <2>. QED
    BY <2>1, <2>4, <2>5 DEF Next, Tick, Begin, Reject, dbVars
<1>. QED
  BY <1>1, Invariance, PTL DEF Spec, SuccessIsFinal
=============================================================================
