---------------------- MODULE ExceedanceResponseProofs ----------------------
(***************************************************************************)
(* The composition of review, incident command and permits: a permit comes *)
(* into force only when every confirmed exceedance is remedied.  The       *)
(* invariant of SampleChainProofs says which incidents there are; what is  *)
(* added here says how their rows and their actions go with them.          *)
(***************************************************************************)
EXTENDS ExceedanceResponse, SampleChainProofs

\* The tables the argument reads, of the two modules composed with the chain.
ResponseTypeOK ==
    /\ clock \in Nat
    /\ begun \in [Command!Users -> Nat \cup {None}]
    /\ incident \in [Results -> Command!IncidentRow]
    /\ remediationAction \in [Command!Actions -> Command!ActionRow]
    /\ permit \in [Permits -> Control!PermitRow]

\* An incident row is there exactly for the incidents that reviews inserted.
IncidentsHaveRows ==
    \A r \in Results : r \in incidents <=> incident[r].status # "absent"

\* An incident is resolved with no action open, and no action is added to it,
\* nor does one that succeeded change, afterwards.
ResolvedIsRemedied ==
    \A r \in Results :
        incident[r].status = "resolved" =>
            \A k \in Keys : remediationAction[<<r, k>>].status \in {"absent", "succeeded"}

ResponseIInv ==
    /\ IInv
    /\ ResponseTypeOK
    /\ IsFiniteSet(incidents)
    /\ IncidentsHaveRows
    /\ ResolvedIsRemedied

-----------------------------------------------------------------------------
(* The phases of IncidentCommand, listed.                                  *)
LEMMA CommandStatuses ==
    Command!IncidentStatus =
        {"absent", "reported", "assessing", "contained", "remediating", "resolved"}
<1>. DEFINE P == <<"reported", "assessing", "contained", "remediating", "resolved">>
<1>1. {P[n] : n \in 1..5} = {P[1], P[2], P[3], P[4], P[5]}
  OBVIOUS
<1>. QED
  BY <1>1 DEF Command!IncidentStatus, Command!Phases

(* A transition neither leaves absent nor leads to it.                     *)
LEMMA CommandMovesOn ==
    ASSUME NEW from, NEW to, Command!CanTransition(from, to)
    PROVE  from # "absent" /\ to # "absent" /\ to \in Command!IncidentStatus
<1>1. PICK n \in 1..4 : from = Command!Phases[n] /\ to = Command!Phases[n + 1]
  BY DEF Command!CanTransition
<1>2. n = 1 \/ n = 2 \/ n = 3 \/ n = 4
  OBVIOUS
<1>. QED
  BY <1>1, <1>2, CommandStatuses DEF Command!Phases

LEMMA ResponseInitInv == ResponseInit => ResponseIInv
<1>. SUFFICES ASSUME ResponseInit PROVE ResponseIInv
  OBVIOUS
<1>1. IInv
  BY InitInv DEF ResponseInit
<1>2. Command!AbsentIncident \in Command!IncidentRow
  BY CommandStatuses DEF Command!AbsentIncident, Command!IncidentRow
<1>3. ResponseTypeOK
  BY <1>2 DEF ResponseInit, ResponseTypeOK, Command!Init, Command!ActionRow, Command!ActionStatus,
              Control!PermitRow, Control!PermitStatus
<1>4. IsFiniteSet(incidents) /\ IncidentsHaveRows
  BY FS_EmptySet DEF ResponseInit, Init, Command!Init, Command!AbsentIncident, IncidentsHaveRows
<1>5. ResolvedIsRemedied
  BY DEF ResponseInit, Command!Init, Command!AbsentIncident, ResolvedIsRemedied
<1>. QED
  BY <1>1, <1>3, <1>4, <1>5 DEF ResponseIInv

-----------------------------------------------------------------------------
(* A step of the chain adds at most one incident, and takes none away.     *)
LEMMA ReviewsAddOne ==
    ASSUME Next
    PROVE  UNCHANGED incidents \/ \E r \in Results : incidents' = incidents \cup {r}
<1>1. CASE SamplingStep
  <2>1. PICK p \in Plans :
            \/ CreatePlan(p) \/ PublishPlan(p)
            \/ \E u \in Users, at \in Instants : Collect(p, u, at)
            \/ \E u, receiver \in Users : Handoff(p, u, receiver)
    BY <1>1 DEF SamplingStep
  <2>2. CASE CreatePlan(p) \/ PublishPlan(p)
    BY <2>2 DEF CreatePlan, PublishPlan
  <2>3. CASE \E u \in Users, at \in Instants : Collect(p, u, at)
    BY <2>3 DEF Collect
  <2>4. CASE \E u, receiver \in Users : Handoff(p, u, receiver)
    BY <2>4 DEF Handoff
  <2>. QED
    BY <2>1, <2>2, <2>3, <2>4
<1>2. CASE LaboratoryStep
  <2>1. PICK r \in Results, u \in Users :
            RecordResult(r, u) \/ Submit(r, u) \/ ReviewApprove(r, u) \/ ReviewReject(r, u)
    BY <1>2 DEF LaboratoryStep
  <2>2. CASE ReviewApprove(r, u)
    BY <2>2 DEF ReviewApprove, Exceedance
  <2>3. CASE RecordResult(r, u) \/ Submit(r, u) \/ ReviewReject(r, u)
    BY <2>3 DEF RecordResult, Submit, ReviewReject
  <2>. QED
    BY <2>1, <2>2, <2>3
<1>. QED
  BY <1>1, <1>2 DEF Next

LEMMA ChainAddsIncidents ==
    ASSUME IInv, Next, IsFiniteSet(incidents)
    PROVE  IsFiniteSet(incidents') /\ incidents \subseteq incidents'
<1>1. CASE UNCHANGED incidents
  BY <1>1
<1>2. CASE \E r \in Results : incidents' = incidents \cup {r}
  BY <1>2, FS_AddElement
<1>. QED
  BY <1>1, <1>2, ReviewsAddOne

LEMMA ChainStepInv ==
    ASSUME ResponseIInv, ChainStep
    PROVE  ResponseIInv'
<1>1. PICK new \in Command!IncidentRow :
          /\ new = [Command!AbsentIncident EXCEPT !.status = "reported"]
          /\ new.status = "reported"
  <2>. DEFINE row == [Command!AbsentIncident EXCEPT !.status = "reported"]
  <2>1. row \in Command!IncidentRow /\ row.status = "reported"
    BY CommandStatuses DEF Command!AbsentIncident, Command!IncidentRow
  <2>. QED
    BY <2>1
<1>2. /\ Next /\ UNCHANGED <<clock, begun, remediationAction, permit>>
      /\ incident' = [r \in Results |-> IF r \in incidents' \ incidents THEN new ELSE incident[r]]
  BY <1>1 DEF ChainStep, InsertIncidents, permitVars
<1>3. \A r \in Results : incident'[r] = IF r \in incidents' \ incidents THEN new ELSE incident[r]
  BY <1>2
<1>4. IInv' /\ IsFiniteSet(incidents') /\ incidents \subseteq incidents'
  BY <1>2, NextInv, ChainAddsIncidents DEF ResponseIInv
<1>5. ResponseTypeOK'
  BY <1>2, <1>3 DEF ResponseIInv, ResponseTypeOK
<1>6. IncidentsHaveRows'
  BY <1>1, <1>3, <1>4 DEF ResponseIInv, IncidentsHaveRows
<1>7. ResolvedIsRemedied'
  BY <1>1, <1>2, <1>3 DEF ResponseIInv, ResolvedIsRemedied
<1>. QED
  BY <1>4, <1>5, <1>6, <1>7 DEF ResponseIInv

-----------------------------------------------------------------------------
(* A call that commits.                                                    *)
LEMMA ResponseCommits ==
    ASSUME ResponseTypeOK, NEW u \in Command!Users, Command!Commit(u)
    PROVE  begun[u] \in Nat /\ begun' \in [Command!Users -> Nat \cup {None}]
BY DEF ResponseTypeOK, Command!Commit

(* A step of the command that leaves the actions alone keeps everything if *)
(* no incident appears, disappears or is resolved with an action open.     *)
LEMMA IncidentMovesInv ==
    ASSUME ResponseIInv, UNCHANGED <<vars, remediationAction, permit>>,
           clock' \in Nat, begun' \in [Command!Users -> Nat \cup {None}],
           incident' \in [Results -> Command!IncidentRow],
           \A r \in Results : incident'[r].status = "absent" <=> incident[r].status = "absent",
           \A r \in Results : incident'[r].status = "resolved" =>
               incident[r].status = "resolved" \/ Command!OpenActions(r) = {}
    PROVE  ResponseIInv'
<1>1. IInv' /\ UNCHANGED incidents
  BY StutterInv DEF ResponseIInv, vars
<1>2. ResponseTypeOK'
  BY DEF ResponseIInv, ResponseTypeOK
<1>3. IncidentsHaveRows'
  BY <1>1 DEF ResponseIInv, IncidentsHaveRows
<1>4. ResolvedIsRemedied'
  BY DEF ResponseIInv, ResolvedIsRemedied, Command!OpenActions
<1>. QED
  BY <1>1, <1>2, <1>3, <1>4 DEF ResponseIInv

LEMMA ClaimKeepsInv ==
    ASSUME ResponseIInv, UNCHANGED <<vars, permitVars>>,
           NEW u \in Command!Users, NEW r \in Results, Command!Claim(u, r)
    PROVE  ResponseIInv'
<1>1. begun[u] \in Nat /\ begun' \in [Command!Users -> Nat \cup {None}]
  BY ResponseCommits DEF Command!Claim, ResponseIInv
<1>2. incident[r] \in Command!IncidentRow /\ incident \in [Results -> Command!IncidentRow]
  BY DEF ResponseIInv, ResponseTypeOK
<1>3. PICK row : row = [incident[r] EXCEPT !.commander = u, !.gen = incident[r].gen + 1,
                                           !.token = incident[r].gen + 1,
                                           !.expires = begun[u] + Lease]
  OBVIOUS
<1>4. row \in Command!IncidentRow /\ row.status = incident[r].status
  <2>1. incident[r].gen + 1 \in Nat /\ begun[u] + Lease \in Nat
    BY <1>1, <1>2, ExceedanceResponseAssumption DEF Command!IncidentRow
  <2>. QED
    BY <1>2, <1>3, <2>1 DEF Command!IncidentRow
<1>5. incident' = [incident EXCEPT ![r] = row] /\ UNCHANGED <<clock, remediationAction>>
  BY <1>3 DEF Command!Claim
<1>6. /\ incident' \in [Results -> Command!IncidentRow]
      /\ \A q \in Results : incident'[q].status = incident[q].status
  BY <1>2, <1>4, <1>5
<1>. QED
  BY <1>1, <1>5, <1>6, IncidentMovesInv DEF ResponseIInv, ResponseTypeOK, permitVars

LEMMA AdvanceKeepsInv ==
    ASSUME ResponseIInv, UNCHANGED <<vars, permitVars>>,
           NEW u \in Command!Users, NEW r \in Results, NEW token, NEW to,
           Command!Advance(u, r, token, to)
    PROVE  ResponseIInv'
<1>1. begun' \in [Command!Users -> Nat \cup {None}]
  BY ResponseCommits DEF Command!Advance, ResponseIInv
<1>2. incident[r] \in Command!IncidentRow /\ incident \in [Results -> Command!IncidentRow]
  BY DEF ResponseIInv, ResponseTypeOK
<1>3. incident[r].status # "absent" /\ to # "absent" /\ to \in Command!IncidentStatus
  BY CommandMovesOn DEF Command!Advance
<1>4. PICK row : row = [incident[r] EXCEPT !.status = to]
  OBVIOUS
<1>5. row \in Command!IncidentRow /\ row.status = to
  BY <1>2, <1>3, <1>4 DEF Command!IncidentRow
<1>6. /\ incident' = [incident EXCEPT ![r] = row] /\ UNCHANGED <<clock, remediationAction>>
      /\ to = "resolved" => Command!OpenActions(r) = {}
  BY <1>4 DEF Command!Advance
<1>7. /\ incident' \in [Results -> Command!IncidentRow] /\ incident'[r].status = to
      /\ \A q \in Results \ {r} : incident'[q] = incident[q]
  BY <1>2, <1>5, <1>6
<1>. QED
  BY <1>1, <1>3, <1>6, <1>7, IncidentMovesInv DEF ResponseIInv, ResponseTypeOK, permitVars

LEMMA CommandStepInv ==
    ASSUME ResponseIInv, UNCHANGED <<vars, permitVars>>,
           NEW u \in Command!Users,
           Command!Begin(u) \/ Command!Reject(u) \/ CommandOf(u)
    PROVE  ResponseIInv'
<1>1. CASE Command!Begin(u) \/ Command!Reject(u)
  <2>1. /\ UNCHANGED <<clock, incident, remediationAction>>
        /\ begun' \in [Command!Users -> Nat \cup {None}]
    BY <1>1 DEF Command!Begin, Command!Reject, Command!dbVars, ResponseIInv, ResponseTypeOK
  <2>. QED
    BY <2>1, IncidentMovesInv DEF ResponseIInv, ResponseTypeOK, permitVars
<1>2. CASE \E r \in Results : Command!Claim(u, r)
  BY <1>2, ClaimKeepsInv
<1>3. CASE \E r \in Results, token \in 1..MaxGeneration, to \in Command!IncidentStatus :
               Command!Advance(u, r, token, to)
  BY <1>3, AdvanceKeepsInv
<1>4. CASE \E r \in Results, token \in 1..MaxGeneration, resource \in Resources :
               Command!AssignContainment(u, r, token, resource)
  <2>1. PICK r \in Results, token \in 1..MaxGeneration, resource \in Resources :
            Command!AssignContainment(u, r, token, resource)
    BY <1>4
  <2>2. UNCHANGED <<clock, incident, remediationAction>> /\ Command!Commit(u)
    BY <2>1 DEF Command!AssignContainment
  <2>. QED
    BY <2>2, ResponseCommits, IncidentMovesInv DEF ResponseIInv, ResponseTypeOK, permitVars
<1>. QED
  BY <1>1, <1>2, <1>3, <1>4 DEF CommandOf

(* The remediation opens no action of a resolved incident.                 *)
LEMMA ActionsMoveInv ==
    ASSUME ResponseIInv, UNCHANGED <<vars, clock, incident, permit>>,
           begun' \in [Command!Users -> Nat \cup {None}],
           remediationAction' \in [Command!Actions -> Command!ActionRow],
           \A a \in Command!Actions : remediationAction'[a] # remediationAction[a] =>
               \/ incident[a[1]].status # "resolved"
               \/ remediationAction[a].status \notin {"absent", "succeeded"}
    PROVE  ResponseIInv'
<1>1. IInv' /\ UNCHANGED incidents
  BY StutterInv DEF ResponseIInv, vars
<1>2. ResponseTypeOK' /\ IncidentsHaveRows'
  BY <1>1 DEF ResponseIInv, ResponseTypeOK, IncidentsHaveRows
<1>3. ResolvedIsRemedied'
  <2>1. \A r \in Results, k \in Keys : <<r, k>> \in Command!Actions /\ <<r, k>>[1] = r
    BY DEF Command!Actions
  <2>. QED
    BY <2>1 DEF ResponseIInv, ResolvedIsRemedied
<1>. QED
  BY <1>1, <1>2, <1>3 DEF ResponseIInv

LEMMA RemediationStepInv ==
    ASSUME ResponseIInv, UNCHANGED <<vars, permitVars>>,
           NEW u \in Command!Users, Command!RemediationStep(u)
    PROVE  ResponseIInv'
<1>1. remediationAction \in [Command!Actions -> Command!ActionRow]
  BY DEF ResponseIInv, ResponseTypeOK
<1>2. CASE \E r \in Results, keys \in SUBSET Keys : Command!CreatePlan(u, r, keys)
  <2>1. PICK r \in Results, keys \in SUBSET Keys : Command!CreatePlan(u, r, keys)
    BY <1>2
  <2>2. PICK new : new = [status |-> "pending", attempts |-> 0, version |-> 1]
    OBVIOUS
  <2>3. new \in Command!ActionRow
    BY <2>2 DEF Command!ActionRow, Command!ActionStatus
  <2>4. /\ remediationAction' = [a \in Command!Actions |->
              IF a[1] = r /\ a[2] \in keys THEN new ELSE remediationAction[a]]
        /\ UNCHANGED <<clock, incident>> /\ Command!Commit(u)
        /\ incident[r].status # "resolved"
    BY <2>1, <2>2 DEF Command!CreatePlan, Command!Remediable
  <2>5. /\ remediationAction' \in [Command!Actions -> Command!ActionRow]
        /\ \A a \in Command!Actions :
              remediationAction'[a] # remediationAction[a] => a[1] = r
    BY <1>1, <2>3, <2>4
  <2>. QED
    BY <2>4, <2>5, ResponseCommits, ActionsMoveInv DEF ResponseIInv, permitVars
<1>3. CASE \E r \in Results : Command!Approve(u, r)
  BY <1>1, <1>3, ResponseCommits, ActionsMoveInv DEF Command!Approve, ResponseIInv, permitVars
<1>4. CASE \E r \in Results, a \in Command!Actions, version \in 1..MaxVersion,
             success \in BOOLEAN : Command!CompleteAction(u, r, a, version, success)
  <2>1. PICK r \in Results, a \in Command!Actions, version \in 1..MaxVersion,
             success \in BOOLEAN : Command!CompleteAction(u, r, a, version, success)
    BY <1>4
  <2>2. PICK row : row = Command!Completed(remediationAction[a], success)
    OBVIOUS
  <2>3. row \in Command!ActionRow
    BY <1>1, <2>2 DEF Command!Completed, Command!ActionRow, Command!ActionStatus
  <2>4. /\ remediationAction' = [remediationAction EXCEPT ![a] = row]
        /\ UNCHANGED <<clock, incident>> /\ Command!Commit(u)
        /\ remediationAction[a].status \notin {"absent", "succeeded"}
    BY <2>1, <2>2 DEF Command!CompleteAction, Command!Completable
  <2>5. /\ remediationAction' \in [Command!Actions -> Command!ActionRow]
        /\ \A b \in Command!Actions \ {a} : remediationAction'[b] = remediationAction[b]
    BY <1>1, <2>3, <2>4
  <2>. QED
    BY <2>4, <2>5, ResponseCommits, ActionsMoveInv DEF ResponseIInv, permitVars
<1>. QED
  BY <1>2, <1>3, <1>4 DEF Command!RemediationStep

-----------------------------------------------------------------------------
(* The permits.  Only Activate brings one into force.                      *)
LEMMA PermitMoves ==
    ASSUME ResponseIInv, PermitStep
    PROVE  /\ permit' \in [Permits -> Control!PermitRow]
           /\ \A p \in Permits : permit[p].status # "active" /\ permit'[p].status = "active"
                 => OpenExceedances = {}
<1>1. PICK p \in Permits : Control!Create(p) \/ Control!Activate(p) \/ Control!Suspend(p)
  BY DEF PermitStep
<1>2. permit \in [Permits -> Control!PermitRow]
  BY DEF ResponseIInv, ResponseTypeOK
<1>3. PICK n \in Nat : n = permit[p].version + 1
  BY <1>2 DEF Control!PermitRow
<1>4. PICK row \in Control!PermitRow :
          /\ permit' = [permit EXCEPT ![p] = row]
          /\ row.status = "active" => Control!Activate(p)
  <2>1. CASE Control!Create(p)
    <3>. DEFINE new == [status |-> "draft", version |-> 1]
    <3>1. new \in Control!PermitRow /\ new.status # "active"
      BY DEF Control!PermitRow, Control!PermitStatus
    <3>. QED
      BY <2>1, <3>1 DEF Control!Create
  <2>2. CASE Control!Activate(p)
    <3>. DEFINE new == [status |-> "active", version |-> n]
    <3>1. new \in Control!PermitRow
      BY DEF Control!PermitRow, Control!PermitStatus
    <3>2. permit' = [permit EXCEPT ![p] = new]
      BY <1>3, <2>2 DEF Control!Activate, Control!TransitionPermit
    <3>. QED
      BY <2>2, <3>1, <3>2
  <2>3. CASE Control!Suspend(p)
    <3>. DEFINE new == [status |-> "suspended", version |-> n]
    <3>1. new \in Control!PermitRow /\ new.status # "active"
      BY DEF Control!PermitRow, Control!PermitStatus
    <3>2. permit' = [permit EXCEPT ![p] = new]
      BY <1>3, <2>3 DEF Control!Suspend, Control!TransitionPermit
    <3>. QED
      BY <3>1, <3>2
  <2>. QED
    BY <1>1, <2>1, <2>2, <2>3
<1>5. /\ permit' \in [Permits -> Control!PermitRow] /\ permit'[p] = row
      /\ \A q \in Permits \ {p} : permit'[q] = permit[q]
  BY <1>2, <1>4
<1>6. IsFiniteSet(OpenExceedances)
  <2>1. OpenExceedances \subseteq incidents
    BY DEF OpenExceedances, ResponseIInv, IncidentsHaveRows
  <2>. QED
    BY <2>1, FS_Subset DEF ResponseIInv
<1>7. Control!Activate(p) => OpenExceedances = {}
  <2>1. Control!Activate(p) => Cardinality(OpenExceedances) = 0
    BY DEF Control!Activate
  <2>. QED
    BY <1>6, <2>1, FS_EmptySet
<1>. QED
  BY <1>4, <1>5, <1>7

LEMMA PermitStepInv ==
    ASSUME ResponseIInv, PermitStep
    PROVE  ResponseIInv'
<1>1. /\ UNCHANGED <<vars, clock, begun, incident, remediationAction>>
      /\ permit' \in [Permits -> Control!PermitRow]
  BY PermitMoves DEF PermitStep, commandVars
<1>2. IInv' /\ UNCHANGED incidents
  BY <1>1, StutterInv DEF ResponseIInv, vars
<1>. QED
  BY <1>1, <1>2 DEF ResponseIInv, ResponseTypeOK, IncidentsHaveRows, ResolvedIsRemedied

-----------------------------------------------------------------------------
(* The inductive invariant of the composition holds of every state that    *)
(* reviews, commanders and permits reach together.                         *)
THEOREM ResponseInvariance == ResponseSpec => []ResponseIInv
<1>1. ResponseIInv /\ [ResponseNext]_responseVars => ResponseIInv'
  <2>. SUFFICES ASSUME ResponseIInv, [ResponseNext]_responseVars PROVE ResponseIInv'
    OBVIOUS
  <2>1. CASE ChainStep
    BY <2>1, ChainStepInv
  <2>2. CASE ResponseStep
    <3>1. UNCHANGED <<vars, permitVars>>
      BY <2>2 DEF ResponseStep
    <3>2. CASE Command!Tick
      <4>1. clock' \in Nat /\ UNCHANGED <<begun, incident, remediationAction>>
        BY <3>2 DEF Command!Tick, Command!dbVars, ResponseIInv, ResponseTypeOK
      <4>. QED
        BY <3>1, <4>1, IncidentMovesInv DEF ResponseIInv, ResponseTypeOK, permitVars
    <3>3. CASE \E u \in Command!Users :
                  \/ Command!Begin(u) \/ Command!Reject(u) \/ CommandOf(u)
                  \/ Command!RemediationStep(u)
      BY <3>1, <3>3, CommandStepInv, RemediationStepInv
    <3>. QED
      BY <2>2, <3>2, <3>3 DEF ResponseStep
  <2>3. CASE PermitStep
    BY <2>3, PermitStepInv
  <2>4. CASE UNCHANGED responseVars
    <3>1. /\ UNCHANGED <<vars, clock, begun, incident, remediationAction, permit>>
          /\ UNCHANGED incidents
      BY <2>4 DEF responseVars, commandVars, permitVars, vars
    <3>2. IInv'
      BY <3>1, StutterInv DEF ResponseIInv
    <3>. QED
      BY <3>1, <3>2 DEF ResponseIInv, ResponseTypeOK, IncidentsHaveRows, ResolvedIsRemedied
  <2>. QED
    BY <2>1, <2>2, <2>3, <2>4 DEF ResponseNext
<1>. QED
  BY <1>1, ResponseInitInv, PTL DEF ResponseSpec

(* A permit comes into force, first or again, only when the incident of    *)
(* every exceedance that a review has confirmed is resolved and its        *)
(* remediation actions have succeeded (Review, Advance, Activate).         *)
THEOREM PermitsAwaitRemedy == ResponseSpec => PermitsWaitForRemediation
<1>. DEFINE A ==
      \A p \in Permits :
          permit[p].status # "active" /\ permit'[p].status = "active" =>
             \A r \in Results :
                result[r] # None /\ result[r].status = "approved" /\ result[r].exceeds =>
                   /\ incident[r].status = "resolved"
                   /\ \A k \in Keys :
                         remediationAction[<<r, k>>].status \in {"absent", "succeeded"}
<1>1. ResponseIInv /\ [ResponseNext]_responseVars => [A]_responseVars
  <2>. SUFFICES ASSUME ResponseIInv, ResponseNext,
                       NEW p \in Permits,
                       permit[p].status # "active", permit'[p].status = "active",
                       NEW r \in Results, result[r] # None,
                       result[r].status = "approved", result[r].exceeds
                PROVE  /\ incident[r].status = "resolved"
                       /\ \A k \in Keys :
                             remediationAction[<<r, k>>].status \in {"absent", "succeeded"}
    OBVIOUS
  <2>1. PermitStep
    BY DEF ResponseNext, ChainStep, ResponseStep, permitVars
  <2>2. OpenExceedances = {}
    BY <2>1, PermitMoves
  <2>3. r \in incidents
    BY DEF ResponseIInv, IInv, ExceedancesAnswered
  <2>4. incident[r].status = "resolved"
    BY <2>2, <2>3 DEF OpenExceedances, ResponseIInv, IncidentsHaveRows
  <2>. QED
    BY <2>4 DEF ResponseIInv, ResolvedIsRemedied
<1>. QED
  BY <1>1, ResponseInvariance, PTL DEF ResponseSpec, PermitsWaitForRemediation

-----------------------------------------------------------------------------
(* PermitDischarge knows of exceedances only how many are open, one more   *)
(* or one less at a time; here they are what reviews and commanders make   *)
(* of them.  No discharge is reported, so there is no key to report with.  *)
PermitControl == INSTANCE PermitDischarge WITH
    Keys <- {}, Volumes <- {}, Instants <- {},
    discharge <- [d \in Permits \X {} |-> None], reply <- None,
    Limit <- 1, ValidFrom <- 0, ValidUntil <- MaxTime + 1, DayLength <- 2, Bits <- 2,
    MaxVersion <- MaxPermitVersion, MaxExceedances <- Cardinality(Results),
    exceedances <- Cardinality(OpenExceedances), outbox <- suspensions

(* A review opens at most one exceedance, and one that was not open.       *)
LEMMA ReviewOpensOne ==
    ASSUME ResponseIInv, ChainStep
    PROVE  \/ UNCHANGED OpenExceedances
           \/ \E r \in Results \ OpenExceedances : OpenExceedances' = OpenExceedances \cup {r}
<1>1. PICK new : new = [Command!AbsentIncident EXCEPT !.status = "reported"]
  OBVIOUS
<1>2. new.status = "reported"
  BY <1>1 DEF Command!AbsentIncident
<1>3. \A r \in Results : incident'[r] = IF r \in incidents' \ incidents THEN new ELSE incident[r]
  BY <1>1 DEF ChainStep, InsertIncidents
<1>4. UNCHANGED incidents \/ \E r \in Results : incidents' = incidents \cup {r}
  BY ReviewsAddOne DEF ChainStep
<1>5. CASE UNCHANGED incidents
  BY <1>3, <1>5 DEF OpenExceedances
<1>6. CASE \E r \in Results : incidents' = incidents \cup {r}
  <2>1. PICK r \in Results : incidents' = incidents \cup {r}
    BY <1>6
  <2>2. CASE r \in incidents
    BY <1>3, <2>1, <2>2 DEF OpenExceedances
  <2>3. CASE r \notin incidents
    <3>1. incident[r].status = "absent"
      BY <2>3 DEF ResponseIInv, IncidentsHaveRows
    <3>2. incident'[r].status = "reported" /\ \A q \in Results \ {r} : incident'[q] = incident[q]
      BY <1>2, <1>3, <2>1, <2>3
    <3>. QED
      BY <3>1, <3>2 DEF OpenExceedances
  <2>. QED
    BY <2>2, <2>3
<1>. QED
  BY <1>4, <1>5, <1>6

(* A commander closes at most one exceedance, and one that was open.       *)
LEMMA CommandClosesOne ==
    ASSUME ResponseIInv, NEW u \in Command!Users,
           Command!Begin(u) \/ Command!Reject(u) \/ CommandOf(u) \/ Command!RemediationStep(u)
    PROVE  /\ UNCHANGED clock
           /\ \/ UNCHANGED OpenExceedances
              \/ \E r \in OpenExceedances : OpenExceedances' = OpenExceedances \ {r}
<1>1. incident \in [Results -> Command!IncidentRow]
  BY DEF ResponseIInv, ResponseTypeOK
<1>2. CASE \E r \in Results : Command!Claim(u, r)
  <2>1. PICK r \in Results : Command!Claim(u, r)
    BY <1>2
  <2>2. PICK row : row = [incident[r] EXCEPT !.commander = u, !.gen = incident[r].gen + 1,
                                             !.token = incident[r].gen + 1,
                                             !.expires = begun[u] + Lease]
    OBVIOUS
  <2>3. row.status = incident[r].status
    BY <1>1, <2>2 DEF Command!IncidentRow
  <2>4. incident' = [incident EXCEPT ![r] = row] /\ UNCHANGED clock
    BY <2>1, <2>2 DEF Command!Claim
  <2>5. \A q \in Results : incident'[q].status = incident[q].status
    BY <1>1, <2>3, <2>4
  <2>. QED
    BY <2>4, <2>5 DEF OpenExceedances
<1>3. CASE \E r \in Results, token \in 1..MaxGeneration, to \in Command!IncidentStatus :
               Command!Advance(u, r, token, to)
  <2>1. PICK r \in Results, token \in 1..MaxGeneration, to \in Command!IncidentStatus :
            Command!Advance(u, r, token, to)
    BY <1>3
  <2>2. PICK row : row = [incident[r] EXCEPT !.status = to]
    OBVIOUS
  <2>3. row.status = to
    BY <1>1, <2>2 DEF Command!IncidentRow
  <2>4. incident' = [incident EXCEPT ![r] = row] /\ UNCHANGED clock
    BY <2>1, <2>2 DEF Command!Advance
  <2>5. incident'[r].status = to /\ \A q \in Results \ {r} : incident'[q] = incident[q]
    BY <1>1, <2>3, <2>4
  <2>6. incident[r].status # "absent" /\ incident[r].status # "resolved" /\ to # "absent"
    <3>1. PICK n \in 1..4 : incident[r].status = Command!Phases[n]
      BY <2>1 DEF Command!Advance, Command!CanTransition
    <3>2. n = 1 \/ n = 2 \/ n = 3 \/ n = 4
      OBVIOUS
    <3>. QED
      BY <2>1, <3>1, <3>2, CommandMovesOn DEF Command!Phases, Command!Advance
  <2>7. r \in OpenExceedances
    BY <2>6 DEF OpenExceedances
  <2>8. OpenExceedances' =
           IF to = "resolved" THEN OpenExceedances \ {r} ELSE OpenExceedances
    BY <2>5, <2>6, <2>7 DEF OpenExceedances
  <2>. QED
    BY <2>4, <2>7, <2>8
<1>4. CASE \/ Command!Begin(u) \/ Command!Reject(u) \/ Command!RemediationStep(u)
           \/ \E r \in Results, token \in 1..MaxGeneration, resource \in Resources :
                  Command!AssignContainment(u, r, token, resource)
  <2>1. UNCHANGED <<clock, incident>>
    BY <1>4 DEF Command!Begin, Command!Reject, Command!dbVars, Command!AssignContainment,
               Command!RemediationStep, Command!CreatePlan, Command!Approve,
               Command!CompleteAction
  <2>. QED
    BY <2>1 DEF OpenExceedances
<1>. QED
  BY <1>2, <1>3, <1>4 DEF CommandOf

(* The number of a finite set that gains or loses one element.             *)
LEMMA OpenIsCounted ==
    ASSUME IsFiniteSet(Results), ResponseIInv
    PROVE  /\ Cardinality(OpenExceedances) \in Nat
           /\ \A r \in Results \ OpenExceedances :
                 /\ Cardinality(OpenExceedances) < Cardinality(Results)
                 /\ Cardinality(OpenExceedances \cup {r}) = Cardinality(OpenExceedances) + 1
           /\ \A r \in OpenExceedances :
                 /\ Cardinality(OpenExceedances) > 0
                 /\ Cardinality(OpenExceedances \ {r}) = Cardinality(OpenExceedances) - 1
<1>1. OpenExceedances \subseteq Results
  BY DEF OpenExceedances
<1>2. IsFiniteSet(OpenExceedances) /\ Cardinality(OpenExceedances) \in Nat
  BY <1>1, FS_Subset, FS_CardinalityType
<1>3. ASSUME NEW r \in Results \ OpenExceedances
      PROVE  /\ Cardinality(OpenExceedances) < Cardinality(Results)
             /\ Cardinality(OpenExceedances \cup {r}) = Cardinality(OpenExceedances) + 1
  <2>1. Cardinality(OpenExceedances) < Cardinality(Results)
    <3>1. /\ Cardinality(OpenExceedances) <= Cardinality(Results)
          /\ Cardinality(OpenExceedances) = Cardinality(Results) => OpenExceedances = Results
      BY <1>1, FS_Subset
    <3>2. Cardinality(Results) \in Nat /\ OpenExceedances # Results
      BY FS_CardinalityType
    <3>. QED
      BY <1>2, <3>1, <3>2
  <2>. QED
    BY <1>2, <2>1, FS_AddElement
<1>4. ASSUME NEW r \in OpenExceedances
      PROVE  /\ Cardinality(OpenExceedances) > 0
             /\ Cardinality(OpenExceedances \ {r}) = Cardinality(OpenExceedances) - 1
  <2>1. Cardinality(OpenExceedances \ {r}) = Cardinality(OpenExceedances) - 1
    BY <1>2, FS_RemoveElement
  <2>2. IsFiniteSet(OpenExceedances \ {r}) /\ Cardinality(OpenExceedances \ {r}) \in Nat
    BY <1>2, FS_Subset, FS_CardinalityType
  <2>. QED
    BY <1>2, <2>1, <2>2
<1>. QED
  BY <1>2, <1>3, <1>4

(* One more, one less or as many open exceedances: a step of PermitControl.*)
LEMMA CountingIsAStep ==
    ASSUME IsFiniteSet(Results), ResponseIInv, UNCHANGED <<clock, permitVars>>,
           \/ UNCHANGED OpenExceedances
           \/ \E r \in Results \ OpenExceedances : OpenExceedances' = OpenExceedances \cup {r}
           \/ \E r \in OpenExceedances : OpenExceedances' = OpenExceedances \ {r}
    PROVE  [PermitControl!Next]_PermitControl!vars
<1>1. CASE UNCHANGED OpenExceedances
  BY <1>1 DEF PermitControl!vars, permitVars
<1>2. CASE \E r \in Results \ OpenExceedances : OpenExceedances' = OpenExceedances \cup {r}
  <2>1. /\ Cardinality(OpenExceedances) < Cardinality(Results)
        /\ Cardinality(OpenExceedances') = Cardinality(OpenExceedances) + 1
    BY <1>2, OpenIsCounted
  <2>2. PermitControl!OpenExceedance
    BY <2>1 DEF PermitControl!OpenExceedance, permitVars
  <2>. QED
    BY <2>2 DEF PermitControl!Next
<1>3. CASE \E r \in OpenExceedances : OpenExceedances' = OpenExceedances \ {r}
  <2>1. /\ Cardinality(OpenExceedances) > 0
        /\ Cardinality(OpenExceedances') = Cardinality(OpenExceedances) - 1
    BY <1>3, OpenIsCounted
  <2>2. PermitControl!ResolveExceedance
    BY <2>1 DEF PermitControl!ResolveExceedance, permitVars
  <2>. QED
    BY <2>2 DEF PermitControl!Next
<1>. QED
  BY <1>1, <1>2, <1>3

(* The permits' own steps, and the clock's, are the same in both.          *)
LEMMA PermitStepIsAStep ==
    ASSUME PermitStep
    PROVE  PermitControl!Next
<1>1. PICK p \in Permits : Control!Create(p) \/ Control!Activate(p) \/ Control!Suspend(p)
  BY DEF PermitStep
<1>2. UNCHANGED <<clock, OpenExceedances>>
  BY DEF PermitStep, commandVars, OpenExceedances
<1>3. CASE Control!Create(p)
  <2>1. PermitControl!Create(p)
    BY <1>2, <1>3 DEF Control!Create, PermitControl!Create
  <2>. QED
    BY <2>1 DEF PermitControl!Next
<1>4. CASE Control!Activate(p)
  <2>1. PermitControl!Activate(p)
    BY <1>2, <1>4
       DEF Control!Activate, Control!CanTransition, Control!TransitionPermit,
           PermitControl!Activate, PermitControl!CanTransition,
           PermitControl!TransitionPermit
  <2>. QED
    BY <2>1 DEF PermitControl!Next
<1>5. CASE Control!Suspend(p)
  <2>1. PermitControl!Suspend(p)
    BY <1>2, <1>5
       DEF Control!Suspend, Control!CanTransition, Control!TransitionPermit,
           Control!SuspensionKey, PermitControl!Suspend, PermitControl!CanTransition,
           PermitControl!TransitionPermit, PermitControl!SuspensionKey
  <2>. QED
    BY <2>1 DEF PermitControl!Next
<1>. QED
  BY <1>1, <1>3, <1>4, <1>5

(* The composition implements PermitDischarge, with the count of open      *)
(* exceedances (CountOpenExceedances) for its counter: what PermitDischarge*)
(* assumes of the rest of the program, the rest of the program does.       *)
THEOREM PermitsAreControlled ==
    ASSUME IsFiniteSet(Results)
    PROVE  ResponseSpec => PermitControl!Spec
<1>1. ResponseInit => PermitControl!Init
  <2>. SUFFICES ASSUME ResponseInit PROVE PermitControl!Init
    OBVIOUS
  <2>1. OpenExceedances = {}
    BY DEF ResponseInit, Command!Init, Command!AbsentIncident, OpenExceedances
  <2>2. Cardinality(OpenExceedances) = 0
    BY <2>1, FS_EmptySet
  <2>. QED
    BY <2>2 DEF ResponseInit, Command!Init, PermitControl!Init, PermitControl!Discharges
<1>2. ResponseIInv /\ [ResponseNext]_responseVars => [PermitControl!Next]_PermitControl!vars
  <2>. SUFFICES ASSUME ResponseIInv, [ResponseNext]_responseVars
                PROVE  [PermitControl!Next]_PermitControl!vars
    OBVIOUS
  <2>1. CASE ChainStep
    BY <2>1, ReviewOpensOne, CountingIsAStep DEF ChainStep
  <2>2. CASE ResponseStep /\ Command!Tick
    <3>1. UNCHANGED <<OpenExceedances, permitVars>>
      BY <2>2 DEF ResponseStep, Command!Tick, Command!dbVars, OpenExceedances
    <3>2. PermitControl!Tick
      BY <2>2, <3>1 DEF Command!Tick, PermitControl!Tick, permitVars
    <3>. QED
      BY <3>2 DEF PermitControl!Next
  <2>3. CASE ResponseStep /\ ~Command!Tick
    <3>1. PICK u \in Command!Users :
              Command!Begin(u) \/ Command!Reject(u) \/ CommandOf(u) \/ Command!RemediationStep(u)
      BY <2>3 DEF ResponseStep
    <3>2. UNCHANGED permitVars
      BY <2>3 DEF ResponseStep
    <3>. QED
      BY <3>1, <3>2, CommandClosesOne, CountingIsAStep
  <2>4. CASE PermitStep
    BY <2>4, PermitStepIsAStep
  <2>5. CASE UNCHANGED responseVars
    <3>1. UNCHANGED <<clock, permitVars, OpenExceedances>>
      BY <2>5 DEF responseVars, commandVars, OpenExceedances
    <3>. QED
      BY <3>1, CountingIsAStep
  <2>. QED
    BY <2>1, <2>2, <2>3, <2>4, <2>5 DEF ResponseNext
<1>. QED
  BY <1>1, <1>2, ResponseInvariance, PTL DEF ResponseSpec, PermitControl!Spec
=============================================================================
