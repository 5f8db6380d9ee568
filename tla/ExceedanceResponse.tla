------------------------- MODULE ExceedanceResponse -------------------------
(***************************************************************************)
(* From a laboratory exceedance to a permit: SampleChain, IncidentCommand  *)
(* and PermitDischarge on one database, for one water source.  A review    *)
(* that confirms an exceedance inserts an incident; supervisors command    *)
(* it through its phases and complete its remediation; and permits of the  *)
(* source are activated only while no such incident is open.               *)
(*                                                                         *)
(* An incident is named by its originating_result_id.  Incidents reported  *)
(* by hand have none and are not counted against a permit, and discharges  *)
(* change nothing here, so Report and ReportDischarge are left out.        *)
(***************************************************************************)
EXTENDS SampleChain

CONSTANTS
    Resources, Keys, Permits,
    Lease, MaxTime, MaxGeneration, MaxVersion,   \* as in IncidentCommand
    MaxPermitVersion                             \* MaxVersion of PermitDischarge

ASSUME ExceedanceResponseAssumption ==
    /\ None \notin Nat
    /\ Lease \in Nat \ {0}
    /\ MaxTime \in Nat /\ MaxGeneration \in Nat /\ MaxVersion \in Nat
    /\ MaxPermitVersion \in Nat

VARIABLES
    clock, begun,
    incident, known, assignments,
    remediationPlan, remediationAction,
    reports,        \* notifications "incident.reported"
    trail,
    permit,
    suspensions     \* notifications "suspend:<permit>:<version>"

commandVars == <<begun, incident, known, assignments, remediationPlan,
                 remediationAction, reports, trail>>
permitVars == <<permit, suspensions>>
responseVars == <<vars, clock, commandVars, permitVars>>

-----------------------------------------------------------------------------
Command == INSTANCE IncidentCommand WITH
    Incidents <- Results, plan <- remediationPlan, action <- remediationAction,
    outbox <- reports

\* Mutant of OpenExceedances: an incident that is being handled is not open.
UnhandledExceedances == {r \in Results : incident[r].status = "reported"}

(* CountOpenExceedances: incidents of the source that came from a result   *)
(* and are not resolved.                                                   *)
OpenExceedances == {r \in Results : incident[r].status \notin {"absent", "resolved"}}

Control == INSTANCE PermitDischarge WITH
    Keys <- {}, Volumes <- {}, Instants <- {},
    discharge <- <<>>, reply <- <<>>,
    Limit <- 1, ValidFrom <- 0, ValidUntil <- MaxTime + 1, DayLength <- 2, Bits <- 2,
    MaxVersion <- MaxPermitVersion, MaxExceedances <- Cardinality(Results),
    exceedances <- Cardinality(OpenExceedances), outbox <- suspensions

ResponseInit ==
    /\ Init
    /\ Command!Init
    /\ permit = [p \in Permits |-> [status |-> "absent", version |-> 0]]
    /\ suspensions = {}

-----------------------------------------------------------------------------
(* Review inserts, in its own transaction, an incident for each result it  *)
(* confirms as an exceedance.                                              *)
InsertIncidents ==
    incident' = [r \in Results |->
        IF r \in incidents' \ incidents
        THEN [Command!AbsentIncident EXCEPT !.status = "reported"] ELSE incident[r]]

ChainStep ==
    /\ Next
    /\ InsertIncidents
    /\ UNCHANGED <<clock, begun, known, assignments, remediationPlan,
                   remediationAction, reports, trail, permitVars>>

CommandOf(u) ==
    \E r \in Results :
        \/ Command!Claim(u, r)
        \/ \E token \in 1..MaxGeneration :
              /\ <<r, token>> \in known[u]
              /\ \/ \E to \in Command!IncidentStatus : Command!Advance(u, r, token, to)
                 \/ \E resource \in Resources :
                       Command!AssignContainment(u, r, token, resource)

ResponseStep ==
    /\ \/ Command!Tick
       \/ \E u \in Command!Users :
             \/ Command!Begin(u) \/ Command!Reject(u)
             \/ CommandOf(u)
             \/ Command!RemediationStep(u)
    /\ UNCHANGED <<vars, permitVars>>

PermitStep ==
    /\ UNCHANGED <<vars, clock, commandVars>>
    /\ \E p \in Permits : Control!Create(p) \/ Control!Activate(p) \/ Control!Suspend(p)

ResponseNext == ChainStep \/ ResponseStep \/ PermitStep

ResponseSpec == ResponseInit /\ [][ResponseNext]_responseVars

-----------------------------------------------------------------------------
(* README: "Activation is blocked while the same source has an unresolved  *)
(* confirmed laboratory exceedance", and an incident is resolved only with *)
(* its remediation.  When a permit comes into force, for the first time or *)
(* again, every exceedance that a review has ever confirmed is remedied:   *)
(* its incident went through to its end and no action of its plan is left. *)
PermitsWaitForRemediation ==
    [][\A p \in Permits :
          permit[p].status # "active" /\ permit'[p].status = "active" =>
             \A r \in Results :
                result[r] # None /\ result[r].status = "approved" /\ result[r].exceeds =>
                   /\ incident[r].status = "resolved"
                   /\ \A k \in Keys :
                         remediationAction[<<r, k>>].status \in {"absent", "succeeded"}
      ]_responseVars
=============================================================================
