---------------------------- MODULE SampleChain -----------------------------
(***************************************************************************)
(* From a sampling plan to a reviewed laboratory result (sampling.Service, *)
(* laboratory.Service and their repositories).                             *)
(*                                                                         *)
(* Every operation is one transaction, and a plan yields at most one       *)
(* sample, so a sample is named by its plan.  Windows and instants are     *)
(* counted in half seconds (TimeText): the service compares the instants,  *)
(* SQL their text.  What only refuses a request (an inactive station or    *)
(* user, a wrong bottle count, a malformed field) is left out.             *)
(***************************************************************************)
EXTENDS TimeText, Integers, FiniteSets, Sequences

CONSTANTS
    Plans,          \* sampling plans, and the samples they yield
    Stations,
    Operators, Analysts, Supervisors,   \* active users by role
    Tests,          \* pairs of parameter and method a result is for
    Windows,        \* records [start, end] a plan may be given
    Instants,       \* collected_at values and readings of the clock
    DayLength,      \* half seconds in a business day of the source
    Capacity,       \* plans of a station that may overlap a new one, plus 1
    None            \* no user, no row

Users == Operators \cup Analysts \cup Supervisors
CanCollect == Operators \cup Supervisors
CanAnalyze == Analysts \cup Supervisors

ASSUME SampleChainAssumption ==
    /\ Windows \subseteq {w \in [start : Nat, end : Nat] : w.start < w.end}
    /\ Instants \subseteq Nat
    /\ DayLength \in Nat \ {0}
    /\ Capacity \in Nat \ {0}
    /\ None \notin Users

VARIABLES
    plan,        \* sampling_plans
    nextValue,   \* sample_sequences, by station and business day
    sample,      \* samples, by plan
    custody,     \* custody_events of each sample, in the order appended
    result,      \* lab_results, by sample and test
    incidents,   \* incidents by originating_result_id
    outbox       \* keys "lab-exceedance:<result>" of outbox_events

vars == <<plan, nextValue, sample, custody, result, incidents, outbox>>

-----------------------------------------------------------------------------
SamplingPlanStatus == {"draft", "published", "completed", "cancelled"}
SampleStatus == {"planned", "collected", "in_transit", "received", "tested",
                 "archived", "rejected"}
LabResultStatus == {"draft", "submitted", "approved", "rejected"}

Results == Plans \X Tests
Days == {at \div DayLength : at \in Instants}

Init ==
    /\ plan = [p \in Plans |-> None]
    /\ nextValue = [c \in Stations \X Days |-> 1]
    /\ sample = [p \in Plans |-> None]
    /\ custody = [p \in Plans |-> <<>>]
    /\ result = [r \in Results |-> None]
    /\ incidents = {}
    /\ outbox = {}

-----------------------------------------------------------------------------
Exists(p) == plan[p] # None

Pending(p) == Exists(p) /\ plan[p].status \in {"draft", "published"}

\* Mutant of OverlappingPlans: a plan inside the new window is overlooked.
OverlappingEnds(s, w) ==
    {p \in Plans : /\ Pending(p) /\ plan[p].station = s
                   /\ TextLeq(plan[p].window.start, w.start)
                   /\ TextLess(w.start, plan[p].window.end)}

(* CountOverlappingPlans, which compares the windows as text.  Those that  *)
(* only touch do not overlap.                                              *)
OverlappingPlans(s, w) ==
    {p \in Plans : /\ Pending(p) /\ plan[p].station = s
                   /\ TextLess(plan[p].window.start, w.end)
                   /\ TextLess(w.start, plan[p].window.end)}

(* Service.CreatePlan, by a supervisor, for an operator or a supervisor.   *)
CreatePlan(p) ==
    /\ ~Exists(p)
    /\ \E s \in Stations, u \in CanCollect, w \in Windows :
          /\ Cardinality(OverlappingPlans(s, w)) < Capacity
          /\ plan' = [plan EXCEPT ![p] =
                        [station |-> s, assignee |-> u, window |-> w, status |-> "draft"]]
    /\ UNCHANGED <<nextValue, sample, custody, result, incidents, outbox>>

(* The Transition operators stand for UPDATEs conditional on the status    *)
(* and version read earlier in the same transaction.                       *)
TransitionSamplingPlan(p, to) == plan' = [plan EXCEPT ![p].status = to]

(* Service.PublishPlan, by a supervisor whose clock reads now.             *)
PublishPlan(p) ==
    /\ Exists(p) /\ plan[p].status = "draft"
    /\ \E now \in Instants : plan[p].window.end > now
    /\ TransitionSamplingPlan(p, "published")
    /\ UNCHANGED <<nextValue, sample, custody, result, incidents, outbox>>

-----------------------------------------------------------------------------
BusinessDay(at) == at \div DayLength

SampleLabel(p) == <<plan[p].station, BusinessDay(sample[p].collectedAt), sample[p].sequence>>

Collected == {p \in Plans : sample[p] # None}

\* Mutant of NextSampleSequence: the value after the update is handed out.
NextSampleSequenceUpdated(counter) == nextValue[counter] + 1

NextSampleSequence(counter) == nextValue[counter]

MayCollect(p, u) == u \in Supervisors \cup {plan[p].assignee}

(* Service.Collect: the sequence, the sample with its label, the first     *)
(* custody event and the completed plan, all or nothing.                   *)
Collect(p, u, at) ==
    LET counter == <<plan[p].station, BusinessDay(at)>>
        sequence == NextSampleSequence(counter)
    IN
    /\ Exists(p) /\ plan[p].status = "published"
    /\ MayCollect(p, u)
    /\ plan[p].window.start <= at /\ at <= plan[p].window.end
    /\ \A q \in Collected : SampleLabel(q) # Append(counter, sequence)
    /\ nextValue' = [nextValue EXCEPT ![counter] = @ + 1]
    /\ sample' = [sample EXCEPT ![p] =
          [status |-> "collected", custodian |-> u, collectedAt |-> at, sequence |-> sequence]]
    /\ custody' = [custody EXCEPT ![p] = <<[from |-> None, to |-> u, action |-> "collected"]>>]
    /\ TransitionSamplingPlan(p, "completed")
    /\ UNCHANGED <<result, incidents, outbox>>

TransitionSample(p, to, custodian) ==
    sample' = [sample EXCEPT ![p].status = to, ![p].custodian = custodian]

HandoffStatus == [collected |-> "in_transit", in_transit |-> "received"]

\* Mutant of CustodyEvent: a supervisor's handoff is recorded as from them.
CustodyEventFromActor(p, u, receiver) ==
    [from |-> u, to |-> receiver, action |-> HandoffStatus[sample[p].status]]

CustodyEvent(p, u, receiver) ==
    [from |-> sample[p].custodian, to |-> receiver,
     action |-> HandoffStatus[sample[p].status]]

(* Service.Handoff: the status says which handoff it is, so a supervisor   *)
(* who repeats a call makes the next one.                                  *)
Handoff(p, u, receiver) ==
    /\ p \in Collected
    /\ u \in {sample[p].custodian} \cup Supervisors
    /\ sample[p].status \in DOMAIN HandoffStatus
    /\ TransitionSample(p, HandoffStatus[sample[p].status], receiver)
    /\ custody' = [custody EXCEPT ![p] = Append(@, CustodyEvent(p, u, receiver))]
    /\ UNCHANGED <<plan, nextValue, result, incidents, outbox>>

-----------------------------------------------------------------------------
(* laboratory.Service.RecordResult, with a value that exceeds the          *)
(* regulatory limit or does not.                                           *)
RecordResult(r, u) ==
    LET p == r[1] IN
    /\ result[r] = None
    /\ p \in Collected /\ sample[p].status = "received"
    /\ u \in Supervisors \cup (CanAnalyze \cap {sample[p].custodian})
    /\ \E exceeds \in BOOLEAN :
          result' = [result EXCEPT ![r] =
             [status |-> "draft", analyst |-> u, reviewer |-> None, exceeds |-> exceeds]]
    /\ UNCHANGED <<plan, nextValue, sample, custody, incidents, outbox>>

\* Mutant of TransitionLabResult: status and reviewer are bound in the
\* wrong order.
TransitionLabResultSwapped(r, to, reviewer) ==
    result' = [result EXCEPT ![r].status = reviewer, ![r].reviewer = to]

TransitionLabResult(r, to, reviewer) ==
    result' = [result EXCEPT ![r].status = to, ![r].reviewer = reviewer]

(* laboratory.Service.Submit.                                              *)
Submit(r, u) ==
    /\ result[r] # None /\ result[r].status = "draft"
    /\ u \in Supervisors \cup {result[r].analyst}
    /\ TransitionLabResult(r, "submitted", None)
    /\ UNCHANGED <<plan, nextValue, sample, custody, incidents, outbox>>

(* LabResult.CanTransition to approved or rejected.                        *)
MayReview(r, u) ==
    result[r] # None /\ result[r].status = "submitted"
       /\ u \in CanAnalyze \ {result[r].analyst}

\* Mutant of Exceedance: any approved result opens an incident.
ExceedanceAlways(r) == {r}

Exceedance(r) == IF result[r].exceeds THEN {r} ELSE {}

\* Mutant of Testable: a sample is tested as often as results are approved.
TestableAgain(p) == sample[p].status \in {"received", "tested"}

(* Sample.CanTransition to tested.                                         *)
Testable(p) == sample[p].status = "received"

(* laboratory.Service.Review approves: the sample is tested and an         *)
(* exceedance becomes an incident with a notification, or nothing happens. *)
ReviewApprove(r, u) ==
    /\ MayReview(r, u)
    /\ Testable(r[1])
    /\ TransitionLabResult(r, "approved", u)
    /\ TransitionSample(r[1], "tested", sample[r[1]].custodian)
    /\ incidents' = incidents \cup Exceedance(r)
    /\ outbox' = outbox \cup Exceedance(r)
    /\ UNCHANGED <<plan, nextValue, custody>>

(* laboratory.Service.Review rejects.                                      *)
ReviewReject(r, u) ==
    /\ MayReview(r, u)
    /\ TransitionLabResult(r, "rejected", u)
    /\ UNCHANGED <<plan, nextValue, sample, custody, incidents, outbox>>

-----------------------------------------------------------------------------
SamplingStep ==
    \E p \in Plans :
        \/ CreatePlan(p)
        \/ PublishPlan(p)
        \/ \E u \in Users, at \in Instants : Collect(p, u, at)
        \/ \E u, receiver \in Users : Handoff(p, u, receiver)

LaboratoryStep ==
    \E r \in Results, u \in Users :
        RecordResult(r, u) \/ Submit(r, u) \/ ReviewApprove(r, u) \/ ReviewReject(r, u)

Next == SamplingStep \/ LaboratoryStep

Spec == Init /\ [][Next]_vars

-----------------------------------------------------------------------------
PlanRow == [station : Stations, assignee : CanCollect, window : Windows,
            status : SamplingPlanStatus]
SampleRow == [status : SampleStatus, custodian : Users, collectedAt : Instants,
              sequence : Nat \ {0}]
CustodyRow == [from : Users \cup {None}, to : Users, action : SampleStatus]
ResultRow == [status : LabResultStatus, analyst : CanAnalyze,
              reviewer : CanAnalyze \cup {None}, exceeds : BOOLEAN]

ASSUME NoRowIsNone == None \notin PlanRow \cup SampleRow \cup ResultRow

TypeOK ==
    /\ plan \in [Plans -> PlanRow \cup {None}]
    /\ nextValue \in [Stations \X Days -> Nat \ {0}]
    /\ sample \in [Plans -> SampleRow \cup {None}]
    /\ custody \in [Plans -> Seq(CustodyRow)]
    /\ result \in [Results -> ResultRow \cup {None}]
    /\ incidents \subseteq Results /\ outbox \subseteq Results

\* The pending plans of a station whose windows take all of a second.
PlannedThroughout(s, sec) ==
    {p \in Plans : /\ Pending(p) /\ plan[p].station = s
                   /\ plan[p].window.start <= 2 * sec
                   /\ 2 * sec + 2 <= plan[p].window.end}

(* CreatePlan answers "capacity exceeded" from the third overlapping plan  *)
(* on.  No second of a station is ever taken by more than Capacity plans,  *)
(* in whatever order plans are created, published and completed.  That is  *)
(* every instant of windows in whole seconds; for fractions it is what is  *)
(* left, as plans that share less than a second may not be counted.        *)
CapacityHolds ==
    \A s \in Stations, at \in Instants :
        Cardinality(PlannedThroughout(s, second(at))) <= Capacity

(* Sequences of a station and business day: the samples taken are numbered *)
(* 1, 2, ... without a gap or a repetition, so labels tell samples apart   *)
(* whatever days and stations collections alternate between.               *)
SequencesAreDense ==
    \A counter \in Stations \X Days :
        LET taken == {p \in Collected : SubSeq(SampleLabel(p), 1, 2) = counter}
        IN  /\ {sample[p].sequence : p \in taken} = 1..Cardinality(taken)
            /\ nextValue[counter] = Cardinality(taken) + 1

Chain == <<"collected", "in_transit", "received">>

(* README: custody "moves from collected to in_transit and received; each  *)
(* transition checks the current custodian".  The events of a sample form  *)
(* one chain from its collector to its custodian with no link missing, a   *)
(* tested sample has gone through all of it, and no sample lacks a chain.  *)
CustodyUnbroken ==
    \A p \in Plans :
        LET events == custody[p] IN
        IF p \notin Collected THEN events = <<>>
        ELSE /\ [i \in DOMAIN events |-> events[i].action] = SubSeq(Chain, 1, Len(events))
             /\ events # <<>> /\ events[1].from = None
             /\ \A i \in 2..Len(events) : events[i].from = events[i - 1].to
             /\ events[Len(events)].to = sample[p].custodian
             /\ IF sample[p].status = "tested" THEN Len(events) = Len(Chain)
                ELSE sample[p].status = Chain[Len(events)]

(* README: a result "must be reviewed by a different analyst" and          *)
(* "Approving a result marks the sample tested".  A tested sample rests on *)
(* one approval, by someone other than its analyst, and has been received. *)
TestedOnOneReview ==
    \A p \in Collected :
        LET approved == {t \in Tests : /\ result[<<p, t>>] # None
                                       /\ result[<<p, t>>].status = "approved"}
        IN  /\ Cardinality(approved) <= 1
            /\ sample[p].status = "tested" <=> approved # {}
            /\ \A t \in approved : result[<<p, t>>].reviewer \notin {None, result[<<p, t>>].analyst}

(* README: "If its value exceeds the regulatory limit, the same            *)
(* transaction also creates a linked pollution incident, an outbox         *)
(* notification".  Exactly the approved exceedances have both.             *)
ExceedancesAnswered ==
    LET confirmed == {r \in Results : /\ result[r] # None
                                      /\ result[r].status = "approved" /\ result[r].exceeds}
    IN  incidents = confirmed /\ outbox = confirmed
=============================================================================
