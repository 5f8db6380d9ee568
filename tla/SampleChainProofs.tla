------------------------- MODULE SampleChainProofs --------------------------
(***************************************************************************)
(* Theorems about SampleChain, for any plans, stations, users, tests,      *)
(* windows and capacity.  Nothing bounds the number of plans: the sets     *)
(* that are counted are finite because every plan was created by a step.   *)
(***************************************************************************)
EXTENDS SampleChain, FiniteSetTheorems, SequenceTheorems, TLAPS

PlansAreFinite == IsFiniteSet({p \in Plans : Exists(p)})

\* A sample has a completed plan, and a result has a sample.
RowsBelongTogether ==
    /\ \A p \in Collected : Exists(p) /\ plan[p].status = "completed"
    /\ \A r \in Results : result[r] # None => r[1] \in Collected

\* SequencesAreDense, by the pair that names a counter.
Counter(p) == <<plan[p].station, BusinessDay(sample[p].collectedAt)>>
Taken(counter) == {p \in Collected : Counter(p) = counter}

NumberedDensely ==
    \A counter \in Stations \X Days :
        /\ {sample[p].sequence : p \in Taken(counter)} = 1..Cardinality(Taken(counter))
        /\ nextValue[counter] = Cardinality(Taken(counter)) + 1

\* CustodyUnbroken, with the length of the chain that its status implies.
CustodyFollowsStatus ==
    \A p \in Plans :
        LET events == custody[p]
            n == Len(events)
        IN
        IF p \notin Collected THEN events = <<>>
        ELSE /\ n \in 1..3
             /\ sample[p].status = "tested" => n = 3
             /\ sample[p].status # "tested" => sample[p].status = Chain[n]
             /\ \A i \in 1..n : events[i].action = Chain[i]
             /\ events[1].from = None
             /\ \A i \in 2..n : events[i].from = events[i - 1].to
             /\ events[n].to = sample[p].custodian

Approved(p) == {t \in Tests : /\ result[<<p, t>>] # None
                              /\ result[<<p, t>>].status = "approved"}

IInv ==
    /\ TypeOK
    /\ PlansAreFinite
    /\ RowsBelongTogether
    /\ NumberedDensely
    /\ CustodyFollowsStatus
    /\ TestedOnOneReview
    /\ ExceedancesAnswered

-----------------------------------------------------------------------------
(* A label names its counter in its first two places.                      *)
LEMMA LabelPrefix == \A a, b, c : SubSeq(<<a, b, c>>, 1, 2) = <<a, b>>
<1>. SUFFICES ASSUME NEW a, NEW b, NEW c PROVE SubSeq(<<a, b, c>>, 1, 2) = <<a, b>>
  OBVIOUS
<1>. DEFINE S == {a, b, c}
            s == <<a, b, c>>
<1>1. PICK x : x = SubSeq(s, 1, 2)
  OBVIOUS
<1>2. x \in Seq(S) /\ Len(x) = 2 /\ x[1] = a /\ x[2] = b
  BY <1>1, SubSeqProperties
<1>3. PICK y : y = <<a, b>>
  OBVIOUS
<1>4. y \in Seq(S) /\ Len(y) = 2 /\ y[1] = a /\ y[2] = b
  BY <1>3
<1>5. \A i \in 1..Len(x) : x[i] = y[i]
  BY <1>2, <1>4
<1>6. x = y
  BY <1>2, <1>4, <1>5, SeqEqual
<1>. QED
  BY <1>1, <1>3, <1>6

(* The rows of the three tables are told from no row.                      *)
LEMMA RowsAreRows ==
    ASSUME TypeOK
    PROVE  /\ \A p \in Plans : Exists(p) => plan[p] \in PlanRow
           /\ \A p \in Collected : sample[p] \in SampleRow
           /\ \A r \in Results : result[r] # None => result[r] \in ResultRow
BY DEF TypeOK, Exists, Collected

-----------------------------------------------------------------------------
LEMMA InitInv == Init => IInv
<1>. SUFFICES ASSUME Init PROVE IInv
  OBVIOUS
<1>1. TypeOK
  BY DEF Init, TypeOK
<1>2. {p \in Plans : Exists(p)} = {} /\ Collected = {}
  BY DEF Init, Exists, Collected
<1>3. PlansAreFinite
  BY <1>2, FS_EmptySet DEF PlansAreFinite
<1>4. RowsBelongTogether
  BY <1>2 DEF Init, RowsBelongTogether
<1>5. NumberedDensely
  <2>. SUFFICES ASSUME NEW counter \in Stations \X Days
                PROVE  /\ {sample[p].sequence : p \in Taken(counter)}
                             = 1..Cardinality(Taken(counter))
                       /\ nextValue[counter] = Cardinality(Taken(counter)) + 1
    BY DEF NumberedDensely
  <2>1. Taken(counter) = {} /\ Cardinality(Taken(counter)) = 0
    BY <1>2, FS_EmptySet DEF Taken
  <2>2. {sample[p].sequence : p \in Taken(counter)} = {} /\ 1..0 = {}
    BY <2>1
  <2>3. nextValue[counter] = 1
    BY DEF Init
  <2>. QED
    BY <2>1, <2>2, <2>3
<1>6. CustodyFollowsStatus
  BY <1>2 DEF Init, CustodyFollowsStatus
<1>7. TestedOnOneReview
  BY <1>2 DEF TestedOnOneReview
<1>8. ExceedancesAnswered
  BY DEF Init, ExceedancesAnswered
<1>. QED
  BY <1>1, <1>3, <1>4, <1>5, <1>6, <1>7, <1>8 DEF IInv

-----------------------------------------------------------------------------
(* What a step keeps when it leaves a table alone.                         *)

LEMMA PlansUntouched ==
    ASSUME IInv, UNCHANGED plan
    PROVE  PlansAreFinite'
BY DEF IInv, PlansAreFinite, Exists

\* The samples keep the columns of their labels.
LEMMA LabelsUntouched ==
    ASSUME IInv, UNCHANGED <<nextValue, Collected>>,
           \A p \in Collected : /\ plan'[p].station = plan[p].station
                                /\ sample'[p].collectedAt = sample[p].collectedAt
                                /\ sample'[p].sequence = sample[p].sequence
    PROVE  NumberedDensely'
<1>. SUFFICES ASSUME NEW counter \in Stations \X Days
              PROVE  /\ {sample'[p].sequence : p \in Taken(counter)'}
                           = 1..Cardinality(Taken(counter)')
                     /\ nextValue'[counter] = Cardinality(Taken(counter)') + 1
  BY DEF NumberedDensely
<1>1. Taken(counter)' = Taken(counter)
  BY DEF Taken, Counter
<1>2. {sample'[p].sequence : p \in Taken(counter)} = {sample[p].sequence : p \in Taken(counter)}
  BY DEF Taken
<1>. QED
  BY <1>1, <1>2 DEF IInv, NumberedDensely

LEMMA CustodyUntouched ==
    ASSUME IInv, UNCHANGED <<sample, custody>>
    PROVE  CustodyFollowsStatus'
BY DEF IInv, CustodyFollowsStatus, Collected

LEMMA ReviewsUntouched ==
    ASSUME IInv, UNCHANGED <<sample, result>>
    PROVE  TestedOnOneReview'
BY DEF IInv, TestedOnOneReview, Collected

LEMMA AnswersUntouched ==
    ASSUME IInv, UNCHANGED <<result, incidents, outbox>>
    PROVE  ExceedancesAnswered'
BY DEF IInv, ExceedancesAnswered

-----------------------------------------------------------------------------
(* A plan whose status alone changes.                                      *)
LEMMA TransitionPlanFields ==
    ASSUME TypeOK, NEW p \in Plans, Exists(p), NEW to \in SamplingPlanStatus,
           TransitionSamplingPlan(p, to)
    PROVE  /\ plan' \in [Plans -> PlanRow \cup {None}]
           /\ Exists(p)' /\ plan'[p].status = to
           /\ plan'[p].station = plan[p].station /\ plan'[p].window = plan[p].window
           /\ \A q \in Plans \ {p} : plan'[q] = plan[q]
<1>1. PICK row \in PlanRow : row = plan[p]
  BY RowsAreRows
<1>2. PICK new : new = [row EXCEPT !.status = to]
  OBVIOUS
<1>3. /\ new \in PlanRow /\ new.status = to
      /\ new.station = row.station /\ new.window = row.window
  BY <1>2 DEF PlanRow
<1>4. plan' = [plan EXCEPT ![p] = new]
  BY <1>1, <1>2 DEF TransitionSamplingPlan
<1>5. plan'[p] = new /\ \A q \in Plans \ {p} : plan'[q] = plan[q]
  BY <1>4 DEF TypeOK
<1>6. plan' \in [Plans -> PlanRow \cup {None}]
  BY <1>3, <1>4 DEF TypeOK
<1>. QED
  BY <1>1, <1>3, <1>5, <1>6, NoRowIsNone DEF Exists

(* No plan comes or goes.                                                  *)
LEMMA SamePlans ==
    ASSUME IInv, \A p \in Plans : Exists(p)' <=> Exists(p)
    PROVE  PlansAreFinite'
<1>1. {p \in Plans : Exists(p)'} = {p \in Plans : Exists(p)}
  OBVIOUS
<1>. QED
  BY <1>1 DEF IInv, PlansAreFinite

-----------------------------------------------------------------------------
(* The plans.                                                              *)

LEMMA CreatePlanInv ==
    ASSUME IInv, NEW p \in Plans, CreatePlan(p)
    PROVE  IInv'
<1>1. PICK s \in Stations, u \in CanCollect, w \in Windows :
          /\ Cardinality(OverlappingPlans(s, w)) < Capacity
          /\ plan' = [plan EXCEPT ![p] =
                        [station |-> s, assignee |-> u, window |-> w, status |-> "draft"]]
  BY DEF CreatePlan
<1>2. UNCHANGED <<nextValue, sample, custody, result, incidents, outbox>>
  BY DEF CreatePlan
<1>3. PICK new \in PlanRow :
          new = [station |-> s, assignee |-> u, window |-> w, status |-> "draft"]
  BY DEF PlanRow, SamplingPlanStatus
<1>4. /\ new.station = s /\ new.window = w /\ new.status = "draft" /\ new # None
      /\ w.start \in Nat /\ w.end \in Nat
  BY <1>3, NoRowIsNone, SampleChainAssumption
<1>5. /\ plan'[p] = new /\ \A q \in Plans \ {p} : plan'[q] = plan[q]
      /\ plan' \in [Plans -> PlanRow \cup {None}]
  BY <1>1, <1>3 DEF IInv, TypeOK
<1>6. ~Exists(p) /\ p \notin Collected
  BY DEF CreatePlan, IInv, RowsBelongTogether
<1>7. Collected' = Collected
  BY <1>2 DEF Collected
<1>8. TypeOK'
  BY <1>2, <1>5 DEF IInv, TypeOK
<1>9. PlansAreFinite'
  <2>1. {q \in Plans : Exists(q)'} = {q \in Plans : Exists(q)} \cup {p}
    BY <1>4, <1>5 DEF Exists
  <2>. QED
    BY <2>1, FS_AddElement DEF IInv, PlansAreFinite
<1>10. RowsBelongTogether'
  BY <1>2, <1>5, <1>6, <1>7 DEF IInv, RowsBelongTogether, Exists, Collected
<1>11. NumberedDensely'
  BY <1>2, <1>5, <1>6, <1>7, LabelsUntouched DEF Collected
<1>12. CustodyFollowsStatus' /\ TestedOnOneReview' /\ ExceedancesAnswered'
  BY <1>2, CustodyUntouched, ReviewsUntouched, AnswersUntouched
<1>. QED
  BY <1>8, <1>9, <1>10, <1>11, <1>12 DEF IInv

LEMMA PublishPlanInv ==
    ASSUME IInv, NEW p \in Plans, PublishPlan(p)
    PROVE  IInv'
<1>1. UNCHANGED <<nextValue, sample, custody, result, incidents, outbox>>
  BY DEF PublishPlan
<1>2. Exists(p) /\ plan[p].status = "draft" /\ p \notin Collected
  BY DEF PublishPlan, IInv, RowsBelongTogether
<1>3. /\ plan' \in [Plans -> PlanRow \cup {None}]
      /\ Exists(p)' /\ plan'[p].station = plan[p].station
      /\ plan'[p].window = plan[p].window
      /\ \A q \in Plans \ {p} : plan'[q] = plan[q]
  BY <1>2, TransitionPlanFields DEF PublishPlan, IInv, SamplingPlanStatus
<1>4. Collected' = Collected
  BY <1>1 DEF Collected
<1>5. TypeOK'
  BY <1>1, <1>3 DEF IInv, TypeOK
<1>6. PlansAreFinite'
  BY <1>2, <1>3, SamePlans DEF Exists
<1>7. RowsBelongTogether'
  BY <1>1, <1>2, <1>3, <1>4 DEF IInv, RowsBelongTogether, Exists, Collected
<1>8. NumberedDensely'
  BY <1>1, <1>2, <1>3, <1>4, LabelsUntouched DEF Collected
<1>9. CustodyFollowsStatus' /\ TestedOnOneReview' /\ ExceedancesAnswered'
  BY <1>1, CustodyUntouched, ReviewsUntouched, AnswersUntouched
<1>. QED
  BY <1>5, <1>6, <1>7, <1>8, <1>9 DEF IInv

-----------------------------------------------------------------------------
(* The samples.                                                            *)

LEMMA CollectInv ==
    ASSUME IInv, NEW p \in Plans, NEW u \in Users, NEW at \in Instants, Collect(p, u, at)
    PROVE  IInv'
<1>1. PICK counter \in Stations \X Days : counter = <<plan[p].station, BusinessDay(at)>>
  BY RowsAreRows DEF Collect, IInv, PlanRow, Days, BusinessDay
<1>2. PICK sequence \in Nat \ {0} : sequence = nextValue[counter]
  BY DEF IInv, TypeOK
<1>3. PICK new \in SampleRow :
          /\ new.status = "collected" /\ new.custodian = u
          /\ new.collectedAt = at /\ new.sequence = sequence
          /\ sample' = [sample EXCEPT ![p] = new]
  <2>. DEFINE row == [status |-> "collected", custodian |-> u, collectedAt |-> at,
                      sequence |-> sequence]
  <2>1. row \in SampleRow
    BY DEF SampleRow, SampleStatus
  <2>2. sample' = [sample EXCEPT ![p] = row]
    BY <1>1, <1>2 DEF Collect, NextSampleSequence
  <2>. QED
    BY <2>1, <2>2
<1>4. PICK event \in CustodyRow :
          /\ event.from = None /\ event.to = u /\ event.action = "collected"
          /\ custody' = [custody EXCEPT ![p] = <<event>>]
  <2>. DEFINE row == [from |-> None, to |-> u, action |-> "collected"]
  <2>1. row \in CustodyRow
    BY DEF CustodyRow, SampleStatus
  <2>. QED
    BY <2>1 DEF Collect
<1>5. /\ nextValue' = [nextValue EXCEPT ![counter] = @ + 1]
      /\ UNCHANGED <<result, incidents, outbox>>
      /\ Exists(p) /\ plan[p].status = "published" /\ TransitionSamplingPlan(p, "completed")
  BY <1>1 DEF Collect
<1>6. p \notin Collected
  BY <1>5 DEF IInv, RowsBelongTogether
<1>7. /\ plan' \in [Plans -> PlanRow \cup {None}]
      /\ Exists(p)' /\ plan'[p].status = "completed"
      /\ plan'[p].station = plan[p].station /\ plan'[p].window = plan[p].window
      /\ \A q \in Plans \ {p} : plan'[q] = plan[q]
  BY <1>5, TransitionPlanFields DEF IInv, SamplingPlanStatus
<1>8. /\ sample'[p] = new /\ new # None /\ \A q \in Plans \ {p} : sample'[q] = sample[q]
      /\ sample' \in [Plans -> SampleRow \cup {None}]
  BY <1>3, NoRowIsNone DEF IInv, TypeOK
<1>9. /\ custody'[p] = <<event>> /\ \A q \in Plans \ {p} : custody'[q] = custody[q]
      /\ custody' \in [Plans -> Seq(CustodyRow)]
  BY <1>4 DEF IInv, TypeOK
<1>10. /\ nextValue'[counter] = sequence + 1
       /\ \A c \in (Stations \X Days) \ {counter} : nextValue'[c] = nextValue[c]
       /\ nextValue' \in [Stations \X Days -> Nat \ {0}]
  <2>1. nextValue' = [nextValue EXCEPT ![counter] = sequence + 1]
    BY <1>2, <1>5
  <2>. QED
    BY <2>1 DEF IInv, TypeOK
<1>11. Collected' = Collected \cup {p}
  BY <1>8 DEF Collected
<1>12. TypeOK'
  BY <1>5, <1>7, <1>8, <1>9, <1>10 DEF IInv, TypeOK
<1>13. PlansAreFinite'
  BY <1>5, <1>7, SamePlans DEF Exists
<1>14. RowsBelongTogether'
  BY <1>5, <1>6, <1>7, <1>11 DEF IInv, RowsBelongTogether, Exists, Collected
<1>15. NumberedDensely'
  <2>. SUFFICES ASSUME NEW c \in Stations \X Days
                PROVE  /\ {sample'[q].sequence : q \in Taken(c)'} = 1..Cardinality(Taken(c)')
                       /\ nextValue'[c] = Cardinality(Taken(c)') + 1
    BY DEF NumberedDensely
  <2>1. PICK n \in Nat : /\ n = Cardinality(Taken(c)) /\ IsFiniteSet(Taken(c))
                         /\ {sample[q].sequence : q \in Taken(c)} = 1..n
                         /\ nextValue[c] = n + 1
    <3>1. Taken(c) \subseteq {q \in Plans : Exists(q)}
      BY DEF Taken, Collected, IInv, RowsBelongTogether
    <3>2. IsFiniteSet(Taken(c))
      BY <3>1, FS_Subset DEF IInv, PlansAreFinite
    <3>. QED
      BY <3>2, FS_CardinalityType DEF IInv, NumberedDensely
  <2>2. p \notin Taken(c)
    BY <1>6 DEF Taken
  <2>3. \A q \in Collected : Counter(q)' = Counter(q)
    BY <1>6, <1>7, <1>8 DEF Counter, Collected
  <2>4. Counter(p)' = counter
    BY <1>1, <1>3, <1>7, <1>8 DEF Counter
  <2>5. {sample'[q].sequence : q \in Taken(c)} = 1..n
    <3>1. \A q \in Taken(c) : sample'[q] = sample[q]
      BY <1>6, <1>8 DEF Taken, Collected
    <3>. QED
      BY <2>1, <3>1
  <2>6. CASE c = counter
    <3>1. Taken(c)' = Taken(c) \cup {p}
      BY <1>11, <2>3, <2>4, <2>6 DEF Taken
    <3>2. Cardinality(Taken(c)') = n + 1
      BY <2>1, <2>2, <3>1, FS_AddElement
    <3>3. sample'[p].sequence = n + 1
      BY <1>2, <1>3, <1>8, <2>1, <2>6
    <3>4. {sample'[q].sequence : q \in Taken(c)'} = (1..n) \cup {n + 1}
      BY <2>5, <3>1, <3>3
    <3>5. (1..n) \cup {n + 1} = 1..(n + 1)
      BY <2>1
    <3>6. nextValue'[c] = n + 1 + 1
      BY <1>2, <1>10, <2>1, <2>6
    <3>. QED
      BY <3>2, <3>4, <3>5, <3>6
  <2>7. CASE c # counter
    <3>1. Taken(c)' = Taken(c)
      BY <1>11, <2>3, <2>4, <2>7 DEF Taken
    <3>. QED
      BY <1>10, <2>1, <2>5, <2>7, <3>1
  <2>. QED
    BY <2>6, <2>7
<1>16. CustodyFollowsStatus'
  <2>. SUFFICES ASSUME NEW q \in Plans
                PROVE  LET events == custody'[q]
                           n == Len(events)
                       IN
                       IF q \notin Collected' THEN events = <<>>
                       ELSE /\ n \in 1..3
                            /\ sample'[q].status = "tested" => n = 3
                            /\ sample'[q].status # "tested" => sample'[q].status = Chain[n]
                            /\ \A i \in 1..n : events[i].action = Chain[i]
                            /\ events[1].from = None
                            /\ \A i \in 2..n : events[i].from = events[i - 1].to
                            /\ events[n].to = sample'[q].custodian
    BY DEF CustodyFollowsStatus
  <2>1. CASE q = p
    <3>1. Len(<<event>>) = 1 /\ <<event>>[1] = event /\ Chain[1] = "collected"
      BY DEF Chain
    <3>2. \A i \in 1..1 : i = 1
      OBVIOUS
    <3>. QED
      BY <1>3, <1>4, <1>8, <1>9, <1>11, <2>1, <3>1, <3>2
  <2>2. CASE q # p
    BY <1>8, <1>9, <1>11, <2>2 DEF IInv, CustodyFollowsStatus
  <2>. QED
    BY <2>1, <2>2
<1>17. TestedOnOneReview'
  <2>. SUFFICES ASSUME NEW q \in Collected'
                PROVE  /\ Cardinality(Approved(q)') <= 1
                       /\ sample'[q].status = "tested" <=> Approved(q)' # {}
                       /\ \A t \in Approved(q)' :
                             result'[<<q, t>>].reviewer \notin {None, result'[<<q, t>>].analyst}
    BY DEF TestedOnOneReview, Approved
  <2>1. Approved(q)' = Approved(q)
    BY <1>5 DEF Approved
  <2>2. CASE q = p
    <3>1. Approved(p) = {}
      <4>1. \A t \in Tests : <<p, t>> \in Results /\ <<p, t>>[1] = p
        BY DEF Results
      <4>. QED
        BY <1>6, <4>1 DEF Approved, IInv, RowsBelongTogether
    <3>. QED
      BY <1>3, <1>8, <2>1, <2>2, <3>1, FS_EmptySet
  <2>3. CASE q # p
    <3>1. q \in Collected /\ sample'[q] = sample[q]
      BY <1>8, <1>11, <2>3 DEF Collected
    <3>. QED
      BY <1>5, <2>1, <3>1 DEF IInv, TestedOnOneReview, Approved
  <2>. QED
    BY <2>2, <2>3
<1>18. ExceedancesAnswered'
  BY <1>5, AnswersUntouched
<1>. QED
  BY <1>12, <1>13, <1>14, <1>15, <1>16, <1>17, <1>18 DEF IInv

(* A sample whose status and custodian alone change.                       *)
LEMMA TransitionSampleFields ==
    ASSUME TypeOK, NEW p \in Collected, NEW to \in SampleStatus, NEW custodian \in Users,
           TransitionSample(p, to, custodian)
    PROVE  /\ sample' \in [Plans -> SampleRow \cup {None}]
           /\ Collected' = Collected
           /\ sample'[p].status = to /\ sample'[p].custodian = custodian
           /\ sample'[p].collectedAt = sample[p].collectedAt
           /\ sample'[p].sequence = sample[p].sequence
           /\ \A q \in Plans \ {p} : sample'[q] = sample[q]
<1>1. PICK row \in SampleRow : row = sample[p]
  BY RowsAreRows
<1>2. PICK new : new = [row EXCEPT !.status = to, !.custodian = custodian]
  OBVIOUS
<1>3. /\ new \in SampleRow /\ new.status = to /\ new.custodian = custodian
      /\ new.collectedAt = row.collectedAt /\ new.sequence = row.sequence
  BY <1>2 DEF SampleRow
<1>4. p \in Plans /\ sample[p] # None /\ new # None
  BY <1>3, NoRowIsNone DEF Collected
<1>5. sample' = [sample EXCEPT ![p] = new]
  BY <1>1, <1>2, <1>4 DEF TransitionSample, TypeOK
<1>6. /\ sample'[p] = new /\ \A q \in Plans \ {p} : sample'[q] = sample[q]
      /\ sample' \in [Plans -> SampleRow \cup {None}]
  BY <1>3, <1>4, <1>5 DEF TypeOK
<1>7. Collected' = Collected
  BY <1>4, <1>6 DEF Collected
<1>. QED
  BY <1>1, <1>3, <1>6, <1>7

LEMMA HandoffInv ==
    ASSUME IInv, NEW p \in Plans, NEW u \in Users, NEW receiver \in Users,
           Handoff(p, u, receiver)
    PROVE  IInv'
<1>1. /\ p \in Collected /\ UNCHANGED <<plan, nextValue, result, incidents, outbox>>
      /\ TransitionSample(p, HandoffStatus[sample[p].status], receiver)
  BY DEF Handoff
<1>2. sample[p].status \in {"collected", "in_transit"}
  BY DEF Handoff, HandoffStatus
<1>3. PICK to \in {"in_transit", "received"} :
          /\ to = HandoffStatus[sample[p].status]
          /\ to = IF sample[p].status = "collected" THEN "in_transit" ELSE "received"
  BY <1>2 DEF HandoffStatus
<1>4. /\ sample' \in [Plans -> SampleRow \cup {None}]
      /\ Collected' = Collected
      /\ sample'[p].status = to /\ sample'[p].custodian = receiver
      /\ sample'[p].collectedAt = sample[p].collectedAt
      /\ sample'[p].sequence = sample[p].sequence
      /\ \A q \in Plans \ {p} : sample'[q] = sample[q]
  BY <1>1, <1>3, TransitionSampleFields DEF IInv, SampleStatus
<1>5. PICK event \in CustodyRow :
          /\ event.from = sample[p].custodian /\ event.to = receiver /\ event.action = to
          /\ custody' = [custody EXCEPT ![p] = Append(custody[p], event)]
  <2>. DEFINE row == [from |-> sample[p].custodian, to |-> receiver, action |-> to]
  <2>1. row \in CustodyRow
    BY <1>1, RowsAreRows DEF IInv, SampleRow, CustodyRow, SampleStatus
  <2>2. custody' = [custody EXCEPT ![p] = Append(custody[p], row)]
    BY <1>3 DEF Handoff, CustodyEvent
  <2>. QED
    BY <2>1, <2>2
<1>6. PICK events \in Seq(CustodyRow) : events = custody[p]
  BY DEF IInv, TypeOK
<1>7. PICK longer \in Seq(CustodyRow) : longer = Append(events, event)
  BY AppendProperties
<1>8. /\ custody'[p] = longer /\ \A q \in Plans \ {p} : custody'[q] = custody[q]
      /\ custody' \in [Plans -> Seq(CustodyRow)]
  BY <1>5, <1>6, <1>7 DEF IInv, TypeOK
<1>9. TypeOK'
  BY <1>1, <1>4, <1>8 DEF IInv, TypeOK
<1>10. PlansAreFinite'
  BY <1>1, PlansUntouched
<1>11. RowsBelongTogether'
  BY <1>1, <1>4 DEF IInv, RowsBelongTogether, Exists
<1>12. NumberedDensely'
  <2>1. \A q \in Collected : /\ plan'[q].station = plan[q].station
                             /\ sample'[q].collectedAt = sample[q].collectedAt
                             /\ sample'[q].sequence = sample[q].sequence
    BY <1>1, <1>4 DEF Collected
  <2>. QED
    BY <1>1, <1>4, <2>1, LabelsUntouched
<1>13. CustodyFollowsStatus'
  <2>. SUFFICES ASSUME NEW q \in Plans
                PROVE  LET chain == custody'[q]
                           n == Len(chain)
                       IN
                       IF q \notin Collected' THEN chain = <<>>
                       ELSE /\ n \in 1..3
                            /\ sample'[q].status = "tested" => n = 3
                            /\ sample'[q].status # "tested" => sample'[q].status = Chain[n]
                            /\ \A i \in 1..n : chain[i].action = Chain[i]
                            /\ chain[1].from = None
                            /\ \A i \in 2..n : chain[i].from = chain[i - 1].to
                            /\ chain[n].to = sample'[q].custodian
    BY DEF CustodyFollowsStatus
  <2>1. CASE q = p
    <3>1. /\ Len(events) \in 1..3
          /\ sample[p].status = Chain[Len(events)]
          /\ \A i \in 1..Len(events) : events[i].action = Chain[i]
          /\ events[1].from = None
          /\ \A i \in 2..Len(events) : events[i].from = events[i - 1].to
          /\ events[Len(events)].to = sample[p].custodian
      BY <1>1, <1>2, <1>6 DEF IInv, CustodyFollowsStatus
    <3>2. Chain[1] = "collected" /\ Chain[2] = "in_transit" /\ Chain[3] = "received"
      BY DEF Chain
    <3>3. PICK n \in 1..2 : n = Len(events) /\ to = Chain[n + 1]
      <4>1. CASE Len(events) = 1
        <5>1. to = Chain[1 + 1]
          BY <1>3, <3>1, <3>2, <4>1
        <5>. QED
          BY <4>1, <5>1
      <4>2. CASE Len(events) = 2
        <5>1. to = Chain[2 + 1]
          BY <1>3, <3>1, <3>2, <4>2
        <5>. QED
          BY <4>2, <5>1
      <4>3. Len(events) # 3
        BY <1>2, <3>1, <3>2
      <4>. QED
        BY <3>1, <4>1, <4>2, <4>3
    <3>4. /\ Len(longer) = n + 1 /\ longer[n + 1] = event
          /\ \A i \in 1..n : longer[i] = events[i]
      BY <1>7, <3>3, AppendProperties
    <3>5. /\ \A i \in 1..(n + 1) : longer[i].action = Chain[i]
          /\ longer[1].from = None
      BY <1>5, <3>1, <3>3, <3>4
    <3>6. \A i \in 2..(n + 1) : longer[i].from = longer[i - 1].to
      <4>. SUFFICES ASSUME NEW i \in 2..(n + 1) PROVE longer[i].from = longer[i - 1].to
        OBVIOUS
      <4>1. CASE i = n + 1
        <5>1. longer[n].to = sample[p].custodian /\ i - 1 = n
          BY <3>1, <3>3, <3>4, <4>1
        <5>. QED
          BY <1>5, <3>4, <4>1, <5>1
      <4>2. CASE i # n + 1
        <5>1. i \in 2..n /\ i - 1 \in 1..n /\ i \in 1..n
          BY <4>2
        <5>. QED
          BY <3>1, <3>3, <3>4, <5>1
      <4>. QED
        BY <4>1, <4>2
    <3>7. n + 1 \in 1..3 /\ to # "tested"
      BY <1>3
    <3>8. PICK m \in 1..3 : m = n + 1
      BY <3>7
    <3>9. /\ custody'[q] = longer /\ Len(longer) = m
          /\ sample'[q].status = Chain[m] /\ sample'[q].status # "tested"
          /\ longer[m].to = sample'[q].custodian
      BY <1>4, <1>5, <1>8, <2>1, <3>3, <3>4, <3>7, <3>8
    <3>10. /\ Len(custody'[q]) = m /\ custody'[q] # <<>>
           /\ \A i \in 1..m : custody'[q][i].action = Chain[i]
           /\ custody'[q][1].from = None
           /\ \A i \in 2..m : custody'[q][i].from = custody'[q][i - 1].to
           /\ custody'[q][m].to = sample'[q].custodian
      BY <3>5, <3>6, <3>8, <3>9
    <3>11. q \in Collected'
      BY <1>1, <1>4, <2>1
    <3>. QED
      BY <3>8, <3>9, <3>10, <3>11
  <2>2. CASE q # p
    <3>1. custody'[q] = custody[q] /\ (q \in Collected' <=> q \in Collected)
      BY <1>4, <1>8, <2>2
    <3>2. q \in Collected => sample'[q] = sample[q]
      BY <1>4, <2>2
    <3>. QED
      BY <3>1, <3>2 DEF IInv, CustodyFollowsStatus
  <2>. QED
    BY <2>1, <2>2
<1>14. TestedOnOneReview'
  <2>1. \A q \in Collected : sample'[q].status = "tested" <=> sample[q].status = "tested"
    BY <1>2, <1>3, <1>4 DEF Collected
  <2>2. UNCHANGED <<Collected, result>>
    BY <1>1, <1>4
  <2>3. \A q \in Plans : Approved(q)' = Approved(q)
    BY <2>2 DEF Approved
  <2>. QED
    BY <2>1, <2>2, <2>3 DEF IInv, TestedOnOneReview, Approved
<1>15. ExceedancesAnswered'
  BY <1>1, AnswersUntouched
<1>. QED
  BY <1>9, <1>10, <1>11, <1>12, <1>13, <1>14, <1>15 DEF IInv

-----------------------------------------------------------------------------
(* The results.                                                            *)

(* A result that is not approved before or after a step that writes it and *)
(* no other.                                                               *)
LEMMA UnapprovedResultInv ==
    ASSUME IInv, NEW r \in Results, r[1] \in Collected,
           UNCHANGED <<plan, nextValue, sample, custody, incidents, outbox>>,
           result' \in [Results -> ResultRow \cup {None}],
           \A q \in Results \ {r} : result'[q] = result[q],
           result[r] = None \/ result[r].status # "approved",
           result'[r].status # "approved"
    PROVE  IInv'
<1>1. TypeOK'
  BY DEF IInv, TypeOK
<1>2. PlansAreFinite' /\ CustodyFollowsStatus'
  BY PlansUntouched, CustodyUntouched
<1>3. Collected' = Collected
  BY DEF Collected
<1>4. RowsBelongTogether'
  BY <1>3 DEF IInv, RowsBelongTogether, Exists
<1>5. NumberedDensely'
  BY <1>3, LabelsUntouched
<1>6. TestedOnOneReview'
  <2>1. \A q \in Plans : Approved(q)' = Approved(q)
    <3>1. \A q \in Plans, t \in Tests : <<q, t>> \in Results
      BY DEF Results
    <3>. QED
      BY <3>1 DEF Approved
  <2>2. \A q \in Plans : \A t \in Approved(q) : result'[<<q, t>>] = result[<<q, t>>]
    BY DEF Approved, Results
  <2>. SUFFICES ASSUME NEW q \in Collected
                PROVE  /\ Cardinality(Approved(q)') <= 1
                       /\ sample'[q].status = "tested" <=> Approved(q)' # {}
                       /\ \A t \in Approved(q)' :
                             result'[<<q, t>>].reviewer \notin {None, result'[<<q, t>>].analyst}
    BY <1>3 DEF TestedOnOneReview, Approved
  <2>3. q \in Plans
    BY DEF Collected
  <2>4. /\ Cardinality(Approved(q)) <= 1
        /\ sample[q].status = "tested" <=> Approved(q) # {}
        /\ \A t \in Approved(q) :
              result[<<q, t>>].reviewer \notin {None, result[<<q, t>>].analyst}
    BY DEF IInv, TestedOnOneReview, Approved
  <2>. QED
    BY <2>1, <2>2, <2>3, <2>4
<1>7. ExceedancesAnswered'
  BY DEF IInv, ExceedancesAnswered
<1>. QED
  BY <1>1, <1>2, <1>4, <1>5, <1>6, <1>7 DEF IInv

(* A result whose status and reviewer alone change.                        *)
LEMMA TransitionLabResultFields ==
    ASSUME TypeOK, NEW r \in Results, result[r] # None, NEW to \in LabResultStatus,
           NEW reviewer \in CanAnalyze \cup {None}, TransitionLabResult(r, to, reviewer)
    PROVE  /\ result' \in [Results -> ResultRow \cup {None}]
           /\ result'[r] # None /\ result'[r].status = to
           /\ result'[r].reviewer = reviewer
           /\ result'[r].analyst = result[r].analyst
           /\ result'[r].exceeds = result[r].exceeds
           /\ \A q \in Results \ {r} : result'[q] = result[q]
<1>1. PICK row \in ResultRow : row = result[r]
  BY RowsAreRows
<1>2. PICK new : new = [row EXCEPT !.status = to, !.reviewer = reviewer]
  OBVIOUS
<1>3. /\ new \in ResultRow /\ new.status = to /\ new.reviewer = reviewer
      /\ new.analyst = row.analyst /\ new.exceeds = row.exceeds
  BY <1>2 DEF ResultRow
<1>4. result' = [result EXCEPT ![r] = new]
  BY <1>1, <1>2 DEF TransitionLabResult, TypeOK
<1>5. /\ result'[r] = new /\ \A q \in Results \ {r} : result'[q] = result[q]
      /\ result' \in [Results -> ResultRow \cup {None}]
  BY <1>3, <1>4 DEF TypeOK
<1>. QED
  BY <1>1, <1>3, <1>5, NoRowIsNone

LEMMA RecordResultInv ==
    ASSUME IInv, NEW r \in Results, NEW u \in Users, RecordResult(r, u)
    PROVE  IInv'
<1>1. PICK exceeds \in BOOLEAN :
          result' = [result EXCEPT ![r] =
             [status |-> "draft", analyst |-> u, reviewer |-> None, exceeds |-> exceeds]]
  BY DEF RecordResult
<1>2. u \in CanAnalyze
  BY DEF RecordResult, CanAnalyze
<1>3. PICK row \in ResultRow : /\ row.status = "draft"
                               /\ result' = [result EXCEPT ![r] = row]
  <2>. DEFINE new == [status |-> "draft", analyst |-> u, reviewer |-> None, exceeds |-> exceeds]
  <2>1. new \in ResultRow
    BY <1>2 DEF ResultRow, LabResultStatus
  <2>. QED
    BY <1>1, <2>1
<1>4. /\ result' \in [Results -> ResultRow \cup {None}] /\ result'[r] = row
      /\ \A q \in Results \ {r} : result'[q] = result[q]
  BY <1>3 DEF IInv, TypeOK
<1>. QED
  BY <1>3, <1>4, UnapprovedResultInv DEF RecordResult

LEMMA SubmitInv ==
    ASSUME IInv, NEW r \in Results, NEW u \in Users, Submit(r, u)
    PROVE  IInv'
<1>1. r[1] \in Collected /\ result[r] # None /\ result[r].status = "draft"
  BY DEF Submit, IInv, RowsBelongTogether
<1>. QED
  BY <1>1, TransitionLabResultFields, UnapprovedResultInv DEF Submit, IInv, LabResultStatus

LEMMA ReviewRejectInv ==
    ASSUME IInv, NEW r \in Results, NEW u \in Users, ReviewReject(r, u)
    PROVE  IInv'
<1>1. r[1] \in Collected /\ result[r] # None /\ result[r].status = "submitted" /\ u \in CanAnalyze
  BY DEF ReviewReject, MayReview, IInv, RowsBelongTogether
<1>. QED
  BY <1>1, TransitionLabResultFields, UnapprovedResultInv DEF ReviewReject, IInv, LabResultStatus

LEMMA ReviewApproveInv ==
    ASSUME IInv, NEW r \in Results, NEW u \in Users, ReviewApprove(r, u)
    PROVE  IInv'
<1>1. PICK p \in Plans, t \in Tests : r = <<p, t>> /\ r[1] = p
  BY DEF Results
<1>2. /\ result[r] # None /\ result[r].status = "submitted"
      /\ u \in CanAnalyze /\ u # result[r].analyst /\ u # None
  BY SampleChainAssumption DEF ReviewApprove, MayReview, CanAnalyze, Users
<1>3. p \in Collected /\ sample[p].status = "received"
  BY <1>1, <1>2 DEF ReviewApprove, Testable, IInv, RowsBelongTogether
<1>4. /\ result' \in [Results -> ResultRow \cup {None}]
      /\ result'[r] # None /\ result'[r].status = "approved" /\ result'[r].reviewer = u
      /\ result'[r].analyst = result[r].analyst /\ result'[r].exceeds = result[r].exceeds
      /\ \A q \in Results \ {r} : result'[q] = result[q]
  BY <1>2, TransitionLabResultFields DEF ReviewApprove, IInv, LabResultStatus
<1>5. /\ sample' \in [Plans -> SampleRow \cup {None}]
      /\ Collected' = Collected
      /\ sample'[p].status = "tested" /\ sample'[p].custodian = sample[p].custodian
      /\ sample'[p].collectedAt = sample[p].collectedAt
      /\ sample'[p].sequence = sample[p].sequence
      /\ \A q \in Plans \ {p} : sample'[q] = sample[q]
  <2>1. PICK custodian \in Users : custodian = sample[p].custodian
    BY <1>3, RowsAreRows DEF IInv, SampleRow
  <2>2. TransitionSample(p, "tested", custodian)
    BY <1>1, <2>1 DEF ReviewApprove
  <2>. QED
    BY <1>3, <2>1, <2>2, TransitionSampleFields DEF IInv, SampleStatus
<1>6. /\ UNCHANGED <<plan, nextValue, custody>>
      /\ incidents' = incidents \cup Exceedance(r) /\ outbox' = outbox \cup Exceedance(r)
  BY DEF ReviewApprove
<1>7. TypeOK'
  BY <1>4, <1>5, <1>6 DEF IInv, TypeOK, Exceedance
<1>8. PlansAreFinite'
  BY <1>6, PlansUntouched
<1>9. RowsBelongTogether'
  BY <1>1, <1>3, <1>4, <1>5, <1>6 DEF IInv, RowsBelongTogether, Exists
<1>10. NumberedDensely'
  <2>1. \A q \in Collected : /\ plan'[q].station = plan[q].station
                             /\ sample'[q].collectedAt = sample[q].collectedAt
                             /\ sample'[q].sequence = sample[q].sequence
    BY <1>5, <1>6 DEF Collected
  <2>. QED
    BY <1>5, <1>6, <2>1, LabelsUntouched
<1>11. CustodyFollowsStatus'
  <2>. SUFFICES ASSUME NEW q \in Plans
                PROVE  LET events == custody[q]
                           n == Len(events)
                       IN
                       IF q \notin Collected THEN events = <<>>
                       ELSE /\ n \in 1..3
                            /\ sample'[q].status = "tested" => n = 3
                            /\ sample'[q].status # "tested" => sample'[q].status = Chain[n]
                            /\ \A i \in 1..n : events[i].action = Chain[i]
                            /\ events[1].from = None
                            /\ \A i \in 2..n : events[i].from = events[i - 1].to
                            /\ events[n].to = sample'[q].custodian
    BY <1>5, <1>6 DEF CustodyFollowsStatus
  <2>1. CASE q = p
    <3>1. PICK n \in 1..3 : n = Len(custody[p]) /\ "received" = Chain[n]
      <4>1. /\ Len(custody[p]) \in 1..3
            /\ sample[p].status # "tested" => sample[p].status = Chain[Len(custody[p])]
        BY <1>3 DEF IInv, CustodyFollowsStatus
      <4>. QED
        BY <1>3, <4>1
    <3>2. n = 3
      <4>1. "received" # Chain[1] /\ "received" # Chain[2]
        BY DEF Chain
      <4>2. n # 1 /\ n # 2
        BY <3>1, <4>1
      <4>. QED
        BY <4>2
    <3>. QED
      BY <1>3, <1>5, <2>1, <3>1, <3>2 DEF IInv, CustodyFollowsStatus
  <2>2. CASE q # p
    BY <1>5, <2>2 DEF IInv, CustodyFollowsStatus
  <2>. QED
    BY <2>1, <2>2
<1>12. TestedOnOneReview'
  <2>. SUFFICES ASSUME NEW q \in Collected
                PROVE  /\ Cardinality(Approved(q)') <= 1
                       /\ sample'[q].status = "tested" <=> Approved(q)' # {}
                       /\ \A s \in Approved(q)' :
                             result'[<<q, s>>].reviewer \notin {None, result'[<<q, s>>].analyst}
    BY <1>5 DEF TestedOnOneReview, Approved
  <2>1. /\ Cardinality(Approved(q)) <= 1
        /\ sample[q].status = "tested" <=> Approved(q) # {}
        /\ \A s \in Approved(q) :
              result[<<q, s>>].reviewer \notin {None, result[<<q, s>>].analyst}
    BY DEF IInv, TestedOnOneReview, Approved
  <2>2. q \in Plans /\ \A s \in Tests : <<q, s>> \in Results
    BY DEF Collected, Results
  <2>3. CASE q = p
    <3>1. Approved(p) = {}
      BY <1>3, <2>1, <2>3
    <3>2. \A s \in Tests \ {t} : result'[<<p, s>>] = result[<<p, s>>]
      BY <1>1, <1>4, <2>2, <2>3
    <3>3. Approved(p)' = {t}
      BY <1>1, <1>4, <3>1, <3>2 DEF Approved
    <3>. QED
      BY <1>1, <1>2, <1>4, <1>5, <2>3, <3>3, FS_Singleton
  <2>4. CASE q # p
    <3>1. \A s \in Tests : result'[<<q, s>>] = result[<<q, s>>]
      BY <1>1, <1>4, <2>2, <2>4
    <3>2. Approved(q)' = Approved(q)
      BY <3>1 DEF Approved
    <3>3. sample'[q] = sample[q]
      BY <1>5, <2>2, <2>4
    <3>. QED
      BY <2>1, <3>1, <3>2, <3>3 DEF Approved
  <2>. QED
    BY <2>3, <2>4
<1>13. ExceedancesAnswered'
  <2>1. PICK before : before = {q \in Results : /\ result[q] # None
                                               /\ result[q].status = "approved"
                                               /\ result[q].exceeds}
    OBVIOUS
  <2>2. incidents = before /\ outbox = before
    BY <2>1 DEF IInv, ExceedancesAnswered
  <2>3. {q \in Results : /\ result'[q] # None
                         /\ result'[q].status = "approved"
                         /\ result'[q].exceeds} = before \cup Exceedance(r)
    BY <1>2, <1>4, <2>1 DEF Exceedance
  <2>. QED
    BY <1>6, <2>2, <2>3 DEF ExceedancesAnswered
<1>. QED
  BY <1>7, <1>8, <1>9, <1>10, <1>11, <1>12, <1>13 DEF IInv

-----------------------------------------------------------------------------
LEMMA StutterInv == IInv /\ UNCHANGED vars => IInv'
<1>. SUFFICES ASSUME IInv, UNCHANGED vars PROVE IInv'
  OBVIOUS
<1>1. /\ Collected' = Collected
      /\ UNCHANGED <<plan, nextValue, sample, custody, result, incidents, outbox>>
  BY DEF vars, Collected
<1>2. TypeOK' /\ RowsBelongTogether'
  BY <1>1 DEF IInv, TypeOK, RowsBelongTogether, Exists
<1>. QED
  BY <1>1, <1>2, PlansUntouched, LabelsUntouched, CustodyUntouched, ReviewsUntouched,
     AnswersUntouched DEF IInv

LEMMA NextInv == IInv /\ [Next]_vars => IInv'
<1>. SUFFICES ASSUME IInv, Next PROVE IInv'
  BY StutterInv
<1>1. CASE SamplingStep
  BY <1>1, CreatePlanInv, PublishPlanInv, CollectInv, HandoffInv DEF SamplingStep
<1>2. CASE LaboratoryStep
  BY <1>2, RecordResultInv, SubmitInv, ReviewApproveInv, ReviewRejectInv DEF LaboratoryStep
<1>. QED
  BY <1>1, <1>2 DEF Next

(* The inductive invariant holds of every state a behaviour reaches.       *)
THEOREM Invariance == Spec => []IInv
BY InitInv, NextInv, PTL DEF Spec

(* The types of the tables, after any operations.                          *)
THEOREM TypeCorrect == Spec => []TypeOK
<1>1. IInv => TypeOK
  BY DEF IInv
<1>. QED
  BY <1>1, Invariance, PTL

(* Samples of a station and day are numbered from 1 without a gap or a     *)
(* repetition (NextSampleSequence in the transaction of Collect).          *)
THEOREM NumberingIsDense == Spec => []SequencesAreDense
<1>1. IInv => SequencesAreDense
  <2>. SUFFICES ASSUME IInv, NEW counter \in Stations \X Days
                PROVE  LET taken == {p \in Collected : SubSeq(SampleLabel(p), 1, 2) = counter}
                       IN  /\ {sample[p].sequence : p \in taken} = 1..Cardinality(taken)
                           /\ nextValue[counter] = Cardinality(taken) + 1
    BY DEF SequencesAreDense
  <2>1. {p \in Collected : SubSeq(SampleLabel(p), 1, 2) = counter} = Taken(counter)
    BY LabelPrefix DEF SampleLabel, Taken, Counter
  <2>. QED
    BY <2>1 DEF IInv, NumberedDensely
<1>. QED
  BY <1>1, Invariance, PTL

(* Every sample has one chain of custody, from its collector to its        *)
(* custodian, as long as its status says (Collect, Handoff).               *)
THEOREM CustodyIsAChain == Spec => []CustodyUnbroken
<1>1. IInv => CustodyUnbroken
  <2>. SUFFICES ASSUME IInv, NEW p \in Plans
                PROVE  LET events == custody[p] IN
        IF p \notin Collected THEN events = <<>>
        ELSE /\ [i \in DOMAIN events |-> events[i].action] = SubSeq(Chain, 1, Len(events))
             /\ events # <<>> /\ events[1].from = None
             /\ \A i \in 2..Len(events) : events[i].from = events[i - 1].to
             /\ events[Len(events)].to = sample[p].custodian
             /\ IF sample[p].status = "tested" THEN Len(events) = Len(Chain)
                ELSE sample[p].status = Chain[Len(events)]
    BY DEF CustodyUnbroken
  <2>1. CASE p \notin Collected
    BY <2>1 DEF IInv, CustodyFollowsStatus
  <2>2. CASE p \in Collected
    <3>1. PICK events \in Seq(CustodyRow) : events = custody[p]
      BY DEF IInv, TypeOK
    <3>2. PICK n \in 1..3 : n = Len(events)
      BY <2>2, <3>1 DEF IInv, CustodyFollowsStatus
    <3>3. /\ sample[p].status = "tested" => n = 3
          /\ sample[p].status # "tested" => sample[p].status = Chain[n]
          /\ \A i \in 1..n : events[i].action = Chain[i]
          /\ events[1].from = None
          /\ \A i \in 2..n : events[i].from = events[i - 1].to
          /\ events[n].to = sample[p].custodian
      BY <2>2, <3>1, <3>2 DEF IInv, CustodyFollowsStatus
    <3>4. Chain \in Seq({"collected", "in_transit", "received"}) /\ Len(Chain) = 3
      BY DEF Chain
    <3>5. SubSeq(Chain, 1, n) = [i \in 1..n |-> Chain[i]]
      BY <3>2, <3>4
    <3>6. DOMAIN events = 1..n /\ events # <<>>
      BY <3>2
    <3>7. [i \in DOMAIN events |-> events[i].action] = SubSeq(Chain, 1, n)
      BY <3>3, <3>5, <3>6
    <3>. QED
      BY <2>2, <3>1, <3>2, <3>3, <3>4, <3>6, <3>7
  <2>. QED
    BY <2>1, <2>2
<1>. QED
  BY <1>1, Invariance, PTL

(* A sample is tested exactly when one of its results is approved, and by  *)
(* somebody other than its analyst (Review, Sample.CanTransition).         *)
THEOREM TestsAreReviewed == Spec => []TestedOnOneReview
<1>1. IInv => TestedOnOneReview
  BY DEF IInv
<1>. QED
  BY <1>1, Invariance, PTL

(* The incidents and the notifications that reviews insert are those of    *)
(* the approved exceedances, no more and no fewer (Review).                *)
THEOREM ExceedancesAreAnswered == Spec => []ExceedancesAnswered
<1>1. IInv => ExceedancesAnswered
  BY DEF IInv
<1>. QED
  BY <1>1, Invariance, PTL

-----------------------------------------------------------------------------
(* The capacity of a station.                                              *)

LEMMA SecondsAreNumbers == \A at \in Instants : second(at) \in Nat
BY SampleChainAssumption DEF second

LEMMA PlannedAreFinite ==
    ASSUME IInv, NEW s, NEW sec
    PROVE  /\ IsFiniteSet(PlannedThroughout(s, sec))
           /\ Cardinality(PlannedThroughout(s, sec)) \in Nat
<1>1. PlannedThroughout(s, sec) \subseteq {p \in Plans : Exists(p)}
  BY DEF PlannedThroughout, Pending
<1>. QED
  BY <1>1, FS_Subset, FS_CardinalityType DEF IInv, PlansAreFinite

(* A step after which no plan is pending that was not before.              *)
LEMMA FewerPlanned ==
    ASSUME IInv, CapacityHolds,
           \A p \in Plans : Pending(p)' => /\ Pending(p)
                                           /\ plan'[p].station = plan[p].station
                                           /\ plan'[p].window = plan[p].window
    PROVE  CapacityHolds'
<1>. SUFFICES ASSUME NEW s \in Stations, NEW at \in Instants,
                     NEW sec \in Nat, sec = second(at)
              PROVE  Cardinality(PlannedThroughout(s, sec)') <= Capacity
  BY SecondsAreNumbers DEF CapacityHolds
<1>1. PlannedThroughout(s, sec)' \subseteq PlannedThroughout(s, sec)
  BY DEF PlannedThroughout
<1>2. /\ Cardinality(PlannedThroughout(s, sec)') <= Cardinality(PlannedThroughout(s, sec))
      /\ Cardinality(PlannedThroughout(s, sec)') \in Nat
      /\ Cardinality(PlannedThroughout(s, sec)) \in Nat
  BY <1>1, PlannedAreFinite, FS_Subset, FS_CardinalityType
<1>3. Cardinality(PlannedThroughout(s, sec)) <= Capacity
  BY DEF CapacityHolds
<1>. QED
  BY <1>2, <1>3, SampleChainAssumption

(* Plans that take all of a second that a new window takes too overlap it, *)
(* in the texts as well: the second of their beginning and the second of   *)
(* its end differ.                                                         *)
LEMMA PlannedOverlap ==
    ASSUME IInv, NEW s, NEW w \in Windows, NEW sec \in Nat,
           w.start <= 2 * sec, 2 * sec + 2 <= w.end
    PROVE  PlannedThroughout(s, sec) \subseteq OverlappingPlans(s, w)
<1>. SUFFICES ASSUME NEW q \in PlannedThroughout(s, sec) PROVE q \in OverlappingPlans(s, w)
  OBVIOUS
<1>1. /\ q \in Plans /\ Pending(q) /\ plan[q].station = s
      /\ plan[q].window.start <= 2 * sec /\ 2 * sec + 2 <= plan[q].window.end
  BY DEF PlannedThroughout
<1>2. PICK v \in Windows : v = plan[q].window
  BY <1>1, RowsAreRows DEF IInv, Pending, PlanRow
<1>3. \A u \in Windows : u.start \in Nat /\ u.end \in Nat
  BY SampleChainAssumption
<1>4. \A a, b \in Nat : a <= 2 * sec /\ 2 * sec + 2 <= b => TextLess(a, b)
  BY DEF TextLess, second
<1>5. TextLess(v.start, w.end) /\ TextLess(w.start, v.end)
  BY <1>1, <1>2, <1>3, <1>4
<1>. QED
  BY <1>1, <1>2, <1>5 DEF OverlappingPlans

LEMMA CreatePlanKeepsCapacity ==
    ASSUME IInv, CapacityHolds, NEW p \in Plans, CreatePlan(p)
    PROVE  CapacityHolds'
<1>1. PICK s \in Stations, u \in CanCollect, w \in Windows :
          /\ Cardinality(OverlappingPlans(s, w)) < Capacity
          /\ plan' = [plan EXCEPT ![p] =
                        [station |-> s, assignee |-> u, window |-> w, status |-> "draft"]]
  BY DEF CreatePlan
<1>2. /\ plan'[p].station = s /\ plan'[p].window = w
      /\ \A q \in Plans \ {p} : plan'[q] = plan[q]
  BY <1>1 DEF IInv, TypeOK
<1>. SUFFICES ASSUME NEW t \in Stations, NEW at \in Instants,
                     NEW sec \in Nat, sec = second(at)
              PROVE  Cardinality(PlannedThroughout(t, sec)') <= Capacity
  BY SecondsAreNumbers DEF CapacityHolds
<1>3. \A q \in Plans \ {p} : q \in PlannedThroughout(t, sec)' <=> q \in PlannedThroughout(t, sec)
  BY <1>2 DEF PlannedThroughout, Pending, Exists
<1>4. p \notin PlannedThroughout(t, sec)
  BY DEF CreatePlan, PlannedThroughout, Pending
<1>5. PlannedThroughout(t, sec) \subseteq Plans /\ PlannedThroughout(t, sec)' \subseteq Plans
  BY DEF PlannedThroughout
<1>6. CASE p \notin PlannedThroughout(t, sec)'
  <2>1. PlannedThroughout(t, sec)' = PlannedThroughout(t, sec)
    BY <1>3, <1>4, <1>5, <1>6
  <2>. QED
    BY <2>1 DEF CapacityHolds
<1>7. CASE p \in PlannedThroughout(t, sec)'
  <2>1. t = s /\ w.start <= 2 * sec /\ 2 * sec + 2 <= w.end
    BY <1>2, <1>7 DEF PlannedThroughout
  <2>2. PlannedThroughout(t, sec) \subseteq OverlappingPlans(s, w)
    BY <2>1, PlannedOverlap
  <2>3. IsFiniteSet(OverlappingPlans(s, w))
    <3>1. OverlappingPlans(s, w) \subseteq {q \in Plans : Exists(q)}
      BY DEF OverlappingPlans, Pending
    <3>. QED
      BY <3>1, FS_Subset DEF IInv, PlansAreFinite
  <2>4. /\ Cardinality(PlannedThroughout(t, sec)) <= Cardinality(OverlappingPlans(s, w))
        /\ Cardinality(OverlappingPlans(s, w)) \in Nat
    BY <2>2, <2>3, FS_Subset, FS_CardinalityType
  <2>5. PlannedThroughout(t, sec)' = PlannedThroughout(t, sec) \cup {p}
    BY <1>3, <1>5, <1>7
  <2>6. Cardinality(PlannedThroughout(t, sec)') = Cardinality(PlannedThroughout(t, sec)) + 1
    BY <1>4, <2>5, PlannedAreFinite, FS_AddElement
  <2>. QED
    BY <1>1, <2>4, <2>6, PlannedAreFinite, SampleChainAssumption
<1>. QED
  BY <1>6, <1>7

(* No step but CreatePlan makes a plan pending or moves its window.        *)
LEMMA OthersPlanNothing ==
    ASSUME IInv, [Next]_vars, \A p \in Plans : ~CreatePlan(p)
    PROVE  \A p \in Plans : Pending(p)' => /\ Pending(p)
                                           /\ plan'[p].station = plan[p].station
                                           /\ plan'[p].window = plan[p].window
<1>1. CASE UNCHANGED plan
  BY <1>1 DEF Pending, Exists
<1>2. CASE \E p \in Plans : \E to \in {"published", "completed"} :
              /\ Pending(p) /\ TransitionSamplingPlan(p, to)
  <2>1. PICK p \in Plans : \E to \in {"published", "completed"} :
            Pending(p) /\ TransitionSamplingPlan(p, to)
    BY <1>2
  <2>2. /\ plan'[p].station = plan[p].station /\ plan'[p].window = plan[p].window
        /\ \A q \in Plans \ {p} : plan'[q] = plan[q]
    BY <2>1, TransitionPlanFields DEF IInv, Pending, SamplingPlanStatus
  <2>. QED
    BY <2>1, <2>2 DEF Pending, Exists
<1>3. CASE SamplingStep
  BY <1>1, <1>2, <1>3 DEF SamplingStep, PublishPlan, Collect, Handoff, Pending
<1>4. CASE LaboratoryStep
  BY <1>1, <1>4 DEF LaboratoryStep, RecordResult, Submit, ReviewApprove, ReviewReject
<1>. QED
  BY <1>1, <1>3, <1>4 DEF Next, vars

(* In whatever order plans come, at most Capacity of a station take one    *)
(* second (CreatePlan, CountOverlappingPlans), whatever fractions their    *)
(* windows have.                                                           *)
THEOREM CapacityIsKept == Spec => []CapacityHolds
<1>. DEFINE Inv == IInv /\ CapacityHolds
<1>1. Init => Inv
  <2>. SUFFICES ASSUME Init, NEW s \in Stations, NEW at \in Instants,
                     NEW sec \in Nat, sec = second(at)
                PROVE  Cardinality(PlannedThroughout(s, sec)) <= Capacity
    BY InitInv, SecondsAreNumbers DEF CapacityHolds
  <2>1. PlannedThroughout(s, sec) = {}
    BY DEF Init, PlannedThroughout, Pending, Exists
  <2>. QED
    BY <2>1, FS_EmptySet, SampleChainAssumption
<1>2. Inv /\ [Next]_vars => Inv'
  <2>. SUFFICES ASSUME IInv, CapacityHolds, [Next]_vars PROVE CapacityHolds'
    BY NextInv
  <2>1. CASE \E p \in Plans : CreatePlan(p)
    BY <2>1, CreatePlanKeepsCapacity
  <2>2. CASE \A p \in Plans : ~CreatePlan(p)
    BY <2>2, OthersPlanNothing, FewerPlanned
  <2>. QED
    BY <2>1, <2>2
<1>. QED
  BY <1>1, <1>2, PTL DEF Spec
=============================================================================
