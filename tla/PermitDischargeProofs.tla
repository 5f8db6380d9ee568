------------------------ MODULE PermitDischargeProofs -----------------------
(***************************************************************************)
(* Theorems about PermitDischarge, for any permits, keys, volumes, days    *)
(* and bounds.  The inductive invariant adds to the properties that the    *)
(* version of a permit tells how often it was activated and suspended.     *)
(* For the daily limit, a sum over a set of reports, it adds that the      *)
(* reports are finitely many; what the sum computes is proved from the     *)
(* definition of MapThenSumSet.                                            *)
(***************************************************************************)
EXTENDS PermitDischarge, FiniteSetTheorems, WellFoundedInduction, TLAPS

\* A draft is version 1, and activations and suspensions take turns from
\* then on: the even versions are the active ones.
VersionsTellStatus ==
    \A p \in Permits :
        LET n == permit[p].version IN
        \/ permit[p].status = "absent" /\ n = 0
        \/ permit[p].status = "draft" /\ n = 1
        \/ permit[p].status = "active" /\ n > 1 /\ n % 2 = 0
        \/ permit[p].status = "suspended" /\ n > 2 /\ n % 2 = 1

IInv ==
    /\ TypeOK
    /\ VersionsTellStatus
    /\ SuspensionsAnnounced

-----------------------------------------------------------------------------
LEMMA InitInv == Init => IInv
<1>. SUFFICES ASSUME Init PROVE IInv
  OBVIOUS
<1>1. TypeOK
  BY DEF Init, TypeOK, PermitRow, PermitStatus
<1>2. VersionsTellStatus
  BY DEF Init, VersionsTellStatus
<1>3. SuspensionsAnnounced
  BY PermitDischargeAssumption DEF Init, SuspensionsAnnounced
<1>. QED
  BY <1>1, <1>2, <1>3 DEF IInv

-----------------------------------------------------------------------------
(* The operations that change a permit.                                    *)

LEMMA CreateInv ==
    ASSUME IInv, NEW p \in Permits, Create(p)
    PROVE  IInv'
<1>1. permit[p].version = 0
  BY DEF IInv, VersionsTellStatus, Create
<1>2. /\ permit'[p].status = "draft" /\ permit'[p].version = 1
      /\ \A q \in Permits \ {p} : permit'[q] = permit[q]
  BY DEF IInv, TypeOK, Create
<1>3. TypeOK'
  BY DEF IInv, TypeOK, Create, PermitRow, PermitStatus
<1>4. VersionsTellStatus'
  BY <1>2 DEF IInv, VersionsTellStatus
<1>5. SuspensionsAnnounced'
  <2>1. \A q \in Permits, n \in 1..MaxVersion :
            n % 2 = 0 /\ n < permit'[q].version <=> n % 2 = 0 /\ n < permit[q].version
    BY <1>1, <1>2, PermitDischargeAssumption
  <2>. QED
    BY <2>1 DEF IInv, SuspensionsAnnounced, Create
<1>. QED
  BY <1>3, <1>4, <1>5 DEF IInv

(* TransitionPermit moves one permit to its next version.                  *)
LEMMA TransitionFields ==
    ASSUME TypeOK, NEW p \in Permits, NEW to \in PermitStatus, TransitionPermit(p, to)
    PROVE  /\ permit'[p].status = to /\ permit'[p].version = permit[p].version + 1
           /\ permit[p].version \in Nat /\ permit[p].version < MaxVersion
           /\ \A q \in Permits \ {p} : permit'[q] = permit[q]
           /\ permit' \in [Permits -> PermitRow]
BY DEF TypeOK, TransitionPermit, PermitRow

LEMMA ActivateInv ==
    ASSUME IInv, NEW p \in Permits, Activate(p)
    PROVE  IInv'
<1>1. PICK n \in Nat : n = permit[p].version
  BY DEF IInv, TypeOK, PermitRow
<1>2. n > 0 /\ n % 2 = 1
  BY <1>1 DEF IInv, VersionsTellStatus, Activate, CanTransition
<1>3. /\ permit'[p].status = "active" /\ permit'[p].version = n + 1
      /\ \A q \in Permits \ {p} : permit'[q] = permit[q]
      /\ permit' \in [Permits -> PermitRow]
  BY <1>1, TransitionFields DEF IInv, Activate, PermitStatus
<1>4. TypeOK'
  BY <1>3 DEF IInv, TypeOK, Activate
<1>5. n + 1 > 1 /\ (n + 1) % 2 = 0
  BY <1>2
<1>6. VersionsTellStatus'
  BY <1>3, <1>5 DEF IInv, VersionsTellStatus
<1>7. SuspensionsAnnounced'
  <2>1. \A m \in 1..MaxVersion : m % 2 = 0 => (m < n + 1 <=> m < n)
    BY <1>2, PermitDischargeAssumption
  <2>2. \A q \in Permits, m \in 1..MaxVersion :
            m % 2 = 0 /\ m < permit'[q].version <=> m % 2 = 0 /\ m < permit[q].version
    BY <1>1, <1>3, <2>1
  <2>. QED
    BY <2>2 DEF IInv, SuspensionsAnnounced, Activate
<1>. QED
  BY <1>4, <1>6, <1>7 DEF IInv

LEMMA SuspendInv ==
    ASSUME IInv, NEW p \in Permits, Suspend(p)
    PROVE  IInv'
<1>1. PICK n \in Nat : n = permit[p].version
  BY DEF IInv, TypeOK, PermitRow
<1>2. n > 1 /\ n % 2 = 0
  BY <1>1 DEF IInv, VersionsTellStatus, Suspend, CanTransition
<1>3. /\ permit'[p].status = "suspended" /\ permit'[p].version = n + 1 /\ n < MaxVersion
      /\ \A q \in Permits \ {p} : permit'[q] = permit[q]
      /\ permit' \in [Permits -> PermitRow]
  BY <1>1, TransitionFields DEF IInv, Suspend, PermitStatus
<1>4. outbox' = outbox \cup {<<p, n>>}
  BY <1>1 DEF Suspend, SuspensionKey
<1>5. TypeOK'
  BY <1>3, <1>4 DEF IInv, TypeOK, Suspend
<1>6. n + 1 > 2 /\ (n + 1) % 2 = 1
  BY <1>2
<1>7. VersionsTellStatus'
  BY <1>3, <1>6 DEF IInv, VersionsTellStatus
<1>8. SuspensionsAnnounced'
  <2>1. n \in 1..MaxVersion
    BY <1>2, <1>3, PermitDischargeAssumption
  <2>2. \A m \in 1..MaxVersion :
            m % 2 = 0 /\ m < n + 1 <=> (m % 2 = 0 /\ m < n) \/ m = n
    BY <1>2, PermitDischargeAssumption
  <2>3. \A q \in Permits, m \in 1..MaxVersion :
            m % 2 = 0 /\ m < permit'[q].version
              <=> (m % 2 = 0 /\ m < permit[q].version) \/ (q = p /\ m = n)
    BY <1>1, <1>3, <2>2
  <2>. QED
    BY <1>4, <2>1, <2>3 DEF IInv, SuspensionsAnnounced
<1>. QED
  BY <1>5, <1>7, <1>8 DEF IInv

-----------------------------------------------------------------------------
(* The reports.                                                            *)

LEMMA AnsweredReport ==
    ASSUME NEW p \in Permits, NEW k \in Keys, NEW volume \in Volumes, NEW at \in Instants,
           NEW outcome \in Outcome, Answer(p, k, volume, at, outcome)
    PROVE  /\ reply'.discharge = <<p, k>> /\ reply'.volume = volume
           /\ reply'.at = at /\ reply'.outcome = outcome
           /\ reply' \in ReplyRow
BY DEF Answer, ReplyRow, Discharges

LEMMA ReportInv ==
    ASSUME IInv, NEW p \in Permits, NEW k \in Keys, NEW volume \in Volumes,
           NEW at \in Instants, Report(p, k, volume, at)
    PROVE  IInv'
<1>1. PICK d \in Discharges : d = <<p, k>>
  BY DEF Discharges
<1>2. PICK row \in DischargeRow : row = [volume |-> volume, at |-> at]
  BY DEF DischargeRow
<1>3. discharge' = [discharge EXCEPT ![d] = row]
  BY <1>1, <1>2 DEF Report
<1>4. discharge' \in [Discharges -> DischargeRow \cup {None}]
  BY <1>3 DEF IInv, TypeOK
<1>5. reply' \in ReplyRow
  BY AnsweredReport DEF Report, Outcome
<1>6. TypeOK'
  BY <1>4, <1>5 DEF IInv, TypeOK, Report
<1>7. VersionsTellStatus' /\ SuspensionsAnnounced'
  BY DEF IInv, VersionsTellStatus, SuspensionsAnnounced, Report
<1>. QED
  BY <1>6, <1>7 DEF IInv

(* A report that stores nothing only answers.                              *)
LEMMA ReportAnswersInv ==
    ASSUME IInv, NEW p \in Permits, NEW k \in Keys, NEW volume \in Volumes,
           NEW at \in Instants,
           ReportAgain(p, k, volume, at) \/ ReportRefused(p, k, volume, at)
    PROVE  IInv'
<1>1. \E outcome \in Outcome : Answer(p, k, volume, at, outcome)
  BY DEF ReportAgain, ReportRefused, Outcome
<1>2. reply' \in ReplyRow
  BY <1>1, AnsweredReport
<1>3. UNCHANGED <<clock, permit, discharge, exceedances, outbox>>
  BY DEF ReportAgain, ReportRefused
<1>4. TypeOK'
  BY <1>2, <1>3 DEF IInv, TypeOK
<1>5. VersionsTellStatus' /\ SuspensionsAnnounced'
  BY <1>3 DEF IInv, VersionsTellStatus, SuspensionsAnnounced
<1>. QED
  BY <1>4, <1>5 DEF IInv

-----------------------------------------------------------------------------
(* The clock, the incidents of the source, and a step that does nothing.   *)
LEMMA SurroundingsInv ==
    ASSUME IInv, Tick \/ OpenExceedance \/ ResolveExceedance \/ UNCHANGED vars
    PROVE  IInv'
<1>1. /\ UNCHANGED <<permit, discharge, outbox, reply>>
      /\ clock' \in Nat /\ exceedances' \in Nat
  BY DEF Tick, OpenExceedance, ResolveExceedance, vars, IInv, TypeOK
<1>. QED
  BY <1>1 DEF IInv, TypeOK, VersionsTellStatus, SuspensionsAnnounced

LEMMA StepInv == IInv /\ [Next]_vars => IInv'
<1>. SUFFICES ASSUME IInv, [Next]_vars PROVE IInv'
  OBVIOUS
<1>1. CASE Tick \/ OpenExceedance \/ ResolveExceedance \/ UNCHANGED vars
  BY <1>1, SurroundingsInv
<1>2. CASE \E p \in Permits : Create(p) \/ Activate(p) \/ Suspend(p)
  BY <1>2, CreateInv, ActivateInv, SuspendInv
<1>3. CASE \E p \in Permits : ReportDischarge(p)
  BY <1>3, ReportInv, ReportAnswersInv DEF ReportDischarge
<1>. QED
  BY <1>1, <1>2, <1>3 DEF Next

(* The inductive invariant holds of every state a behaviour reaches.       *)
THEOREM Invariance == Spec => []IInv
BY InitInv, StepInv, PTL DEF Spec

(* The types of the tables, after any operations.                          *)
THEOREM TypeCorrect == Spec => []TypeOK
<1>1. IInv => TypeOK
  BY DEF IInv
<1>. QED
  BY <1>1, Invariance, PTL

(* The outbox holds one event for every suspension a permit has gone       *)
(* through (Suspend keys it by the version it suspends) and no other.      *)
THEOREM EverySuspensionIsAnnounced == Spec => []SuspensionsAnnounced
<1>1. IInv => SuspensionsAnnounced
  BY DEF IInv
<1>. QED
  BY <1>1, Invariance, PTL

-----------------------------------------------------------------------------
(* Sums.  What MapThenSumSet computes is proved about by minimal           *)
(* counterexamples: a property that fails of some finite set fails of one  *)
(* all of whose proper subsets have it.                                    *)
LEMMA MinimalSet ==
    ASSUME NEW S, IsFiniteSet(S), NEW Bad \in SUBSET (SUBSET S), Bad # {}
    PROVE  \E T \in Bad : \A U \in SUBSET T : U # T => U \notin Bad
<1>1. IsWellFoundedOn(StrictSubsetOrdering(S), SUBSET S)
  BY FS_StrictSubsetOrderingWellFounded, FS_FiniteSubsetsOfFinite
<1>2. PICK T \in Bad : \A U \in Bad : ~(<<U, T>> \in StrictSubsetOrdering(S))
  BY <1>1, WFMin
<1>3. ASSUME NEW U \in SUBSET T, U # T PROVE U \notin Bad
  <2>1. U \in Bad => <<U, T>> \in StrictSubsetOrdering(S)
    BY <1>3 DEF StrictSubsetOrdering
  <2>. QED
    BY <1>2, <2>1
<1>. QED
  BY <1>3

\* The volumes that a table d of discharges has for keys, added up.
Total(d, p, keys) == MapThenSumSet(LAMBDA k : d[<<p, k>>].volume, keys)

\* The order in which they are added, and the function that adds them.
Chosen(keys) == CHOOSE k \in keys : TRUE
IsSum(d, p, keys, f) ==
    f = [s \in SUBSET keys |->
            IF s = {} THEN 0 ELSE d[<<p, Chosen(s)>>].volume + f[s \ {Chosen(s)}]]
SumOver(d, p, keys) == CHOOSE f : IsSum(d, p, keys, f)

LEMMA TotalIsSum ==
    ASSUME NEW d, NEW p, NEW keys
    PROVE  Total(d, p, keys) = SumOver(d, p, keys)[keys]
BY Zenon DEF Total, MapThenSumSet, MapThenFoldSet, SumOver, IsSum, Chosen

(* An empty sum, and one of a key more.                                    *)
LEMMA SumValues ==
    ASSUME NEW d, NEW p, NEW keys, NEW f, IsSum(d, p, keys, f)
    PROVE  /\ f[{}] = 0
           /\ \A s \in SUBSET keys : s # {} =>
                /\ Chosen(s) \in s
                /\ f[s] = d[<<p, Chosen(s)>>].volume + f[s \ {Chosen(s)}]
<1>1. \A s \in SUBSET keys : s # {} => Chosen(s) \in s
  BY DEF Chosen
<1>2. \A s \in SUBSET keys :
         f[s] = IF s = {} THEN 0 ELSE d[<<p, Chosen(s)>>].volume + f[s \ {Chosen(s)}]
  BY Zenon DEF IsSum
<1>3. {} \in SUBSET keys
  OBVIOUS
<1>. QED
  BY <1>1, <1>2, <1>3

(* Tables that agree on keys have the same sums, whatever they are summed  *)
(* along with.                                                             *)
LEMMA SumsAgree ==
    ASSUME NEW d, NEW e, NEW p, NEW A, NEW B, IsFiniteSet(A),
           NEW f, NEW g, IsSum(d, p, A, f), IsSum(e, p, B, g),
           \A k \in A \cap B : d[<<p, k>>].volume = e[<<p, k>>].volume
    PROVE  \A s \in SUBSET (A \cap B) : f[s] = g[s]
<1>. DEFINE Bad == {s \in SUBSET (A \cap B) : f[s] # g[s]}
<1>1. SUFFICES ASSUME Bad # {} PROVE FALSE
  OBVIOUS
<1>2. Bad \in SUBSET (SUBSET A)
  OBVIOUS
<1>3. PICK T \in Bad : \A U \in SUBSET T : U # T => U \notin Bad
  <2>. HIDE DEF Bad
  <2>. QED
    BY <1>1, <1>2, MinimalSet
<1>4. T \in SUBSET A /\ T \in SUBSET B /\ f[T] # g[T]
  OBVIOUS
<1>5. T # {}
  BY <1>4, SumValues
<1>6. PICK x \in T, rest \in SUBSET T : x = Chosen(T) /\ rest = T \ {x}
  BY <1>5 DEF Chosen
<1>7. f[T] = d[<<p, x>>].volume + f[rest] /\ g[T] = e[<<p, x>>].volume + g[rest]
  BY <1>4, <1>5, <1>6, SumValues
<1>8. rest \in SUBSET T /\ rest # T /\ rest \in SUBSET (A \cap B)
  BY <1>4, <1>6
<1>9. f[rest] = g[rest]
  BY <1>3, <1>8
<1>10. d[<<p, x>>].volume = e[<<p, x>>].volume
  BY <1>4
<1>. QED
  BY <1>4, <1>7, <1>9, <1>10

(* There is such a function for every finite set of keys.                  *)
LEMMA SumExists ==
    ASSUME NEW d, NEW p, NEW keys, IsFiniteSet(keys)
    PROVE  IsSum(d, p, keys, SumOver(d, p, keys))
<1>. DEFINE Bad == {s \in SUBSET keys : ~\E f : IsSum(d, p, s, f)}
<1>1. SUFFICES ASSUME Bad # {} PROVE FALSE
  <2>1. keys \notin Bad
    BY <1>1
  <2>. QED
    BY <2>1 DEF SumOver
<1>2. PICK T \in Bad : \A U \in SUBSET T : U # T => U \notin Bad
  <2>1. Bad \in SUBSET (SUBSET keys)
    OBVIOUS
  <2>. HIDE DEF Bad
  <2>. QED
    BY <1>1, <2>1, MinimalSet
<1>3. \A U \in SUBSET T : IsFiniteSet(U)
  BY FS_Subset
<1>4. \A U \in SUBSET T : U # T => IsSum(d, p, U, SumOver(d, p, U))
  <2>. SUFFICES ASSUME NEW U \in SUBSET T, U # T PROVE \E f : IsSum(d, p, U, f)
    BY DEF SumOver
  <2>. QED
    BY <1>2
<1>. DEFINE step(s, rest) == IF s = {} THEN 0 ELSE d[<<p, Chosen(s)>>].volume + rest
            before(s) == s \ {Chosen(s)}
            g == [s \in SUBSET T |->
                     step(s, SumOver(d, p, before(s))[before(s)])]
<1>5. ASSUME NEW s \in SUBSET T, s # T
      PROVE  g[s] = SumOver(d, p, s)[s]
  <2>1. IsSum(d, p, s, SumOver(d, p, s))
    BY <1>4, <1>5
  <2>2. CASE s = {}
    BY <2>1, <2>2, SumValues
  <2>3. CASE s # {}
    <3>1. PICK rest : rest = before(s)
      OBVIOUS
    <3>2. /\ Chosen(s) \in s
          /\ SumOver(d, p, s)[s] = d[<<p, Chosen(s)>>].volume + SumOver(d, p, s)[rest]
      <4>1. s \in SUBSET s
        OBVIOUS
      <4>2. PICK f : f = SumOver(d, p, s) /\ IsSum(d, p, s, f)
        BY <2>1
      <4>3. /\ Chosen(s) \in s
            /\ f[s] = d[<<p, Chosen(s)>>].volume + f[s \ {Chosen(s)}]
        BY <2>3, <4>1, <4>2, SumValues
      <4>. QED
        BY <3>1, <4>2, <4>3
    <3>3. rest \in SUBSET s /\ rest \in SUBSET T /\ rest # T
      BY <3>1, <3>2
    <3>4. IsSum(d, p, rest, SumOver(d, p, rest))
      BY <1>4, <3>3
    <3>5. rest \in SUBSET (s \cap rest)
      BY <3>3
    <3>6. SumOver(d, p, s)[rest] = SumOver(d, p, rest)[rest]
      BY <1>3, <2>1, <3>4, <3>5, SumsAgree
    <3>7. g[s] = d[<<p, Chosen(s)>>].volume + SumOver(d, p, rest)[rest]
      BY <2>3, <3>1
    <3>. QED
      BY <3>2, <3>6, <3>7
  <2>. QED
    BY <2>2, <2>3
<1>6. ASSUME NEW s \in SUBSET T
      PROVE  g[s] = IF s = {} THEN 0 ELSE d[<<p, Chosen(s)>>].volume + g[before(s)]
  <2>1. CASE s = {}
    BY <2>1
  <2>2. CASE s # {}
    <3>1. Chosen(s) \in s
      BY <2>2 DEF Chosen
    <3>2. before(s) \in SUBSET T /\ before(s) # T
      BY <3>1
    <3>3. g[before(s)] = SumOver(d, p, before(s))[before(s)]
      BY <1>5, <3>2
    <3>. QED
      BY <2>2, <3>3
  <2>. QED
    BY <2>1, <2>2
<1>7. IsSum(d, p, T, g)
  <2>1. g = [s \in SUBSET T |->
                IF s = {} THEN 0 ELSE d[<<p, Chosen(s)>>].volume + g[s \ {Chosen(s)}]]
    BY <1>6
  <2>. QED
    BY <2>1 DEF IsSum
<1>. QED
  BY <1>7

(* Sums depend on the volumes of their keys only.                          *)
LEMMA TotalCongruence ==
    ASSUME NEW d, NEW e, NEW p, NEW keys, IsFiniteSet(keys),
           \A k \in keys : d[<<p, k>>].volume = e[<<p, k>>].volume
    PROVE  Total(d, p, keys) = Total(e, p, keys)
<1>1. keys \in SUBSET (keys \cap keys)
  OBVIOUS
<1>2. IsSum(d, p, keys, SumOver(d, p, keys)) /\ IsSum(e, p, keys, SumOver(e, p, keys))
  BY SumExists
<1>3. SumOver(d, p, keys)[keys] = SumOver(e, p, keys)[keys]
  BY <1>1, <1>2, SumsAgree
<1>. QED
  BY <1>3, TotalIsSum

LEMMA TotalChosen ==
    ASSUME NEW d, NEW p, NEW keys, IsFiniteSet(keys)
    PROVE  /\ Total(d, p, {}) = 0
           /\ keys # {} =>
                Total(d, p, keys) = d[<<p, Chosen(keys)>>].volume
                                      + Total(d, p, keys \ {Chosen(keys)})
<1>1. Total(d, p, {}) = 0
  <2>1. IsFiniteSet({})
    BY FS_EmptySet
  <2>. QED
    BY <2>1, SumExists, SumValues, TotalIsSum
<1>2. ASSUME keys # {}
      PROVE  Total(d, p, keys) = d[<<p, Chosen(keys)>>].volume
                                   + Total(d, p, keys \ {Chosen(keys)})
  <2>1. PICK rest : rest = keys \ {Chosen(keys)}
    OBVIOUS
  <2>2. rest \in SUBSET keys /\ rest \in SUBSET (keys \cap rest) /\ IsFiniteSet(rest)
    BY <2>1, FS_Subset
  <2>3. SumOver(d, p, keys)[rest] = SumOver(d, p, rest)[rest]
    BY <2>2, SumExists, SumsAgree
  <2>4. SumOver(d, p, keys)[keys] = d[<<p, Chosen(keys)>>].volume + SumOver(d, p, keys)[rest]
    BY <1>2, <2>1, SumExists, SumValues
  <2>. QED
    BY <2>1, <2>3, <2>4, TotalIsSum
<1>. QED
  BY <1>1, <1>2

(* A sum of volumes is a volume, if not one an integer has room for.       *)
LEMMA TotalType ==
    ASSUME NEW d, NEW p, NEW keys, IsFiniteSet(keys),
           \A k \in keys : d[<<p, k>>].volume \in Nat
    PROVE  Total(d, p, keys) \in Nat
<1>. DEFINE Bad == {s \in SUBSET keys : Total(d, p, s) \notin Nat}
<1>1. SUFFICES ASSUME Bad # {} PROVE FALSE
  OBVIOUS
<1>2. PICK T \in Bad : \A U \in SUBSET T : U # T => U \notin Bad
  <2>1. Bad \in SUBSET (SUBSET keys)
    OBVIOUS
  <2>. HIDE DEF Bad
  <2>. QED
    BY <1>1, <2>1, MinimalSet
<1>3. IsFiniteSet(T) /\ T \in SUBSET keys /\ Total(d, p, T) \notin Nat
  BY FS_Subset
<1>4. T # {}
  <2>1. Total(d, p, {}) = 0
    BY <1>3, TotalChosen
  <2>. QED
    BY <1>3, <2>1
<1>5. PICK x \in T, rest \in SUBSET T : x = Chosen(T) /\ rest = T \ {x}
  BY <1>4 DEF Chosen
<1>6. Total(d, p, T) = d[<<p, x>>].volume + Total(d, p, rest)
  BY <1>3, <1>4, <1>5, TotalChosen
<1>7. rest \in SUBSET T /\ rest # T
  BY <1>5
<1>8. Total(d, p, rest) \in Nat
  BY <1>2, <1>3, <1>7
<1>. QED
  BY <1>3, <1>6, <1>8

(* The order of the addition does not matter: any key may come last.       *)
LEMMA TotalRemove ==
    ASSUME NEW d, NEW p, NEW keys, IsFiniteSet(keys), NEW k \in keys,
           \A q \in keys : d[<<p, q>>].volume \in Nat
    PROVE  Total(d, p, keys) = d[<<p, k>>].volume + Total(d, p, keys \ {k})
<1>. DEFINE Splits(s, q) == Total(d, p, s) = d[<<p, q>>].volume + Total(d, p, s \ {q})
            Bad == {s \in SUBSET keys : ~\A q \in s : Splits(s, q)}
<1>1. SUFFICES ASSUME Bad # {} PROVE FALSE
  OBVIOUS
<1>2. PICK T \in Bad : \A U \in SUBSET T : U # T => U \notin Bad
  <2>1. Bad \in SUBSET (SUBSET keys)
    OBVIOUS
  <2>. HIDE DEF Bad
  <2>. QED
    BY <1>1, <2>1, MinimalSet
<1>3. IsFiniteSet(T) /\ T \in SUBSET keys
  BY FS_Subset
<1>4. PICK y \in T : ~Splits(T, y)
  OBVIOUS
<1>5. PICK x \in T, rest \in SUBSET T : x = Chosen(T) /\ rest = T \ {x}
  BY <1>4 DEF Chosen
<1>6. Total(d, p, T) = d[<<p, x>>].volume + Total(d, p, rest)
  BY <1>3, <1>4, <1>5, TotalChosen
<1>7. x # y
  BY <1>4, <1>5, <1>6
<1>8. PICK other, both : other = T \ {y} /\ both = T \ {x, y}
  OBVIOUS
<1>9. /\ rest \in SUBSET T /\ rest # T /\ y \in rest /\ rest \ {y} = both
      /\ other \in SUBSET T /\ other # T /\ x \in other /\ other \ {x} = both
  BY <1>4, <1>5, <1>7, <1>8
<1>10. Total(d, p, rest) = d[<<p, y>>].volume + Total(d, p, both)
  BY <1>2, <1>3, <1>9
<1>11. Total(d, p, other) = d[<<p, x>>].volume + Total(d, p, both)
  BY <1>2, <1>3, <1>9
<1>12. /\ d[<<p, x>>].volume \in Nat /\ d[<<p, y>>].volume \in Nat
       /\ Total(d, p, both) \in Nat
  <2>1. both \in SUBSET keys
    BY <1>3, <1>8
  <2>. QED
    BY <1>3, <2>1, FS_Subset, TotalType
<1>13. Total(d, p, T) = d[<<p, y>>].volume + Total(d, p, other)
  BY <1>6, <1>10, <1>11, <1>12
<1>. QED
  BY <1>4, <1>8, <1>13

-----------------------------------------------------------------------------
(* Days.  A natural number is so many times a divisor, and a remainder.    *)
LEMMA DivisionTheorem ==
    ASSUME NEW D \in Nat \ {0}, NEW a \in Nat
    PROVE  /\ a % D \in 0..D - 1
           /\ \E q \in Nat : D * q \in Nat /\ a = (D * q) + (a % D)
<1>1. a \div D \in Nat /\ a = (D * (a \div D)) + (a % D)
  OBVIOUS
<1>2. D * (a \div D) \in Nat
  BY <1>1
<1>3. a % D \in 0..D - 1
  OBVIOUS
<1>. QED
  BY <1>1, <1>2, <1>3

LEMMA MultiplesAreApart ==
    ASSUME NEW D \in Nat \ {0}, NEW q \in Nat, NEW r \in Nat, q < r
    PROVE  D * q + D <= D * r
<1>1. PICK j \in Nat : r = q + 1 + j
  <2>1. r - q - 1 \in Nat /\ r = q + 1 + (r - q - 1)
    OBVIOUS
  <2>. QED
    BY <2>1
<1>2. D * r = D * q + D + D * j
  BY <1>1
<1>3. D * j \in Nat /\ D * q \in Nat
  OBVIOUS
<1>. QED
  BY <1>2, <1>3

(* The instants between the start of a day and its end are those whose own *)
(* day starts then.                                                        *)
LEMMA DaysArePartition ==
    ASSUME NEW a \in Nat, NEW b \in Nat
    PROVE  /\ dayStart(b) \in Nat
           /\ dayStart(b) <= a /\ a < dayStart(b) + DayLength <=> dayStart(a) = dayStart(b)
<1>. DEFINE D == DayLength
<1>0. D \in Nat \ {0}
  BY PermitDischargeAssumption
<1>1. PICK q \in Nat : D * q \in Nat /\ a = (D * q) + (a % D)
  BY <1>0, DivisionTheorem
<1>2. PICK r \in Nat : D * r \in Nat /\ b = (D * r) + (b % D)
  BY <1>0, DivisionTheorem
<1>3. a % D \in 0..D - 1 /\ b % D \in 0..D - 1
  BY <1>0, DivisionTheorem
<1>4. dayStart(a) = D * q /\ dayStart(b) = D * r
  BY <1>0, <1>1, <1>2, <1>3 DEF dayStart
<1>. HIDE DEF D
<1>5. q < r => D * q + D <= D * r
  BY <1>0, MultiplesAreApart
<1>6. r < q => D * r + D <= D * q
  BY <1>0, MultiplesAreApart
<1>7. D * r <= a /\ a < D * r + D => q = r
  BY <1>0, <1>1, <1>2, <1>3, <1>5, <1>6
<1>8. D * q = D * r => D * r <= a /\ a < D * r + D
  BY <1>0, <1>1, <1>2, <1>3
<1>. USE DEF D
<1>. QED
  BY <1>2, <1>4, <1>7, <1>8

(* A day starts on a whole second.                                         *)
LEMMA DaysStartOnSeconds ==
    ASSUME NEW b \in Nat, b % 2 = 0
    PROVE  dayStart(b) % 2 = 0 /\ (dayStart(b) + DayLength) % 2 = 0
<1>1. DayLength \in Nat \ {0} /\ DayLength % 2 = 0
  BY PermitDischargeAssumption
<1>2. PICK r \in Nat : DayLength * r \in Nat /\ b = (DayLength * r) + (b % DayLength)
  BY <1>1, DivisionTheorem
<1>3. PICK h \in Nat : DayLength = 2 * h
  BY <1>1, DivisionTheorem
<1>4. b % DayLength \in Nat
  BY <1>1, DivisionTheorem
<1>5. dayStart(b) = DayLength * r
  BY <1>2, <1>4 DEF dayStart
<1>6. DayLength * r = 2 * (h * r) /\ h * r \in Nat
  BY <1>3
<1>. QED
  BY <1>1, <1>3, <1>5, <1>6

(* On whole seconds the order of the texts is the order of time.           *)
LEMMA TextOrder ==
    ASSUME NEW a \in Nat, NEW b \in Nat, a % 2 = 0, b % 2 = 0
    PROVE  (TextLess(a, b) <=> a < b) /\ (TextLeq(a, b) <=> a <= b)
BY DEF TextLeq, TextLess, second, hasFraction

-----------------------------------------------------------------------------
\* What DailyLimitHolds says of a table, and the keys of a day in it.
OnDay(d, p, start) ==
    {k \in Keys : d[<<p, k>>] # None /\ dayStart(d[<<p, k>>].at) = start}

Within(d) ==
    \A p \in Permits : \A start \in {dayStart(at) : at \in Instants} :
        Total(d, p, OnDay(d, p, start)) <= Limit

LEMMA VolumeIsTotal ==
    ASSUME NEW p, NEW keys
    PROVE  /\ VolumeOf(p, keys) = Total(discharge, p, keys)
           /\ VolumeOf(p, keys)' = Total(discharge', p, keys)
<1>1. VolumeOf(p, keys) = Total(discharge, p, keys)
  BY Zenon DEF VolumeOf, Total, MapThenSumSet, MapThenFoldSet
<1>2. VolumeOf(p, keys)' = Total(discharge', p, keys)
  BY Zenon DEF VolumeOf, Total, MapThenSumSet, MapThenFoldSet
<1>. QED
  BY <1>1, <1>2

LEMMA DayIsTotal ==
    ASSUME NEW p, NEW start
    PROVE  /\ DayVolume(p, start) = Total(discharge, p, OnDay(discharge, p, start))
           /\ DayVolume(p, start)' = Total(discharge', p, OnDay(discharge', p, start))
<1>1. /\ {k \in Recorded(p) : dayStart(discharge[<<p, k>>].at) = start}
            = OnDay(discharge, p, start)
      /\ {k \in Recorded(p) : dayStart(discharge[<<p, k>>].at) = start}'
            = OnDay(discharge', p, start)
  BY DEF Recorded, OnDay
<1>2. DayVolume(p, start)
         = Total(discharge, p, {k \in Recorded(p) : dayStart(discharge[<<p, k>>].at) = start})
  BY Zenon DEF DayVolume, VolumeOf, Total, MapThenSumSet, MapThenFoldSet
<1>3. DayVolume(p, start)'
         = Total(discharge', p,
                 {k \in Recorded(p) : dayStart(discharge[<<p, k>>].at) = start}')
  BY Zenon DEF DayVolume, VolumeOf, Total, MapThenSumSet, MapThenFoldSet
<1>. QED
  BY <1>1, <1>2, <1>3, Zenon

LEMMA LimitIsWithin ==
    /\ DailyLimitHolds <=> Within(discharge)
    /\ DailyLimitHolds' <=> Within(discharge')
<1>1. DailyLimitHolds <=> Within(discharge)
  BY DayIsTotal, ZenonT(40) DEF DailyLimitHolds, Within
<1>2. DailyLimitHolds' <=> Within(discharge')
  BY DayIsTotal, ZenonT(40) DEF DailyLimitHolds, Within
<1>. QED
  BY <1>1, <1>2

-----------------------------------------------------------------------------
\* What the theorem asks of the reports: times without a fraction of a second,
\* and volumes that an integer can hold on top of a full day.
WholeSecondsOnly == \A at \in Instants : at % 2 = 0
SumsFit == \A volume \in Volumes : Limit + volume <= MaxInt

RowsAreFinite == \A p \in Permits : IsFiniteSet(Recorded(p))

LimitIInv ==
    /\ IInv
    /\ RowsAreFinite
    /\ DailyLimitHolds

(* A day's rows are finitely many and their volumes are numbers.           *)
LEMMA DayIsFinite ==
    ASSUME IInv, RowsAreFinite, NEW p \in Permits, NEW start
    PROVE  /\ IsFiniteSet(OnDay(discharge, p, start))
           /\ \A k \in OnDay(discharge, p, start) :
                 /\ discharge[<<p, k>>] \in DischargeRow
                 /\ discharge[<<p, k>>].volume \in Nat
<1>1. OnDay(discharge, p, start) \in SUBSET Recorded(p)
  BY DEF OnDay, Recorded
<1>2. IsFiniteSet(Recorded(p))
  BY DEF RowsAreFinite
<1>3. ASSUME NEW k \in OnDay(discharge, p, start)
      PROVE  discharge[<<p, k>>] \in DischargeRow
  <2>1. k \in Keys /\ discharge[<<p, k>>] # None /\ <<p, k>> \in Discharges
    BY DEF OnDay, Discharges
  <2>. QED
    BY <2>1 DEF IInv, TypeOK
<1>4. Volumes \subseteq Nat
  BY PermitDischargeAssumption
<1>5. \A row \in DischargeRow : row.volume \in Nat
  BY <1>4 DEF DischargeRow
<1>. QED
  BY <1>1, <1>2, <1>3, <1>5, FS_Subset

(* What the query adds up is the day of the report.                        *)
LEMMA QueryIsDay ==
    ASSUME WholeSecondsOnly, IInv, NEW p \in Permits, NEW at \in Instants
    PROVE  DailyDischargeVolume(p, dayStart(at))
              = Total(discharge, p, OnDay(discharge, p, dayStart(at)))
<1>1. PICK start : start = dayStart(at)
  OBVIOUS
<1>2. PICK keys : keys = OnDay(discharge, p, start)
  OBVIOUS
<1>3. at \in Nat /\ at % 2 = 0 /\ Instants \subseteq Nat
  BY PermitDischargeAssumption DEF WholeSecondsOnly
<1>4. ASSUME NEW k \in Recorded(p)
      PROVE  /\ TextLeq(start, discharge[<<p, k>>].at)
             /\ TextLess(discharge[<<p, k>>].at, start + DayLength)
             <=> dayStart(discharge[<<p, k>>].at) = start
  <2>1. PICK a : a = discharge[<<p, k>>].at
    OBVIOUS
  <2>2. discharge[<<p, k>>] \in DischargeRow
    <3>1. k \in Keys /\ discharge[<<p, k>>] # None /\ <<p, k>> \in Discharges
      BY <1>4 DEF Recorded, Discharges
    <3>. QED
      BY <3>1 DEF IInv, TypeOK
  <2>3. a \in Nat /\ a % 2 = 0
    BY <1>3, <2>1, <2>2 DEF DischargeRow, WholeSecondsOnly
  <2>4. /\ start \in Nat /\ start % 2 = 0
        /\ start + DayLength \in Nat /\ (start + DayLength) % 2 = 0
    <3>1. start \in Nat
      BY <1>1, <1>3, DaysArePartition
    <3>2. start % 2 = 0 /\ (start + DayLength) % 2 = 0
      BY <1>1, <1>3, DaysStartOnSeconds
    <3>3. DayLength \in Nat
      BY PermitDischargeAssumption
    <3>. QED
      BY <3>1, <3>2, <3>3
  <2>5. (TextLeq(start, a) <=> start <= a)
    BY <2>3, <2>4, TextOrder
  <2>6. (TextLess(a, start + DayLength) <=> a < start + DayLength)
    BY <2>3, <2>4, TextOrder
  <2>7. start <= a /\ a < start + DayLength <=> dayStart(a) = start
    BY <1>1, <1>3, <2>3, DaysArePartition
  <2>. QED
    BY <2>1, <2>5, <2>6, <2>7
<1>5. {k \in Recorded(p) : LET a == discharge[<<p, k>>].at
                           IN  TextLeq(start, a) /\ TextLess(a, start + DayLength)} = keys
  BY <1>2, <1>4 DEF OnDay, Recorded
<1>6. DailyDischargeVolume(p, start) = Total(discharge, p, keys)
  <2>1. DailyDischargeVolume(p, start) = VolumeOf(p, keys)
    BY <1>5, Zenon DEF DailyDischargeVolume
  <2>. QED
    BY <2>1, VolumeIsTotal
<1>. QED
  BY <1>1, <1>2, <1>6

(* And it is a number, as finitely many reports were made.                 *)
LEMMA DayIsNumber ==
    ASSUME IInv, RowsAreFinite, NEW p \in Permits, NEW start
    PROVE  Total(discharge, p, OnDay(discharge, p, start)) \in Nat
BY DayIsFinite, TotalType

(* The sum compared with the limit is the sum.                             *)
LEMMA AdmittedReportFits ==
    ASSUME WholeSecondsOnly, SumsFit, LimitIInv, NEW p \in Permits,
           NEW volume \in Volumes, NEW at \in Instants, Fits(p, volume, at)
    PROVE  volume + Total(discharge, p, OnDay(discharge, p, dayStart(at))) <= Limit
<1>1. PICK start : start = dayStart(at)
  OBVIOUS
<1>2. PICK total \in Nat : total = Total(discharge, p, OnDay(discharge, p, start))
  BY DayIsNumber DEF LimitIInv
<1>3. total <= Limit
  <2>1. start \in {dayStart(a) : a \in Instants}
    BY <1>1
  <2>. QED
    BY <1>2, <2>1, LimitIsWithin DEF LimitIInv, Within
<1>4. /\ volume \in Nat /\ Limit \in Nat /\ MaxInt \in Nat
      /\ total + volume <= MaxInt
  <2>1. volume \in Nat /\ Limit \in Nat /\ MaxInt \in Nat
    BY PermitDischargeAssumption
  <2>2. Limit + volume <= MaxInt
    BY DEF SumsFit
  <2>. QED
    BY <1>3, <2>1, <2>2
<1>5. Wrap(total + volume) = total + volume
  BY <1>4 DEF Wrap
<1>6. Wrap(total + volume) <= Limit
  BY <1>1, <1>2, QueryIsDay DEF Fits, LimitIInv
<1>. QED
  BY <1>1, <1>2, <1>4, <1>5, <1>6

(* Every step but a report keeps the discharges.                           *)
LEMMA OnlyReportsDischarge ==
    ASSUME [Next]_vars
    PROVE  \/ UNCHANGED discharge
           \/ \E p \in Permits : \E k \in Keys, volume \in Volumes, at \in Instants :
                 Report(p, k, volume, at)
<1>1. CASE \E p \in Permits : ReportDischarge(p)
  BY <1>1 DEF ReportDischarge, ReportAgain, ReportRefused
<1>2. CASE \E p \in Permits : Create(p) \/ Activate(p) \/ Suspend(p)
  BY <1>2 DEF Create, Activate, Suspend
<1>3. CASE Tick \/ OpenExceedance \/ ResolveExceedance \/ UNCHANGED vars
  BY <1>3 DEF Tick, OpenExceedance, ResolveExceedance, vars
<1>. QED
  BY <1>1, <1>2, <1>3 DEF Next

LEMMA RowsStayFinite ==
    ASSUME IInv, RowsAreFinite, [Next]_vars
    PROVE  RowsAreFinite'
<1>1. CASE UNCHANGED discharge
  BY <1>1 DEF RowsAreFinite, Recorded
<1>2. CASE \E p \in Permits : \E k \in Keys, volume \in Volumes, at \in Instants :
              Report(p, k, volume, at)
  <2>1. PICK p \in Permits : \E k \in Keys, volume \in Volumes, at \in Instants :
            Report(p, k, volume, at)
    BY <1>2
  <2>2. PICK k \in Keys, volume \in Volumes, at \in Instants : Report(p, k, volume, at)
    BY <2>1
  <2>3. PICK row : row = [volume |-> volume, at |-> at]
    OBVIOUS
  <2>4. \A q \in Permits : \A j \in Keys \ {k} : discharge'[<<q, j>>] = discharge[<<q, j>>]
    <3>1. discharge' = [discharge EXCEPT ![<<p, k>>] = row]
      BY <2>2, <2>3 DEF Report
    <3>. QED
      BY <3>1 DEF IInv, TypeOK, Discharges
  <2>. SUFFICES ASSUME NEW q \in Permits PROVE IsFiniteSet(Recorded(q)')
    BY DEF RowsAreFinite
  <2>5. Recorded(q)' \in SUBSET (Recorded(q) \cup {k})
    BY <2>4 DEF Recorded
  <2>6. IsFiniteSet(Recorded(q) \cup {k})
    BY FS_AddElement DEF RowsAreFinite
  <2>. QED
    BY <2>5, <2>6, FS_Subset
<1>. QED
  BY <1>1, <1>2, OnlyReportsDischarge

(* A discharge that is recorded adds its volume to its own day and nothing *)
(* to any other.                                                           *)
LEMMA ReportKeepsLimit ==
    ASSUME WholeSecondsOnly, SumsFit, LimitIInv, NEW p \in Permits, NEW k \in Keys,
           NEW volume \in Volumes, NEW at \in Instants, Report(p, k, volume, at)
    PROVE  Within(discharge')
<1>1. PICK row : row = [volume |-> volume, at |-> at]
  OBVIOUS
<1>2. /\ discharge[<<p, k>>] = None
      /\ discharge' = [discharge EXCEPT ![<<p, k>>] = row]
      /\ Fits(p, volume, at)
  BY <1>1 DEF Report
<1>3. row # None
  BY <1>1, NoRowIsNone DEF DischargeRow
<1>4. \A q \in Permits : \A j \in Keys :
         discharge'[<<q, j>>] = IF q = p /\ j = k THEN row ELSE discharge[<<q, j>>]
  BY <1>2 DEF LimitIInv, IInv, TypeOK, Discharges
<1>5. ASSUME NEW q \in Permits, NEW start \in {dayStart(a) : a \in Instants}
      PROVE  Total(discharge', q, OnDay(discharge', q, start)) <= Limit
  <2>1. PICK before : before = OnDay(discharge, q, start)
    OBVIOUS
  <2>2. /\ IsFiniteSet(before)
        /\ \A j \in before : j \in Keys /\ discharge[<<q, j>>].volume \in Nat
        /\ q = p => k \notin before
    BY <1>2, <2>1, DayIsFinite DEF OnDay, LimitIInv
  <2>3. \A j \in before : discharge'[<<q, j>>].volume = discharge[<<q, j>>].volume
    BY <1>4, <2>2
  <2>4. Total(discharge', q, before) = Total(discharge, q, before)
    BY <2>2, <2>3, TotalCongruence
  <2>5. CASE q = p /\ start = dayStart(at)
    <3>1. PICK after : after = before \cup {k}
      OBVIOUS
    <3>2. OnDay(discharge', q, start) = after
      BY <1>1, <1>3, <1>4, <2>1, <2>5, <3>1 DEF OnDay
    <3>3. IsFiniteSet(after) /\ k \in after /\ after \ {k} = before
      BY <2>2, <2>5, <3>1, FS_AddElement
    <3>4. discharge'[<<q, k>>].volume = volume /\ volume \in Nat
      BY <1>1, <1>4, <2>5, PermitDischargeAssumption
    <3>5. \A j \in after : discharge'[<<q, j>>].volume \in Nat
      BY <2>2, <2>3, <3>1, <3>4
    <3>6. Total(discharge', q, after) = volume + Total(discharge', q, before)
      BY <3>3, <3>4, <3>5, TotalRemove
    <3>7. volume + Total(discharge, q, before) <= Limit
      BY <1>2, <2>1, <2>5, AdmittedReportFits
    <3>. QED
      BY <2>4, <3>2, <3>6, <3>7
  <2>6. CASE ~(q = p /\ start = dayStart(at))
    <3>1. OnDay(discharge', q, start) = before
      BY <1>1, <1>2, <1>3, <1>4, <2>1, <2>6 DEF OnDay
    <3>2. Total(discharge, q, before) <= Limit
      BY <2>1, LimitIsWithin DEF LimitIInv, Within
    <3>. QED
      BY <2>4, <3>1, <3>2
  <2>. QED
    BY <2>5, <2>6
<1>. QED
  BY <1>5 DEF Within

(* What is discharged under a permit on one day stays within its limit,    *)
(* whatever reports come and in whatever order (Service.ReportDischarge),  *)
(* if their times have no fractions and their volumes do not overflow.     *)
(* Without the one or the other it may be exceeded.                        *)
THEOREM DailyLimitIsKept ==
    ASSUME WholeSecondsOnly, SumsFit
    PROVE  Spec => []DailyLimitHolds
<1>1. Init => LimitIInv
  <2>. SUFFICES ASSUME Init PROVE RowsAreFinite /\ Within(discharge)
    BY InitInv, LimitIsWithin DEF LimitIInv
  <2>1. \A p \in Permits : \A k \in Keys : discharge[<<p, k>>] = None
    BY DEF Init, Discharges
  <2>2. \A p \in Permits : Recorded(p) = {}
    BY <2>1 DEF Recorded
  <2>3. \A p \in Permits : \A start : OnDay(discharge, p, start) = {}
    BY <2>1 DEF OnDay
  <2>4. IsFiniteSet({})
    BY FS_EmptySet
  <2>5. \A p : Total(discharge, p, {}) = 0
    BY <2>4, TotalChosen
  <2>6. 0 <= Limit
    BY PermitDischargeAssumption
  <2>. QED
    BY <2>2, <2>3, <2>4, <2>5, <2>6 DEF RowsAreFinite, Within
<1>2. LimitIInv /\ [Next]_vars => LimitIInv'
  <2>. SUFFICES ASSUME LimitIInv, [Next]_vars PROVE Within(discharge')
    BY StepInv, RowsStayFinite, LimitIsWithin DEF LimitIInv
  <2>1. ASSUME NEW p \in Permits, NEW k \in Keys, NEW volume \in Volumes, NEW at \in Instants,
               Report(p, k, volume, at)
        PROVE  Within(discharge')
    BY <2>1, ReportKeepsLimit
  <2>2. CASE UNCHANGED discharge
    BY <2>2, LimitIsWithin DEF LimitIInv
  <2>. QED
    BY <2>1, <2>2, OnlyReportsDischarge
<1>3. LimitIInv => DailyLimitHolds
  BY DEF LimitIInv
<1>. QED
  BY <1>1, <1>2, <1>3, PTL DEF Spec

-----------------------------------------------------------------------------
(* Wrapping never makes a sum of numbers greater.                          *)
LEMMA WrapIsLess ==
    ASSUME NEW x \in Nat
    PROVE  Wrap(x) \in Int /\ Wrap(x) <= x
<1>1. PICK M \in Nat : M = MaxInt + 1 /\ M # 0
  BY PermitDischargeAssumption
<1>2. PICK D \in Nat \ {0} : D = 2 * M
  BY <1>1
<1>3. PICK y \in Nat : y = x + M
  BY <1>1
<1>4. y % D \in Nat /\ y % D <= y
  BY DivisionTheorem
<1>5. Wrap(x) = (y % D) - M
  <2>1. x + MaxInt + 1 = y
    BY <1>1, <1>3, PermitDischargeAssumption
  <2>. QED
    BY <1>1, <1>2, <2>1 DEF Wrap
<1>. QED
  BY <1>1, <1>3, <1>4, <1>5

RefusalIInv ==
    /\ IInv
    /\ RowsAreFinite
    /\ RefusalsAreJust

LEMMA RefusedReportExceeds ==
    ASSUME WholeSecondsOnly, IInv, RowsAreFinite, NEW p \in Permits, NEW k \in Keys,
           NEW volume \in Volumes, NEW at \in Instants, ReportRefused(p, k, volume, at)
    PROVE  RefusalsAreJust'
<1>1. PICK outcome \in Outcome :
          /\ Answer(p, k, volume, at, outcome)
          /\ outcome = "capacity" => InForce(p, at) /\ ~SumFails(p, at)
  BY DEF ReportRefused, Outcome
<1>2. /\ reply'.discharge = <<p, k>> /\ reply'.volume = volume
      /\ reply'.at = at /\ reply'.outcome = outcome
  BY <1>1, AnsweredReport
<1>. SUFFICES ASSUME outcome = "capacity"
              PROVE  DayVolume(p, dayStart(at))' + volume > Limit
  BY <1>2 DEF RefusalsAreJust, dayStart
<1>3. PICK total \in Nat : total = Total(discharge, p, OnDay(discharge, p, dayStart(at)))
  BY DayIsNumber
<1>4. DayVolume(p, dayStart(at))' = total
  <2>1. UNCHANGED discharge
    BY DEF ReportRefused
  <2>. QED
    BY <1>3, <2>1, DayIsTotal
<1>5. ~(Wrap(total + volume) <= Limit)
  <2>1. ~Fits(p, volume, at)
    BY <1>1 DEF ReportRefused
  <2>. QED
    BY <1>1, <1>3, <2>1, QueryIsDay DEF Fits
<1>6. volume \in Nat /\ Limit \in Nat
  BY PermitDischargeAssumption
<1>7. Wrap(total + volume) \in Int /\ Wrap(total + volume) <= total + volume
  BY <1>6, WrapIsLess
<1>. QED
  BY <1>4, <1>5, <1>6, <1>7

(* A report, new or repeated, is refused for capacity only if its day has  *)
(* no room for it (Service.ReportDischarge), if times have no fractions of *)
(* a second.  A sum that wraps is admitted where it should not be, and     *)
(* never refused.                                                          *)
THEOREM NoRefusalIsUnjust ==
    ASSUME WholeSecondsOnly
    PROVE  Spec => []RefusalsAreJust
<1>1. Init => RefusalIInv
  <2>. SUFFICES ASSUME Init PROVE RowsAreFinite /\ RefusalsAreJust
    BY InitInv DEF RefusalIInv
  <2>1. \A p \in Permits : Recorded(p) = {}
    BY DEF Init, Recorded, Discharges
  <2>. QED
    BY <2>1, FS_EmptySet DEF Init, RowsAreFinite, RefusalsAreJust
<1>2. RefusalIInv /\ [Next]_vars => RefusalIInv'
  <2>. SUFFICES ASSUME RefusalIInv, [Next]_vars PROVE RefusalsAreJust'
    BY StepInv, RowsStayFinite DEF RefusalIInv
  <2>1. ASSUME NEW p \in Permits, NEW k \in Keys, NEW volume \in Volumes, NEW at \in Instants,
               Report(p, k, volume, at) \/ ReportAgain(p, k, volume, at)
        PROVE  RefusalsAreJust'
    <3>1. \E outcome \in {"created", "persisted", "different"} :
             Answer(p, k, volume, at, outcome)
      BY <2>1 DEF Report, ReportAgain
    <3>2. reply'.outcome # "capacity"
      BY <3>1 DEF Answer
    <3>. QED
      BY <3>2 DEF RefusalsAreJust
  <2>2. CASE \E p \in Permits : ReportDischarge(p)
    BY <2>1, <2>2, RefusedReportExceeds DEF ReportDischarge, RefusalIInv
  <2>3. CASE UNCHANGED <<discharge, reply>>
    <3>1. \A p, start : DayVolume(p, start)' = DayVolume(p, start)
      BY <2>3, DayIsTotal
    <3>. QED
      BY <2>3, <3>1 DEF RefusalIInv, RefusalsAreJust, dayStart
  <2>4. CASE \E p \in Permits : Create(p) \/ Activate(p) \/ Suspend(p)
    BY <2>3, <2>4 DEF Create, Activate, Suspend
  <2>5. CASE Tick \/ OpenExceedance \/ ResolveExceedance \/ UNCHANGED vars
    BY <2>3, <2>5 DEF Tick, OpenExceedance, ResolveExceedance, vars
  <2>. QED
    BY <2>2, <2>4, <2>5 DEF Next
<1>3. RefusalIInv => RefusalsAreJust
  BY DEF RefusalIInv
<1>. QED
  BY <1>1, <1>2, <1>3, PTL DEF Spec
=============================================================================
