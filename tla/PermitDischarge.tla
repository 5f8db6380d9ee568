-------------------------- MODULE PermitDischarge ---------------------------
(***************************************************************************)
(* Discharge permits and the discharges reported under them                *)
(* (permit.Service and its repository).                                    *)
(*                                                                         *)
(* Every operation is one transaction.  The `now' of Activate is read      *)
(* before its transaction, so it is any instant up to the present; the     *)
(* `occurred_at' of a discharge is whatever instant the reporter says.     *)
(* Volumes are integers of Bits bits, as int64 is of 64: additions wrap.   *)
(***************************************************************************)
EXTENDS TimeText, Integers, FiniteSetsExt

CONSTANTS
    Permits,        \* permits, all for one water source
    Keys,           \* idempotency keys of reports
    Volumes,        \* litres a report may claim
    Instants,       \* occurred_at values a report may claim
    None,           \* no row
    Limit,          \* daily_volume_limit_liters
    ValidFrom, ValidUntil,
    DayLength,      \* half seconds per UTC day
    Bits,           \* width of a volume
    MaxTime,        \* bound on the clock
    MaxVersion,     \* bound on status changes of a permit
    MaxExceedances  \* bound on open exceedance incidents

MaxInt == 2 ^ (Bits - 1) - 1

ASSUME PermitDischargeAssumption ==
    /\ Bits \in Nat \ {0} /\ MaxInt \in Nat
    /\ Volumes \subseteq 1..MaxInt
    /\ Instants \subseteq Nat
    /\ Limit \in 1..MaxInt
    /\ ValidFrom \in Nat /\ ValidUntil \in Nat /\ ValidFrom < ValidUntil
    /\ DayLength \in Nat \ {0} /\ DayLength % 2 = 0
    /\ MaxTime \in Nat /\ MaxVersion \in Nat /\ MaxExceedances \in Nat

VARIABLES
    clock,
    permit,      \* permits: status and version
    discharge,   \* discharge_events, keyed by permit and idempotency key
    exceedances, \* unresolved incidents of the source with a laboratory result
    outbox,      \* keys "suspend:<permit>:<version>" of outbox_events
    reply        \* the latest report and the answer it got, or None

vars == <<clock, permit, discharge, exceedances, outbox, reply>>

-----------------------------------------------------------------------------
PermitStatus == {"absent", "draft", "active", "suspended", "expired", "revoked"}
PermitRow == [status : PermitStatus, version : Nat]
DischargeRow == [volume : Volumes, at : Instants]
Outcome == {"created", "persisted", "different", "capacity", "inactive", "error"}
Discharges == Permits \X Keys

ASSUME NoRowIsNone == None \notin DischargeRow

Init ==
    /\ clock = 0
    /\ permit = [p \in Permits |-> [status |-> "absent", version |-> 0]]
    /\ discharge = [d \in Discharges |-> None]
    /\ exceedances = 0
    /\ outbox = {}
    /\ reply = None

Tick ==
    /\ clock < MaxTime
    /\ clock' = clock + 1
    /\ UNCHANGED <<permit, discharge, exceedances, outbox, reply>>

\* laboratory.Service.Review confirms an exceedance of the source, and its
\* incident is resolved later.
OpenExceedance ==
    /\ exceedances < MaxExceedances
    /\ exceedances' = exceedances + 1
    /\ UNCHANGED <<clock, permit, discharge, outbox, reply>>

ResolveExceedance ==
    /\ exceedances > 0
    /\ exceedances' = exceedances - 1
    /\ UNCHANGED <<clock, permit, discharge, outbox, reply>>

-----------------------------------------------------------------------------
(* Service.Create, for an active source.                                   *)
Create(p) ==
    /\ permit[p].status = "absent"
    /\ permit' = [permit EXCEPT ![p] = [status |-> "draft", version |-> 1]]
    /\ UNCHANGED <<clock, discharge, exceedances, outbox, reply>>

(* The part of Permit.CanTransition that the operations use.               *)
CanTransition(from, to) ==
    \/ from \in {"draft", "suspended"} /\ to = "active"
    \/ from = "active" /\ to = "suspended"

\* Mutant of TransitionPermit: a status the table does not know.
TransitionPermitUnknownStatus(p, to) ==
    /\ permit[p].version < MaxVersion
    /\ permit' = [permit EXCEPT ![p] = [status |-> "inactive", version |-> @.version + 1]]

\* TransitionPermit bumps the version with the status.
TransitionPermit(p, to) ==
    /\ permit[p].version < MaxVersion
    /\ permit' = [permit EXCEPT ![p] = [status |-> to, version |-> @.version + 1]]

(* Service.Activate.                                                       *)
Activate(p) ==
    /\ CanTransition(permit[p].status, "active")
    /\ \E now \in 0..clock : ValidFrom <= now /\ now < ValidUntil
    /\ exceedances = 0
    /\ TransitionPermit(p, "active")
    /\ UNCHANGED <<clock, discharge, exceedances, outbox, reply>>

\* Mutant of SuspensionKey: one key per permit, so the second event is lost.
SuspensionKeyOnce(p) == <<p, 2>>

SuspensionKey(p) == <<p, permit[p].version>>

(* Service.Suspend: the outbox event carries the version it suspended.     *)
Suspend(p) ==
    /\ CanTransition(permit[p].status, "suspended")
    /\ TransitionPermit(p, "suspended")
    /\ outbox' = outbox \cup {SuspensionKey(p)}
    /\ UNCHANGED <<clock, discharge, exceedances, reply>>

-----------------------------------------------------------------------------
\* Two's complement: there are MaxInt + 1 negative and as many other integers.
Wrap(x) == ((x + MaxInt + 1) % (2 * (MaxInt + 1))) - (MaxInt + 1)

dayStart(at) == at - (at % DayLength)

VolumeOf(p, keys) == MapThenSumSet(LAMBDA k : discharge[<<p, k>>].volume, keys)

Recorded(p) == {k \in Keys : discharge[<<p, k>>] # None}

(* DailyDischargeVolume, whose bounds SQL compares as text.                *)
DailyDischargeVolume(p, start) ==
    VolumeOf(p, {k \in Recorded(p) :
        LET at == discharge[<<p, k>>].at
        IN  TextLeq(start, at) /\ TextLess(at, start + DayLength)})

(* The permit is active at the time of the discharge.                      *)
InForce(p, at) ==
    permit[p].status = "active" /\ ValidFrom <= at /\ at < ValidUntil

(* SUM fails on overflow instead of wrapping.                              *)
SumFails(p, at) == DailyDischargeVolume(p, dayStart(at)) > MaxInt

\* Mutants of Fits: the volume reported is left out of the sum; a day that
\* the report would fill exactly is full already.
FitsWithoutReport(p, volume, at) ==
    DailyDischargeVolume(p, dayStart(at)) <= Limit
FitsBelow(p, volume, at) ==
    ~SumFails(p, at) /\ Wrap(DailyDischargeVolume(p, dayStart(at)) + volume) < Limit

(* total + volume <= limit, in the program's integers.                     *)
Fits(p, volume, at) ==
    ~SumFails(p, at) /\ Wrap(DailyDischargeVolume(p, dayStart(at)) + volume) <= Limit

Answer(p, k, volume, at, outcome) ==
    reply' = [discharge |-> <<p, k>>, volume |-> volume, at |-> at, outcome |-> outcome]

(* Service.ReportDischarge, by any user.  ON CONFLICT DO NOTHING finds a   *)
(* key already used only after the permit and the capacity were checked.   *)
Report(p, k, volume, at) ==
    /\ InForce(p, at) /\ Fits(p, volume, at)
    /\ discharge[<<p, k>>] = None
    /\ discharge' = [discharge EXCEPT ![<<p, k>>] = [volume |-> volume, at |-> at]]
    /\ Answer(p, k, volume, at, "created")
    /\ UNCHANGED <<clock, permit, exceedances, outbox>>

SameReport(row, volume, at) == row.volume = volume /\ row.at = at

(* The key has a row: the report is a repetition of it or a conflict.      *)
ReportAgain(p, k, volume, at) ==
    LET row == discharge[<<p, k>>] IN
    /\ InForce(p, at) /\ Fits(p, volume, at)
    /\ row # None
    /\ Answer(p, k, volume, at,
              IF SameReport(row, volume, at) THEN "persisted" ELSE "different")
    /\ UNCHANGED <<clock, permit, discharge, exceedances, outbox>>

(* Refused before the key is looked at, whether it has a row or not.       *)
ReportRefused(p, k, volume, at) ==
    /\ ~(InForce(p, at) /\ Fits(p, volume, at))
    /\ permit[p].status # "absent"
    /\ Answer(p, k, volume, at,
              IF ~InForce(p, at) THEN "inactive"
              ELSE IF SumFails(p, at) THEN "error" ELSE "capacity")
    /\ UNCHANGED <<clock, permit, discharge, exceedances, outbox>>

ReportDischarge(p) ==
    \E k \in Keys, volume \in Volumes, at \in Instants :
        \/ Report(p, k, volume, at)
        \/ ReportAgain(p, k, volume, at)
        \/ ReportRefused(p, k, volume, at)

Next ==
    \/ Tick \/ OpenExceedance \/ ResolveExceedance
    \/ \E p \in Permits :
          Create(p) \/ Activate(p) \/ Suspend(p) \/ ReportDischarge(p)

Spec == Init /\ [][Next]_vars

-----------------------------------------------------------------------------
ReplyRow == [discharge : Discharges, volume : Volumes, at : Instants, outcome : Outcome]

TypeOK ==
    /\ clock \in Nat
    /\ permit \in [Permits -> PermitRow]
    /\ discharge \in [Discharges -> DischargeRow \cup {None}]
    /\ exceedances \in Nat
    /\ outbox \subseteq Permits \X Nat
    /\ reply \in ReplyRow \cup {None}

\* What was discharged under a permit on the UTC day that starts then, by the
\* instants themselves and without wrapping.
DayVolume(p, start) ==
    VolumeOf(p, {k \in Recorded(p) : dayStart(discharge[<<p, k>>].at) = start})

(* README: discharge reports "enforce the daily volume limit inside the    *)
(* transaction".  The volume of every day is within the limit, whatever    *)
(* order the reports came in.                                              *)
DailyLimitHolds ==
    \A p \in Permits : \A start \in {dayStart(at) : at \in Instants} :
        DayVolume(p, start) <= Limit

(* The other side of the limit: a report is refused for capacity only if   *)
(* with it the volume of its own day would really exceed the limit.  For a *)
(* repetition, which README would answer with the event on record, it says *)
(* when that is not what happens: the day has no room for it twice.        *)
RefusalsAreJust ==
    reply # None /\ reply.outcome = "capacity" =>
        DayVolume(reply.discharge[1], dayStart(reply.at)) + reply.volume > Limit

(* Every suspension a permit has gone through left an outbox event of its  *)
(* own: versions alternate between activation and suspension.              *)
SuspensionsAnnounced ==
    outbox = {key \in Permits \X (1..MaxVersion) :
                 key[2] % 2 = 0 /\ key[2] < permit[key[1]].version}
=============================================================================
