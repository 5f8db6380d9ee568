------------------------------ MODULE LeaseRow ------------------------------
(***************************************************************************)
(* The rows of alert_jobs and of outbox_events carry the same lease and    *)
(* retry columns, and the claim and settle statements over them have the   *)
(* same shape.  This module is that shape: what a claimable row is, which  *)
(* row a claim takes, and the row each statement leaves behind.            *)
(*                                                                         *)
(* A row is keyed by the telemetry reading it is about.  Times are whole   *)
(* seconds.  The random lease token is not a field: a token is fresh for   *)
(* every claim, and so is the pair (row, generation), which the statements *)
(* compare together with it.                                               *)
(***************************************************************************)
EXTENDS Naturals

CONSTANTS
    Workers,      \* lease owners: "<runtime owner>-<index>"
    None,         \* SQL NULL
    MaxAttempts,  \* max_attempts of every row (5 in the code)
    Lease         \* WATERPRO_WORKER_LEASE, in seconds

ASSUME LeaseRowAssumption ==
    /\ None \notin Nat
    /\ None \notin Workers
    /\ MaxAttempts \in Nat \ {0}
    /\ Lease \in Nat \ {0}

Waiting == {"pending", "retry"}

Row(Status) ==
    [status    : Status,
     attempts  : Nat,
     available : Nat,
     created   : Nat,
     owner     : Workers \cup {None},
     gen       : Nat,
     expires   : Nat \cup {None}]

\* The key has no row.
AbsentRow ==
    [status |-> "absent", attempts |-> 0, available |-> 0, created |-> 0,
     owner |-> None, gen |-> 0, expires |-> None]

\* A freshly inserted row: pending, claimable at once.
NewRow(now) ==
    [AbsentRow EXCEPT !.status = "pending", !.available = now, !.created = now]

-----------------------------------------------------------------------------
(* domain.RetryDelay, in seconds: 1 << (attempt - 1), attempt clamped to   *)
(* 1..8.                                                                   *)
RetryDelay(attempt) ==
    LET a == IF attempt < 1 THEN 1 ELSE IF attempt > 8 THEN 8 ELSE attempt
    IN  <<1, 2, 4, 8, 16, 32, 64, 128>>[a]

\* Mutants of Claimable: rows left behind under an expired lease, or dead
\* ones, are claimed too.
ClaimableWhenExpired(row, now) ==
    /\ row.status \in Waiting \cup {"running", "sending"}
    /\ row.available <= now
    /\ row.expires = None \/ row.expires <= now

ClaimableWhenDead(row, now) ==
    /\ row.status \in Waiting \cup {"dead"}
    /\ row.available <= now

(* The WHERE clause of both claim statements.                              *)
Claimable(row, now) ==
    /\ row.status \in Waiting
    /\ row.available <= now
    /\ row.expires = None \/ row.expires <= now

(* ORDER BY available_at, created_at.  What is left of the order (random   *)
(* ids) is a tie.                                                          *)
NotAfter(r, s) ==
    \/ r.available < s.available
    \/ r.available = s.available /\ r.created <= s.created

(* The keys a claim reading the table at `now' may select with LIMIT 1.    *)
FirstClaimable(table, now) ==
    {k \in DOMAIN table :
        /\ Claimable(table[k], now)
        /\ \A other \in DOMAIN table :
              Claimable(table[other], now) => NotAfter(table[k], table[other])}

(* UPDATE ... SET status, lease_owner, lease_generation + 1, expiry.       *)
ClaimRow(row, status, w, now) ==
    [row EXCEPT !.status = status, !.owner = w,
                !.gen = row.gen + 1, !.expires = now + Lease]

(* The fencing columns every settling UPDATE compares: the row must still  *)
(* be the one this worker claimed, under this claim.                       *)
Fenced(row, status, w, gen) ==
    /\ row.status = status
    /\ row.owner = w
    /\ row.gen = gen

(* A settling UPDATE clears the lease but keeps the generation.            *)
SettleRow(row, status, attempts, available) ==
    [row EXCEPT !.status = status, !.attempts = attempts,
                !.available = available, !.owner = None, !.expires = None]

\* Mutant of FailRow: one attempt too many.
FailRowOffByOne(row, attempts, now) ==
    IF attempts > MaxAttempts
    THEN SettleRow(row, "dead", attempts, now)
    ELSE SettleRow(row, "retry", attempts, now + RetryDelay(attempts))

(* The row after a failed attempt: dead once the attempts are used up,     *)
(* else due again after the backoff.                                       *)
FailRow(row, attempts, now) ==
    IF attempts >= MaxAttempts
    THEN SettleRow(row, "dead", attempts, now)
    ELSE SettleRow(row, "retry", attempts, now + RetryDelay(attempts))
=============================================================================
