---------------------------- MODULE AlertPromise ----------------------------
(***************************************************************************)
(* What telemetry alerting promises, one stage per reading and no workers, *)
(* leases, rows or clock: an exceeding reading owes an incident; the       *)
(* incident is created together with its notification or the alert is      *)
(* abandoned; the notification is delivered or given up.                   *)
(***************************************************************************)
CONSTANT Readings
VARIABLE stage

Init == stage = [r \in Readings |-> "none"]

Move(r, from, to) == stage[r] = from /\ stage' = [stage EXCEPT ![r] = to]

Accept(r) == Move(r, "none", "ignored") \/ Move(r, "none", "owed")
Report(r) == Move(r, "owed", "reported") \/ Move(r, "owed", "abandoned")
Notify(r) == Move(r, "reported", "notified") \/ Move(r, "reported", "undelivered")

Next == \E r \in Readings : Accept(r) \/ Report(r) \/ Notify(r)

Spec == Init /\ [][Next]_stage

FairSpec == Spec /\ \A r \in Readings : WF_stage(Report(r)) /\ WF_stage(Notify(r))
=============================================================================
