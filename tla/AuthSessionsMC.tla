--------------------------- MODULE AuthSessionsMC ---------------------------
(* Model values and symmetry for the run of AuthSessions.                  *)
EXTENDS AuthSessions, TLC

CONSTANTS s1, s2, c1, c2, t1, t2

TwoSupervisors == {s1, s2}
TwoClients == {c1, c2}
TwoTokens == {t1, t2}

\* Supervisors, clients and tokens are interchangeable.
Symmetry == Permutations(TwoSupervisors) \cup Permutations(TwoClients)
               \cup Permutations(TwoTokens)
=============================================================================
