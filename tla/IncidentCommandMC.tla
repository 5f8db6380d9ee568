-------------------------- MODULE IncidentCommandMC -------------------------
(* Model values and symmetry for the runs of IncidentCommand.              *)
EXTENDS IncidentCommand, TLC

CONSTANTS s1, s2, o1, i1, b1, k1, k2

TwoSupervisors == {s1, s2}
OneSupervisor == {s1}
OneOperator == {o1}
NoOperators == {}
OneIncident == {i1}
OneResource == {b1}
OneKey == {k1}
TwoKeys == {k1, k2}

\* Supervisors and action keys are interchangeable.
Symmetry == Permutations(TwoSupervisors) \cup Permutations(TwoKeys)
=============================================================================
