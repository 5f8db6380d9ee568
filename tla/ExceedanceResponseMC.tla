------------------------ MODULE ExceedanceResponseMC ------------------------
(* Model values and bounded data for the run of ExceedanceResponse.        *)
EXTENDS ExceedanceResponse, TLC

CONSTANTS s1, north, op, lab, boss, ph, lead, k1, d1, b1

OnePlan == {s1}
OneStation == {north}
OneOperator == {op}
OneAnalyst == {lab}
OneSupervisor == {boss}
TwoTests == {ph, lead}
OneWindow == {[start |-> 0, end |-> 4]}
OneInstant == {0}
OneResource == {b1}
OneKey == {k1}
OnePermit == {d1}

TestSymmetry == Permutations(TwoTests)
=============================================================================
