-------------------------- MODULE PermitDischargeMC -------------------------
(* Model values and bounded data for the runs of PermitDischarge.          *)
EXTENDS PermitDischarge, TLC

CONSTANTS p1, k1, k2, k3

OnePermit == {p1}
TwoKeys == {k1, k2}
ThreeKeys == {k1, k2, k3}

OneVolume == {1}
\* Up to the greatest volume that does not wrap when added to a total within
\* the limit.
SafeVolumes == {1, 2, MaxInt - Limit}

\* Two days of four half seconds, on whole seconds only and on halves too.
WholeSeconds == {0, 2, 4, 6}
HalfSeconds == {3, 4, 5}

Symmetry == Permutations(ThreeKeys)
=============================================================================
