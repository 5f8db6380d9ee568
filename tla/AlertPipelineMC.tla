--------------------------- MODULE AlertPipelineMC --------------------------
(* Model values and symmetry for the runs of AlertPipeline.                *)
EXTENDS AlertPipeline, TLC

CONSTANTS w1, w2, r1, r2

TwoWorkers == {w1, w2}
OneWorker == {w1}
TwoReadings == {r1, r2}
OneReading == {r1}

\* Workers and readings are interchangeable (safety runs only).
Symmetry == Permutations(TwoWorkers) \cup Permutations(TwoReadings)
=============================================================================
