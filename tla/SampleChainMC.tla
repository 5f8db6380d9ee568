--------------------------- MODULE SampleChainMC ----------------------------
(* Model values and bounded data for the runs of SampleChain.              *)
EXTENDS SampleChain, TLC

CONSTANTS s1, s2, s3, north, south, op

ThreePlans == {s1, s2, s3}
TwoStations == {north, south}
OneOperator == {op}
Nobody == {}
NoTests == {}

\* Windows that nest, meet and cross within four seconds, on whole seconds and
\* with fractions: [0, 3] and [2, 6] share half a second that the text order hides.
WholeWindows == {[start |-> 0, end |-> 4], [start |-> 2, end |-> 6],
                 [start |-> 4, end |-> 8], [start |-> 0, end |-> 8]}
HalfSecondWindows == {[start |-> 0, end |-> 3], [start |-> 3, end |-> 7]}
MixedWindows == WholeWindows \cup HalfSecondWindows

\* Instants of each of these seconds, and one off the whole second.
WithinWindows == {0, 2, 4, 5, 6}

PlanSymmetry == Permutations(Plans)
=============================================================================
