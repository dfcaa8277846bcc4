--------------------------- MODULE MC_Correlator ---------------------------
(* Three alerts of one storm with different fingerprints, and one that      *)
(* shares two of the three labels with them.                                *)
EXTENDS Correlator, TLC

CONSTANTS s1, s2, s3, other, Prod, Api, High

Storm == [cluster |-> Prod, service |-> Api, severity |-> Missing]
Near == [cluster |-> Prod, service |-> Api, severity |-> High]

MCAlerts == {s1, s2, s3, other}
MCFingerprintOf == [a \in MCAlerts |-> a]
MCLabelsOf == [a \in MCAlerts |-> IF a = other THEN Near ELSE Storm]

Symmetric == Permutations(Threads)
=============================================================================
