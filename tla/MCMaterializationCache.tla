----------------------- MODULE MCMaterializationCache -----------------------
(* Instances of MaterializationCache for TLC.                               *)
EXTENDS MaterializationCache, TLC

CONSTANTS p1, p2, p3, script, wheel

TwoFiles  == {script, wheel}
ScriptSet == {script}
Fresh     == {"absent", "exposed"}
Absent    == {"absent"}

NoFaults   == {}
\* Two faults of different kinds.
TwoFaults  == {f \in [FaultKinds -> 0..1] :
                 \A i, j, k \in FaultKinds : f[i] = 1 /\ f[j] = 1 /\ f[k] = 1 => i = j \/ i = k \/ j = k}
=============================================================================
