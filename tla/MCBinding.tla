----------------------------- MODULE MCBinding -----------------------------
(* Instances of Binding for TLC.                                            *)
EXTENDS Binding, TLC

CONSTANTS r1, r2, a1, a2, m1, m2, i1, i2, f1, f2, c1, gone

ArtifactManifests == a1 :> m1 @@ a2 :> m2
\* Both manifests implement i1; i2 is another digest of the same interface id.
ManifestInterfaces == [m \in Manifests |-> i1]
Both == {"local_env", "container"}
Symmetry == Permutations(Runs)
=============================================================================
