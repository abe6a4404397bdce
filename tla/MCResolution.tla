---------------------------- MODULE MCResolution ----------------------------
(***************************************************************************)
(* Instances of Resolution for TLC.  A lock has at most two edges out of   *)
(* the root, one out of another package, one extra with an edge of its     *)
(* own, and one entry that is at fault or local; edges may lead to any     *)
(* package, the root and the package itself included.                      *)
(***************************************************************************)
EXTENDS Resolution, Naturals

CONSTANTS root, a, b, x

Few(n) == {work \in SUBSET Items : Cardinality(work) <= n}

Sound == [select |-> [n \in Names |-> "one"],
          declares |-> [n \in Names |-> Extras],
          badMarker |-> {},
          source |-> [n \in Names |-> "artifact"]]

\* The entries of a lock, all sound, or one of them at fault, or that of a local.
Entries ==
  {Sound}
  \cup {[Sound EXCEPT !.select[n] = s] : n \in Names, s \in {"none", "many"}}
  \cup {[Sound EXCEPT !.declares[n] = {}] : n \in Names}
  \cup {[Sound EXCEPT !.badMarker = {n}] : n \in Names}
  \cup {[Sound EXCEPT !.source[a] = s] : s \in Sources}

LockOf(e, base, adds) ==
  [select |-> e.select, declares |-> e.declares, badMarker |-> e.badMarker,
   source |-> e.source, base |-> base, adds |-> [n \in Names |-> [y \in Extras |-> adds[n]]]]

BaseEdges == {f \in [Names -> Few(2)] : f[a] \in Few(1) /\ f[b] \in Few(1)}
\* Package a has the extra with an edge of its own.
ExtraEdges == {f \in [Names -> Few(1)] : f[root] = {} /\ f[b] = {}}

SmallLocks ==
  {LockOf(e, base, adds) : e \in Entries, base \in BaseEdges, adds \in ExtraEdges}
=============================================================================
