----------------------------- MODULE Resolution -----------------------------
(***************************************************************************)
(* resolution.resolve: the walk from a provider package over a uv lock to  *)
(* the set of distributions its environment is made of.                    *)
(*                                                                         *)
(* A unit of work is a package with the extras it was asked for.  The lock *)
(* is a value chosen at the start.  What it lists is described by what the *)
(* walk asks: whether the marker environment selects one entry of a name,  *)
(* which edges each extra adds (markers already evaluated), and what the   *)
(* entry's source offers.  The code takes work from the end of a list      *)
(* whose order is the lock's; here any piece of work may be next.          *)
(***************************************************************************)
EXTENDS FiniteSets

CONSTANTS
  Names, Extras,  \* packages and extra names
  Root,           \* the provider's own package
  Locks,          \* the locks the walk is given
  AllowDev        \* allow_editable_dev_sources

Items == Names \X SUBSET Extras
\* What a registry or local source leaves to install.
Sources == {"artifact", "hashless", "incompatible",
            "wheel", "otherWheel", "foreignWheel", "path"}

LockShape ==
  [select : [Names -> {"one", "none", "many"}],
   declares : [Names -> SUBSET Extras],
   base : [Names -> SUBSET Items],
   adds : [Names -> [Extras -> SUBSET Items]],
   badMarker : SUBSET Names,
   source : [Names -> Sources]]

ASSUME RootAssumption == Root \in Names /\ AllowDev \in BOOLEAN
ASSUME LockAssumption == Locks \subseteq LockShape

VARIABLES
  lock, extras,  \* the inputs of resolve
  queue,         \* work found
  seen,          \* work done
  resolved,      \* the packages with a distribution
  pc, reason     \* the walk, and why it refused

vars == <<lock, extras, queue, seen, resolved, pc, reason>>

Start == <<Root, extras>>

\* A lock without the root package is refused before the walk.
Init ==
  /\ lock \in Locks /\ extras \in SUBSET Extras
  /\ queue = {Start} /\ seen = {} /\ resolved = {}
  /\ IF lock.select[Root] = "none"
     THEN pc = "refused" /\ reason = "lock_mismatch"
     ELSE pc = "walk" /\ reason = "none"

-----------------------------------------------------------------------------
(* What the walk asks of the lock.                                          *)

\* _requirements: the base edges, and those of each extra asked for.
Edges(item) ==
  lock.base[item[1]] \cup UNION {lock.adds[item[1]][x] : x \in item[2]}

\* _select_entry and _requirements refuse whatever the package's source is.
EntryFault(item) ==
  IF lock.select[item[1]] = "none" THEN "lock_mismatch"
  ELSE IF lock.select[item[1]] = "many" THEN "lock_ambiguous_fork"
  ELSE IF ~ item[2] \subseteq lock.declares[item[1]] THEN "unknown_extra"
  ELSE IF item[1] \in lock.badMarker THEN "lock_mismatch"
  ELSE "none"


\* _pick_artifact, a local wheel, or the development-only path source.
SourceFault(name) ==
  CASE lock.source[name] \in {"artifact", "wheel"} -> "none"
    [] lock.source[name] = "hashless"   -> "lock_missing_hash"
    [] lock.source[name] = "otherWheel" -> "lock_mismatch"
    [] lock.source[name] \in {"incompatible", "foreignWheel"}
                                        -> "no_compatible_artifact"
    [] lock.source[name] = "path"       -> IF AllowDev THEN "none"
                                           ELSE "unresolvable_source"

Fault(item) ==
  IF EntryFault(item) # "none" THEN EntryFault(item)
  ELSE IF item[1] = Root THEN "none" ELSE SourceFault(item[1])

-----------------------------------------------------------------------------
(* The walk.                                                                *)

Visited_Never(item) == FALSE
Visited(item) == item \in seen

Skip(item) ==
  /\ pc = "walk" /\ item \in queue /\ Visited(item)
  /\ queue' = queue \ {item}
  /\ UNCHANGED <<lock, extras, seen, resolved, pc, reason>>

Found_FirstVisit(item) == IF item[1] \in resolved THEN {} ELSE Edges(item)
\* Its edges are followed even when the package itself is resolved already:
\* another set of extras has other edges.
Found(item) == Edges(item)

\* The root is pinned by the accepted artifact and does not enter the set.
Settles(name) == name # Root

Visit(item) ==
  /\ pc = "walk" /\ item \in queue /\ ~Visited(item)
  /\ seen' = seen \cup {item}
  /\ IF EntryFault(item) # "none"
     THEN /\ pc' = "refused" /\ reason' = EntryFault(item)
          /\ UNCHANGED <<queue, resolved>>
     ELSE /\ queue' = (queue \ {item}) \cup Found(item)
          /\ IF item[1] \in resolved \/ ~Settles(item[1])
             THEN UNCHANGED <<resolved, pc, reason>>
             ELSE IF SourceFault(item[1]) # "none"
             THEN /\ pc' = "refused" /\ reason' = SourceFault(item[1])
                  /\ UNCHANGED resolved
             ELSE /\ resolved' = resolved \cup {item[1]}
                  /\ UNCHANGED <<pc, reason>>
  /\ UNCHANGED <<lock, extras>>

Finish ==
  /\ pc = "walk" /\ queue = {}
  /\ pc' = "done"
  /\ UNCHANGED <<lock, extras, queue, seen, resolved, reason>>

Next == Finish \/ \E item \in Items : Skip(item) \/ Visit(item)

Spec == Init /\ [][Next]_vars
\* A loop in one thread of a running process.
FairSpec == Spec /\ WF_vars(Next)

-----------------------------------------------------------------------------
(* Properties.                                                              *)

TypeOK ==
  /\ lock \in LockShape /\ extras \subseteq Extras
  /\ queue \subseteq Items /\ seen \subseteq Items
  /\ resolved \subseteq Names \ {Root}
  /\ pc \in {"walk", "done", "refused"}
  /\ reason \in {"none", "lock_mismatch", "lock_ambiguous_fork", "unknown_extra",
                 "lock_missing_hash", "no_compatible_artifact", "unresolvable_source"}
  /\ pc = "refused" <=> reason # "none"

\* A set of work that has the root and every edge out of what is in it.
Closed(work) == Start \in work /\ \A item \in work : Edges(item) \subseteq work

\* The work reachable from the root: the least such set.
Closure == LET closed == {work \in SUBSET Items : Closed(work)}
           IN  {item \in Items : \A work \in closed : item \in work}

NamesOf(work) == {item[1] : item \in work}

\* The environment is the closure: every package reachable under the extras it
\* is reached with, nothing else, and not the root, whatever the lock's cycles
\* and in whichever order its packages are met.
ResolvesClosure == pc = "done" => resolved = NamesOf(Closure) \ {Root}

\* A walk succeeds only if nothing reachable is at fault, however late it is
\* met: no environment is digested from a lock with an unusable entry in reach.
SuccessIsFaultless == pc = "done" => \A item \in Closure : Fault(item) = "none"

\* A walk refuses only for a fault within reach, and names it.
RefusalIsReal == pc = "refused" => \E item \in Closure : Fault(item) = reason

\* Outside development everything in the set has a content hash.
HashedOnly ==
  ~AllowDev => \A name \in resolved : lock.source[name] \in {"artifact", "wheel"}

\* The walk ends although packages depend on each other in cycles.
WalkEnds == <>(pc # "walk")
=============================================================================
