-------------------------- MODULE ResolutionProofs --------------------------
(***************************************************************************)
(* What the walk computes, for every set of locks, names and extras: at    *)
(* all times it has met nothing outside the closure, and when it is done   *)
(* what it has met is closed itself.  Each step leaves it less to do.      *)
(***************************************************************************)
EXTENDS Resolution, FiniteSetTheorems, TLAPS

\* Everything met is reachable, and everything done has been followed.
MetInv ==
  /\ seen \cup queue \subseteq Closure
  /\ Start \in seen \cup queue
  /\ pc # "refused" => \A item \in seen : Edges(item) \subseteq seen \cup queue
  /\ pc = "done" => queue = {}

\* Everything done is without fault and settled, unless the walk refused.
DoneInv ==
  /\ pc # "refused" => /\ \A item \in seen : Fault(item) = "none"
                       /\ resolved = NamesOf(seen) \ {Root}
  /\ pc = "refused" => \E item \in Closure : Fault(item) = reason

HashInv == ~AllowDev => \A name \in resolved : SourceFault(name) = "none"

IInv == TypeOK /\ MetInv /\ DoneInv /\ HashInv

-----------------------------------------------------------------------------
(* The closure.                                                             *)

LEMMA EdgesAreItems ==
  ASSUME lock \in LockShape, NEW item \in Items
  PROVE  Edges(item) \subseteq Items
BY DEF LockShape, Items, Edges

LEMMA StartIsItem == ASSUME TypeOK PROVE Start \in Items
BY RootAssumption DEF TypeOK, Start, Items

\* The closure is closed.
LEMMA ClosureIsClosed ==
  ASSUME TypeOK
  PROVE  /\ Closure \subseteq Items /\ Start \in Closure
         /\ \A item \in Closure : Edges(item) \subseteq Closure
<1>1. Start \in Items
  BY StartIsItem
<1>2. lock \in LockShape
  BY DEF TypeOK
<1>3. ASSUME NEW item \in Closure PROVE Edges(item) \subseteq Closure
  <2>1. item \in Items /\ \A work \in SUBSET Items : Closed(work) => item \in work
    BY <1>3 DEF Closure
  <2>2. Edges(item) \subseteq Items
    BY <2>1, <1>2, EdgesAreItems
  <2> QED
    BY <2>1, <2>2 DEF Closure, Closed
<1> QED
  BY <1>1, <1>3 DEF Closure, Closed

\* The closure is within every closed set.
LEMMA ClosureIsLeast ==
  ASSUME NEW work \in SUBSET Items, Closed(work)
  PROVE  Closure \subseteq work
BY DEF Closure

\* A step of the walk leaves the lock and the closure alone.
LEMMA InputsKept ==
  ASSUME UNCHANGED <<lock, extras>>
  PROVE  /\ Closure' = Closure /\ Start' = Start
         /\ \A item : /\ Edges(item)' = Edges(item) /\ Fault(item)' = Fault(item)
                      /\ EntryFault(item)' = EntryFault(item)
         /\ \A name : SourceFault(name)' = SourceFault(name)
BY DEF Closure, Start, Closed, Edges, Fault, EntryFault, SourceFault

LEMMA FaultIsReason ==
  ASSUME lock \in LockShape, NEW item \in Items
  PROVE  /\ EntryFault(item) \in {"none", "lock_mismatch", "lock_ambiguous_fork", "unknown_extra"}
         /\ SourceFault(item[1]) \in {"none", "lock_mismatch", "lock_missing_hash",
                                      "no_compatible_artifact", "unresolvable_source"}
<1>1. EntryFault(item) \in {"none", "lock_mismatch", "lock_ambiguous_fork", "unknown_extra"}
  BY DEF EntryFault
<1>2. lock.source[item[1]] \in Sources
  BY DEF LockShape, Items
<1>3. SourceFault(item[1]) \in {"none", "lock_mismatch", "lock_missing_hash",
                                "no_compatible_artifact", "unresolvable_source"}
  BY <1>2 DEF SourceFault, Sources
<1> QED
  BY <1>1, <1>3

-----------------------------------------------------------------------------
(* The invariant.                                                           *)

LEMMA InitEstablishes == Init => IInv
<1> SUFFICES ASSUME Init PROVE IInv
  OBVIOUS
<1>1. TypeOK
  BY LockAssumption, RootAssumption DEF Init, TypeOK, Start, Items
<1>2. Start \in Closure
  BY <1>1, ClosureIsClosed
<1>3. MetInv
  BY <1>2 DEF Init, MetInv
<1>4. pc = "refused" => Fault(Start) = reason
  BY DEF Init, Fault, EntryFault, Start
<1>5. DoneInv
  BY <1>2, <1>4 DEF Init, DoneInv, NamesOf
<1>6. HashInv
  BY DEF Init, HashInv
<1> QED
  BY <1>1, <1>3, <1>5, <1>6 DEF IInv

LEMMA VisitKeeps ==
  ASSUME IInv, NEW item \in Items, Visit(item)
  PROVE  IInv'
<1> USE DEF IInv
<1>1. item \in Closure /\ Edges(item) \subseteq Closure
  BY ClosureIsClosed DEF Visit, MetInv
<1>2. Edges(item) \subseteq Items /\ lock \in LockShape
  BY EdgesAreItems DEF TypeOK
<1>3. UNCHANGED <<lock, extras>> /\ seen' = seen \cup {item} /\ pc = "walk" /\ item \in queue
  BY DEF Visit
<1>4. /\ EntryFault(item) \in {"none", "lock_mismatch", "lock_ambiguous_fork", "unknown_extra"}
      /\ SourceFault(item[1]) \in {"none", "lock_mismatch", "lock_missing_hash",
                                   "no_compatible_artifact", "unresolvable_source"}
  BY <1>2, FaultIsReason
<1>5. /\ Closure' = Closure /\ Start' = Start
      /\ \A i : Edges(i)' = Edges(i) /\ Fault(i)' = Fault(i) /\ EntryFault(i)' = EntryFault(i)
      /\ \A name : SourceFault(name)' = SourceFault(name)
  BY <1>3, InputsKept
<1>6. item[1] \in Names
  BY DEF Items
<1>a. CASE EntryFault(item) # "none"
  <2>1. /\ pc' = "refused" /\ reason' = EntryFault(item) /\ reason' # "none"
        /\ UNCHANGED <<queue, resolved>>
    BY <1>a DEF Visit
  <2>2. TypeOK'
    BY <2>1, <1>3, <1>4 DEF TypeOK
  <2>3. MetInv'
    BY <2>1, <1>1, <1>3, <1>5 DEF MetInv
  <2>4. Fault(item) = reason'
    BY <2>1, <1>a DEF Fault
  <2>5. DoneInv'
    BY <2>1, <2>4, <1>1, <1>5 DEF DoneInv
  <2>6. HashInv'
    BY <2>1, <1>5 DEF HashInv
  <2> QED
    BY <2>2, <2>3, <2>5, <2>6
<1>b. CASE EntryFault(item) = "none"
  <2>1. queue' = (queue \ {item}) \cup Edges(item)
    BY <1>b DEF Visit, Found
  <2>2. seen' \cup queue' \subseteq Closure /\ Start' \in seen' \cup queue'
    BY <2>1, <1>1, <1>3, <1>5 DEF MetInv
  <2>3. ASSUME NEW i \in seen' PROVE Edges(i)' \subseteq seen' \cup queue'
    <3>1. CASE i = item
      BY <3>1, <2>1, <1>5
    <3>2. CASE i \in seen
      BY <3>2, <2>1, <1>3, <1>5 DEF MetInv
    <3> QED
      BY <3>1, <3>2, <1>3
  <2>4. seen' \subseteq Items /\ queue' \subseteq Items
    BY <2>1, <1>2, <1>3 DEF TypeOK
  <2>x. NamesOf(seen') = NamesOf(seen) \cup {item[1]}
    BY <1>3 DEF NamesOf
  <2>c. CASE item[1] \in resolved \/ item[1] = Root
    <3>1. UNCHANGED <<resolved, pc, reason>>
      BY <1>b, <2>c DEF Visit, Settles
    <3>2. TypeOK'
      BY <3>1, <2>4, <1>3 DEF TypeOK
    <3>3. MetInv'
      BY <3>1, <2>2, <2>3, <1>3, <1>5 DEF MetInv
    <3>4. Fault(item) = "none"
      <4>1. CASE item[1] = Root
        BY <4>1, <1>b DEF Fault
      <4>2. CASE item[1] \in resolved
        <5>1. PICK i \in seen : i[1] = item[1]
          BY <4>2, <1>3 DEF DoneInv, NamesOf
        <5>2. Fault(i) = "none" /\ item[1] # Root
          BY <5>1, <4>2, <1>3 DEF DoneInv, TypeOK
        <5> QED
          BY <5>1, <5>2, <1>b DEF Fault
      <4> QED
        BY <4>1, <4>2, <2>c
    <3>5. resolved' = NamesOf(seen') \ {Root}
      BY <3>1, <2>x, <2>c, <1>3 DEF DoneInv, TypeOK
    <3>6. DoneInv'
      BY <3>1, <3>4, <3>5, <1>3, <1>5 DEF DoneInv
    <3>7. HashInv'
      BY <3>1, <1>5 DEF HashInv
    <3> QED
      BY <3>2, <3>3, <3>6, <3>7
  <2>d. CASE item[1] \notin resolved /\ item[1] # Root /\ SourceFault(item[1]) # "none"
    <3>1. pc' = "refused" /\ reason' = SourceFault(item[1]) /\ UNCHANGED resolved
      BY <1>b, <2>d DEF Visit, Settles
    <3>2. TypeOK'
      BY <3>1, <2>4, <2>d, <1>3, <1>4 DEF TypeOK
    <3>3. MetInv'
      BY <3>1, <2>2, <1>3, <1>5 DEF MetInv
    <3>4. Fault(item) = reason'
      BY <3>1, <2>d, <1>b DEF Fault
    <3>5. DoneInv'
      BY <3>1, <3>4, <1>1, <1>5 DEF DoneInv
    <3>6. HashInv'
      BY <3>1, <1>5 DEF HashInv
    <3> QED
      BY <3>2, <3>3, <3>5, <3>6
  <2>e. CASE item[1] \notin resolved /\ item[1] # Root /\ SourceFault(item[1]) = "none"
    <3>1. resolved' = resolved \cup {item[1]} /\ UNCHANGED <<pc, reason>>
      BY <1>b, <2>e DEF Visit, Settles
    <3>2. TypeOK'
      BY <3>1, <2>4, <2>e, <1>3, <1>6 DEF TypeOK
    <3>3. MetInv'
      BY <3>1, <2>2, <2>3, <1>3, <1>5 DEF MetInv
    <3>4. Fault(item) = "none"
      BY <2>e, <1>b DEF Fault
    <3>5. resolved' = NamesOf(seen') \ {Root}
      BY <3>1, <2>x, <2>e, <1>3 DEF DoneInv
    <3>6. DoneInv'
      BY <3>1, <3>4, <3>5, <1>3, <1>5 DEF DoneInv
    <3>7. HashInv'
      BY <3>1, <2>e, <1>5 DEF HashInv
    <3> QED
      BY <3>2, <3>3, <3>6, <3>7
  <2> QED
    BY <2>c, <2>d, <2>e
<1> QED
  BY <1>a, <1>b

LEMMA NextKeeps == IInv /\ [Next]_vars => IInv'
<1> SUFFICES ASSUME IInv, [Next]_vars PROVE IInv'
  OBVIOUS
<1>1. ASSUME NEW item \in Items, Visit(item) PROVE IInv'
  BY <1>1, VisitKeeps
<1>2. ASSUME NEW item \in Items, Skip(item) PROVE IInv'
  <2>1. /\ UNCHANGED <<lock, extras, seen, resolved, pc, reason>>
        /\ queue' = queue \ {item} /\ item \in seen /\ pc = "walk"
    BY <1>2 DEF Skip, Visited
  <2>2. /\ Closure' = Closure /\ Start' = Start
        /\ \A i : Edges(i)' = Edges(i) /\ Fault(i)' = Fault(i)
        /\ \A name : SourceFault(name)' = SourceFault(name)
    BY <2>1, InputsKept
  <2>3. TypeOK' /\ MetInv'
    BY <2>1, <2>2 DEF IInv, TypeOK, MetInv
  <2>4. NamesOf(seen)' = NamesOf(seen)
    BY <2>1 DEF NamesOf
  <2>5. DoneInv' /\ HashInv'
    BY <2>1, <2>2, <2>4 DEF IInv, DoneInv, HashInv
  <2> QED
    BY <2>3, <2>5 DEF IInv
<1>3. ASSUME Finish PROVE IInv'
  <2>1. /\ UNCHANGED <<lock, extras, queue, seen, resolved, reason>>
        /\ pc = "walk" /\ queue = {} /\ pc' = "done"
    BY <1>3 DEF Finish
  <2>2. /\ Closure' = Closure /\ Start' = Start
        /\ \A i : Edges(i)' = Edges(i) /\ Fault(i)' = Fault(i)
        /\ \A name : SourceFault(name)' = SourceFault(name)
    BY <2>1, InputsKept
  <2>3. TypeOK' /\ MetInv'
    BY <2>1, <2>2 DEF IInv, TypeOK, MetInv
  <2>4. NamesOf(seen)' = NamesOf(seen)
    BY <2>1 DEF NamesOf
  <2>5. DoneInv' /\ HashInv'
    BY <2>1, <2>2, <2>4 DEF IInv, DoneInv, HashInv
  <2> QED
    BY <2>3, <2>5 DEF IInv
<1>4. CASE UNCHANGED vars
  <2>1. UNCHANGED <<lock, extras, queue, seen, resolved, pc, reason>>
    BY <1>4 DEF vars
  <2>2. /\ Closure' = Closure /\ Start' = Start
        /\ \A i : Edges(i)' = Edges(i) /\ Fault(i)' = Fault(i)
        /\ \A name : SourceFault(name)' = SourceFault(name)
    BY <2>1, InputsKept
  <2>3. TypeOK' /\ MetInv'
    BY <2>1, <2>2 DEF IInv, TypeOK, MetInv
  <2>4. NamesOf(seen)' = NamesOf(seen)
    BY <2>1 DEF NamesOf
  <2>5. DoneInv' /\ HashInv'
    BY <2>1, <2>2, <2>4 DEF IInv, DoneInv, HashInv
  <2> QED
    BY <2>3, <2>5 DEF IInv
<1> QED
  BY <1>1, <1>2, <1>3, <1>4 DEF Next

THEOREM WalkInvariant == Spec => []IInv
<1>1. Init => IInv
  BY InitEstablishes
<1>2. IInv /\ [Next]_vars => IInv'
  BY NextKeeps
<1> QED
  BY <1>1, <1>2, PTL DEF Spec

-----------------------------------------------------------------------------
(* What it gives.                                                           *)

\* What a finished walk has done is the closure.
LEMMA DoneIsClosure == ASSUME IInv, pc = "done" PROVE seen = Closure
<1>1. queue = {} /\ seen \subseteq Closure /\ Start \in seen
      /\ \A item \in seen : Edges(item) \subseteq seen
  BY DEF IInv, MetInv
<1>2. seen \in SUBSET Items /\ Closed(seen)
  BY <1>1 DEF IInv, TypeOK, Closed
<1> QED
  BY <1>1, <1>2, ClosureIsLeast

\* Every variable of the walk keeps its type.
THEOREM TypeCorrect == Spec => []TypeOK
<1>1. IInv => TypeOK
  BY DEF IInv
<1> QED
  BY <1>1, WalkInvariant, PTL

\* The resolved set is the closure of the root under the extras asked for,
\* whatever the lock's shape and the order of the walk.
THEOREM ResolvesClosureHolds == Spec => []ResolvesClosure
<1>1. IInv => ResolvesClosure
  BY DoneIsClosure DEF IInv, DoneInv, ResolvesClosure
<1> QED
  BY <1>1, WalkInvariant, PTL

\* A successful walk has met no entry at fault, and there is none in reach.
THEOREM SuccessIsFaultlessHolds == Spec => []SuccessIsFaultless
<1>1. IInv => SuccessIsFaultless
  BY DoneIsClosure DEF IInv, DoneInv, SuccessIsFaultless
<1> QED
  BY <1>1, WalkInvariant, PTL

\* A refusal names a fault of something in reach.
THEOREM RefusalIsRealHolds == Spec => []RefusalIsReal
<1>1. IInv => RefusalIsReal
  BY DEF IInv, DoneInv, RefusalIsReal
<1> QED
  BY <1>1, WalkInvariant, PTL

\* Outside development nothing enters the set without a content hash.
THEOREM HashedOnlyHolds == Spec => []HashedOnly
<1>1. ASSUME IInv PROVE HashedOnly
  <2> SUFFICES ASSUME ~AllowDev, NEW name \in resolved
               PROVE  lock.source[name] \in {"artifact", "wheel"}
    BY DEF HashedOnly
  <2>1. SourceFault(name) = "none"
    BY <1>1 DEF IInv, HashInv
  <2>2. name \in Names /\ lock \in LockShape
    BY <1>1 DEF IInv, TypeOK
  <2>3. lock.source[name] \in Sources
    BY <2>2 DEF LockShape
  <2> QED
    BY <2>1, <2>3 DEF SourceFault, Sources
<1> QED
  BY <1>1, WalkInvariant, PTL

-----------------------------------------------------------------------------
(* The walk ends: it leaves less to do with each step.                      *)

\* What is left to do: work that was never done counts for more than all that can
\* be queued at once.
StepsLeft ==
  (Cardinality(Items) + 1) * Cardinality(Items \ seen) + Cardinality(queue)
  + (IF pc = "walk" THEN 1 ELSE 0)

\* A lock names finitely many packages and extras, so there is finitely much work.
LEMMA WorkIsFinite ==
  ASSUME IsFiniteSet(Names), IsFiniteSet(Extras), NEW work \in SUBSET Items
  PROVE  /\ IsFiniteSet(work) /\ Cardinality(work) \in Nat /\ Cardinality(Items) \in Nat
         /\ Cardinality(work) <= Cardinality(Items)
<1>1. IsFiniteSet(SUBSET Extras) BY FS_SUBSET
<1>2. IsFiniteSet(Items) BY <1>1, FS_Product DEF Items
<1>3. IsFiniteSet(work) /\ Cardinality(work) <= Cardinality(Items) BY <1>2, FS_Subset
<1> QED BY <1>2, <1>3, FS_CardinalityType

\* Every step of the walk leaves less to do.
LEMMA StepLeavesLess ==
  ASSUME IsFiniteSet(Names), IsFiniteSet(Extras), TypeOK, TypeOK', Next
  PROVE  StepsLeft' < StepsLeft
<1> DEFINE N == Cardinality(Items)
           u == Cardinality(Items \ seen)
           u1 == Cardinality(Items \ seen')
           q == Cardinality(queue)
           q1 == Cardinality(queue')
           w == IF pc = "walk" THEN 1 ELSE 0
           w1 == IF pc' = "walk" THEN 1 ELSE 0
<1>1. IsFiniteSet(queue) /\ IsFiniteSet(Items \ seen) /\ N \in Nat /\ u \in Nat /\ q \in Nat
  <2>1. queue \in SUBSET Items /\ Items \ seen \in SUBSET Items BY DEF TypeOK
  <2> QED BY <2>1, WorkIsFinite
<1>2. u1 \in Nat /\ q1 \in Nat /\ q1 <= N
  <2>1. queue' \in SUBSET Items /\ Items \ seen' \in SUBSET Items BY DEF TypeOK, Items
  <2> QED BY <2>1, WorkIsFinite
<1>3. StepsLeft = (N + 1) * u + q + w /\ StepsLeft' = (N + 1) * u1 + q1 + w1
  BY DEF StepsLeft, Items
<1>4. w \in 0..1 /\ w1 \in 0..1 OBVIOUS
<1>5. ASSUME NEW item \in Items, Visit(item) PROVE StepsLeft' < StepsLeft
  <2>1. item \notin seen /\ seen' = seen \cup {item} /\ w1 <= w BY <1>5 DEF Visit, Visited
  <2>2. Items \ seen' = (Items \ seen) \ {item} /\ item \in Items \ seen BY <2>1
  <2>3. u1 = u - 1 BY <1>1, <2>2, FS_RemoveElement
  <2> HIDE DEF N, u, u1, q, q1, w, w1
  <2>4. (N + 1) * u = (N + 1) * u1 + N + 1 BY <1>1, <1>2, <2>3
  <2>5. (N + 1) * u1 \in Nat BY <1>1, <1>2
  <2> QED BY <1>1, <1>2, <1>3, <1>4, <2>1, <2>4, <2>5
<1>6. ASSUME NEW item \in Items, Skip(item) PROVE StepsLeft' < StepsLeft
  <2>1. item \in queue /\ queue' = queue \ {item} /\ seen' = seen /\ pc' = pc BY <1>6 DEF Skip
  <2>2. q1 = q - 1 /\ u1 = u /\ w1 = w BY <1>1, <2>1, FS_RemoveElement
  <2> HIDE DEF N, u, u1, q, q1, w, w1
  <2>3. (N + 1) * u \in Nat BY <1>1
  <2> QED BY <1>1, <1>3, <1>4, <2>2, <2>3
<1>7. CASE Finish
  <2>1. q1 = q /\ u1 = u /\ w = 1 /\ w1 = 0 BY <1>7 DEF Finish
  <2> HIDE DEF N, u, u1, q, q1, w, w1
  <2>2. (N + 1) * u \in Nat BY <1>1
  <2> QED BY <1>1, <1>3, <2>1, <2>2
<1> QED BY <1>5, <1>6, <1>7 DEF Next

\* resolution.py: the loop over the work found ends, whatever cycles the lock has:
\* no step is a step in a circle, and their number is bounded from the start.
THEOREM WalkRunsOut ==
  ASSUME IsFiniteSet(Names), IsFiniteSet(Extras)
  PROVE  Spec => [](StepsLeft \in Nat) /\ [][StepsLeft' < StepsLeft]_vars
<1>1. TypeOK => StepsLeft \in Nat
  <2> SUFFICES ASSUME TypeOK PROVE StepsLeft \in Nat OBVIOUS
  <2> queue \in SUBSET Items /\ Items \ seen \in SUBSET Items BY DEF TypeOK
  <2>1. Cardinality(Items) \in Nat /\ Cardinality(queue) \in Nat /\ Cardinality(Items \ seen) \in Nat
    BY WorkIsFinite
  <2>2. (Cardinality(Items) + 1) * Cardinality(Items \ seen) \in Nat BY <2>1
  <2> QED BY <2>1, <2>2 DEF StepsLeft
<1>2. TypeOK /\ TypeOK' /\ [Next]_vars => [StepsLeft' < StepsLeft]_vars
  BY StepLeavesLess
<1> QED BY <1>1, <1>2, TypeCorrect, PTL DEF Spec
=============================================================================
