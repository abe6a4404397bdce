--------------------- MODULE MaterializationCacheProofs ---------------------
(***************************************************************************)
(* Proofs about MaterializationCache, for every number of processes and of *)
(* files, every bound and every order of faults.                           *)
(***************************************************************************)
EXTENDS MaterializationCache, FiniteSetTheorems, TLAPS

USE DEF Labels, FaultKinds, Hashed

LEMMA BuildTreeType == \A k \in Nat : BuildTree(k) \in Trees
BY DEF BuildTree, Trees, Contents

LEMMA SealTypes == Trees \subseteq Seals /\ NoSeal \in Seals /\ BadSeal \in Seals
BY DEF Seals

LEMMA DirTypes ==
  /\ AbsentDir \in Dirs
  /\ \A d \in Dirs : d.tree \in Trees /\ d.seal \in Seals /\ Sealed(d) \in Dirs
  /\ \A d \in Dirs, s \in Seals : [d EXCEPT !.seal = s] \in Dirs
  /\ \A t \in Trees : [exists |-> TRUE, tree |-> t, seal |-> NoSeal] \in Dirs
<1>1. NoTree \in Trees
  BY DEF NoTree, Trees, Contents
<1> QED
  BY <1>1, SealTypes DEF Dirs, AbsentDir, Sealed

LEMMA TreeUpdate ==
  ASSUME NEW d \in Dirs, NEW f \in Files, NEW c \in Contents
  PROVE  [d EXCEPT !.tree[f] = c] \in Dirs
<1>1. [d.tree EXCEPT ![f] = c] \in Trees
  BY DEF Dirs, Trees
<1> QED
  BY <1>1 DEF Dirs

LEMMA ReadUpdate ==
  ASSUME NEW r \in Reads, NEW f \in Files, NEW c \in Contents
  PROVE  [r EXCEPT !.tree[f] = c] \in Reads
<1>1. [r.tree EXCEPT ![f] = c] \in Trees
  BY DEF Reads, Trees
<1> QED
  BY <1>1 DEF Reads

LEMMA ReadTypes ==
  /\ \A s \in Seals : [tree |-> NoTree, seal |-> s] \in Reads
  /\ \A r \in Reads : r.tree \in Trees /\ r.seal \in Seals
BY DEF Reads, NoTree, Trees, Contents

LEMMA AnswerTypes == /\ NoAnswer \in Answers /\ Raised \in Answers
                     /\ \A t \in Trees : Path(t) \in Answers
BY DEF Answers, NoAnswer, Raised, Path, NoTree, Trees, Contents

LEMMA FileContents ==
  ASSUME NEW d \in Dirs, NEW f \in Files
  PROVE  d.tree[f] \in Contents
BY DEF Dirs, Trees

LEMMA GoneJunkType == Gone \in Contents /\ Junk \in Contents
BY DEF Contents

\* A call and a step of the code, with the process it belongs to named.
LEMMA NextCases ==
  ASSUME Next
  PROVE  \/ \E p \in Procs : \/ Call(p) \/ MakeRoot(p) \/ Probe(p)
                             \/ ReadSeal(p) \/ HashFile(p) \/ Judge(p) \/ ReadFault(p)
                             \/ Acquire(p) \/ Reprobe(p) \/ RemoveFile(p) \/ RemoveDir(p)
                             \/ Build(p) \/ WriteSeal(p) \/ Publish(p) \/ Unlock(p)
                             \/ Kill(p)
         \/ Tamper
BY DEF Next, Step, Verification, Removal

-----------------------------------------------------------------------------
(* Type correctness.                                                        *)

LEMMA TypeInit == Init => TypeOK
BY BoundsAssumption, DirTypes, AnswerTypes, ReadTypes, SealTypes DEF Init, TypeOK

LEMMA LeaveType ==
  ASSUME TypeOK, NEW p \in Procs, NEW r \in Answers, Leave(p, r)
  PROVE  /\ pc' \in [Procs -> Labels] /\ pc' = [pc EXCEPT ![p] = "idle"]
         /\ answer' \in [Procs -> Answers]
         /\ lock' \in Procs \cup {NoProc}
BY DEF TypeOK, Leave, Goto

LEMMA RejectType ==
  ASSUME TypeOK, NEW p \in Procs, Reject(p)
  PROVE  /\ \E l \in {"idle", "wait", "rmtree"} : pc' = [pc EXCEPT ![p] = l]
         /\ answer' \in [Procs -> Answers]
         /\ lock' \in Procs \cup {NoProc}
         /\ todo' \in [Procs -> SUBSET (Files \cup {SealFile})]
         /\ \A q \in Procs : q # p => todo'[q] = todo[q]
<1>1. CASE at[p] = "fast"
  BY <1>1 DEF TypeOK, Reject, Goto
<1>2. CASE at[p] = "locked"
  BY <1>2 DEF TypeOK, Reject, Goto
<1>3. CASE at[p] = "final"
  BY <1>3, LeaveType, AnswerTypes DEF TypeOK, Reject
<1> QED
  BY <1>1, <1>2, <1>3 DEF TypeOK

LEMMA TypeStep == TypeOK /\ [Next]_vars => TypeOK'
<1> SUFFICES ASSUME TypeOK, [Next]_vars PROVE TypeOK'
  OBVIOUS
<1>1. CASE UNCHANGED vars
  BY <1>1 DEF TypeOK, vars
<1>2. ASSUME NEW p \in Procs, Call(p) PROVE TypeOK'
  BY <1>2, AnswerTypes DEF TypeOK, Call, Goto
<1>3. ASSUME NEW p \in Procs, MakeRoot(p) PROVE TypeOK'
  BY <1>3, AnswerTypes DEF TypeOK, MakeRoot, Goto, Leave
<1>4. ASSUME NEW p \in Procs, Probe(p) PROVE TypeOK'
  BY <1>4 DEF TypeOK, Probe, Goto
<1>5. ASSUME NEW p \in Procs, ReadSeal(p) PROVE TypeOK'
  <2>1. UNCHANGED <<root, entry, at, staging, builds, published, calls, faults>>
    BY <1>5 DEF ReadSeal
  <2>2. CASE Reject(p) /\ UNCHANGED seen
    BY <2>1, <2>2, RejectType DEF TypeOK
  <2>3. CASE ~(Reject(p) /\ UNCHANGED seen)
    <3>1. [tree |-> NoTree, seal |-> entry.seal] \in Reads
      BY ReadTypes, DirTypes DEF TypeOK
    <3>2. /\ seen' = [seen EXCEPT ![p] = [tree |-> NoTree, seal |-> entry.seal]]
          /\ todo' = [todo EXCEPT ![p] = Files]
          /\ pc' = [pc EXCEPT ![p] = "walk"]
          /\ UNCHANGED <<answer, lock>>
      BY <1>5, <2>3 DEF ReadSeal, Goto
    <3> QED
      BY <2>1, <3>1, <3>2 DEF TypeOK
  <2> QED
    BY <2>2, <2>3
<1>6. ASSUME NEW p \in Procs, HashFile(p) PROVE TypeOK'
  <2>1. PICK f \in todo[p] : /\ seen' = [seen EXCEPT ![p].tree[f] = entry.tree[f]]
                             /\ todo' = [todo EXCEPT ![p] = @ \ {f}]
    BY <1>6 DEF HashFile
  <2>2. f \in Files
    BY <1>6, <2>1 DEF TypeOK, HashFile
  <2>3. seen' \in [Procs -> Reads]
    BY <2>1, <2>2, ReadUpdate, FileContents DEF TypeOK
  <2> QED
    BY <1>6, <2>1, <2>3 DEF TypeOK, HashFile
<1>7. ASSUME NEW p \in Procs, Judge(p) PROVE TypeOK'
  <2>1. CASE Reject(p)
    BY <1>7, <2>1, RejectType DEF TypeOK, Judge
  <2>2. CASE Leave(p, Path(seen[p].tree)) /\ UNCHANGED todo
    <3>1. Path(seen[p].tree) \in Answers
      BY ReadTypes, AnswerTypes DEF TypeOK
    <3> QED
      BY <1>7, <2>2, <3>1, LeaveType DEF TypeOK, Judge
  <2> QED
    BY <1>7, <2>1, <2>2 DEF Judge
<1>8. ASSUME NEW p \in Procs, ReadFault(p) PROVE TypeOK'
  BY <1>8, RejectType DEF TypeOK, ReadFault, Fault
<1>9. ASSUME NEW p \in Procs, Acquire(p) PROVE TypeOK'
  BY <1>9 DEF TypeOK, Acquire, Goto
<1>10. ASSUME NEW p \in Procs, Reprobe(p) PROVE TypeOK'
  BY <1>10 DEF TypeOK, Reprobe, Goto
<1>11. ASSUME NEW p \in Procs, RemoveFile(p) PROVE TypeOK'
  <2>1. \A f \in todo[p] : Without(entry, f) \in Dirs
    BY TreeUpdate, DirTypes, SealTypes, GoneJunkType DEF TypeOK, Without
  <2> QED
    BY <1>11, <2>1 DEF TypeOK, RemoveFile, Fault
<1>12. ASSUME NEW p \in Procs, RemoveDir(p) PROVE TypeOK'
  BY <1>12, DirTypes DEF TypeOK, RemoveDir, Goto
<1>13. ASSUME NEW p \in Procs, Build(p) PROVE TypeOK'
  <2>1. faults' \in [FaultKinds -> Nat]
    BY <1>13 DEF TypeOK, Build, Fault, FaultKinds
  <2> QED BY <1>13, <2>1, AnswerTypes, BuildTreeType, DirTypes DEF TypeOK, Build, Goto, Leave
<1>14. ASSUME NEW p \in Procs, WriteSeal(p) PROVE TypeOK'
  BY <1>14, DirTypes DEF TypeOK, WriteSeal, Goto
<1>15. ASSUME NEW p \in Procs, Publish(p) PROVE TypeOK'
  BY <1>15, DirTypes DEF TypeOK, Publish, Goto
<1>16. ASSUME NEW p \in Procs, Unlock(p) PROVE TypeOK'
  BY <1>16 DEF TypeOK, Unlock, Goto
<1>17. ASSUME NEW p \in Procs, Kill(p) PROVE TypeOK'
  BY <1>17, AnswerTypes, DirTypes DEF TypeOK, Kill, Goto, Leave, Fault
<1>18. CASE Tamper
  <2>1. entry' \in Dirs
    BY <1>18, TreeUpdate, DirTypes, SealTypes, GoneJunkType DEF TypeOK, Tamper
  <2> QED
    BY <1>18, <2>1 DEF TypeOK, Tamper, Fault
<1> QED
  BY <1>1, <1>2, <1>3, <1>4, <1>5, <1>6, <1>7, <1>8, <1>9, <1>10, <1>11, <1>12,
     <1>13, <1>14, <1>15, <1>16, <1>17, <1>18, NextCases

\* Every variable keeps its type.
THEOREM TypeCorrect == Spec => []TypeOK
BY TypeInit, TypeStep, PTL DEF Spec

-----------------------------------------------------------------------------
(* The lock: the code between acquire and release belongs to its holder.    *)

LEMMA LockStep == TypeOK /\ LockInv /\ [Next]_vars => LockInv'
<1> SUFFICES ASSUME TypeOK, LockInv, [Next]_vars PROVE LockInv'
  OBVIOUS
<1>1. CASE UNCHANGED vars
  BY <1>1 DEF TypeOK, LockInv, Locked, vars
<1>2. ASSUME NEW p \in Procs, Call(p) PROVE LockInv'
  BY <1>2, ProcsAssumption
     DEF TypeOK, LockInv, Locked, Call, Goto
<1>3. ASSUME NEW p \in Procs, MakeRoot(p) PROVE LockInv'
  BY <1>3, ProcsAssumption
     DEF TypeOK, LockInv, Locked, MakeRoot, Goto, Leave, Raised
<1>4. ASSUME NEW p \in Procs, Probe(p) PROVE LockInv'
  BY <1>4, ProcsAssumption
     DEF TypeOK, LockInv, Locked, Probe, Goto
<1>5. ASSUME NEW p \in Procs, ReadSeal(p) PROVE LockInv'
  BY <1>5, ProcsAssumption
     DEF TypeOK, LockInv, Locked, ReadSeal, Goto, Reject, Leave, Raised
<1>6. ASSUME NEW p \in Procs, HashFile(p) PROVE LockInv'
  BY <1>6, ProcsAssumption
     DEF TypeOK, LockInv, Locked, HashFile
<1>7. ASSUME NEW p \in Procs, Judge(p) PROVE LockInv'
  BY <1>7, ProcsAssumption
     DEF TypeOK, LockInv, Locked, Judge, Goto, Reject, Leave, Raised, Path, DigestMatches
<1>8. ASSUME NEW p \in Procs, ReadFault(p) PROVE LockInv'
  BY <1>8, ProcsAssumption
     DEF TypeOK, LockInv, Locked, ReadFault, Goto, Reject, Leave, Raised, Fault
<1>9. ASSUME NEW p \in Procs, Acquire(p) PROVE LockInv'
  BY <1>9, ProcsAssumption
     DEF TypeOK, LockInv, Locked, Acquire, Goto, LockFree
<1>10. ASSUME NEW p \in Procs, Reprobe(p) PROVE LockInv'
  BY <1>10, ProcsAssumption
     DEF TypeOK, LockInv, Locked, Reprobe, Goto
<1>11. ASSUME NEW p \in Procs, RemoveFile(p) PROVE LockInv'
  BY <1>11, ProcsAssumption
     DEF TypeOK, LockInv, Locked, RemoveFile, Without, Fault
<1>12. ASSUME NEW p \in Procs, RemoveDir(p) PROVE LockInv'
  BY <1>12, ProcsAssumption
     DEF TypeOK, LockInv, Locked, RemoveDir, Goto
<1>13. ASSUME NEW p \in Procs, Build(p) PROVE LockInv'
  BY <1>13, ProcsAssumption
     DEF TypeOK, LockInv, Locked, Build, Goto, Leave, Raised, Fault
<1>14. ASSUME NEW p \in Procs, WriteSeal(p) PROVE LockInv'
  BY <1>14, ProcsAssumption
     DEF TypeOK, LockInv, Locked, WriteSeal, Goto, Sealed
<1>15. ASSUME NEW p \in Procs, Publish(p) PROVE LockInv'
  BY <1>15, ProcsAssumption
     DEF TypeOK, LockInv, Locked, Publish, Goto
<1>16. ASSUME NEW p \in Procs, Unlock(p) PROVE LockInv'
  BY <1>16, ProcsAssumption
     DEF TypeOK, LockInv, Locked, Unlock, Goto
<1>17. ASSUME NEW p \in Procs, Kill(p) PROVE LockInv'
  BY <1>17, ProcsAssumption
     DEF TypeOK, LockInv, Locked, Kill, Goto, Leave, NoAnswer, Fault
<1>18. CASE Tamper
  BY <1>18, ProcsAssumption
     DEF TypeOK, LockInv, Locked, Tamper, Fault
<1> QED
  BY <1>1, <1>2, <1>3, <1>4, <1>5, <1>6, <1>7, <1>8, <1>9,
     <1>10, <1>11, <1>12, <1>13, <1>14, <1>15, <1>16, <1>17, <1>18, NextCases

LEMMA LockInit == Init => LockInv
BY DEF Init, LockInv, Locked

\* At most one process is between acquiring the flock and releasing it.
THEOREM OneMaterializerHolds == Spec => []OneMaterializer
<1>1. LockInv => OneMaterializer
  BY DEF LockInv, OneMaterializer
<1> QED
  BY <1>1, LockInit, LockStep, TypeCorrect, PTL DEF Spec

-----------------------------------------------------------------------------
(* Where every seal and every answer comes from.                            *)

LEMMA SealInit == Init => SealInv
BY DEF Init, SealInv, AbsentDir, NoAnswer

LEMMA SealStep == TypeOK /\ SealInv /\ [Next]_vars => SealInv'
<1> SUFFICES ASSUME TypeOK, SealInv, [Next]_vars PROVE SealInv'
  OBVIOUS
<1>1. CASE UNCHANGED vars
  BY <1>1 DEF TypeOK, SealInv, AbsentDir, vars
<1>2. ASSUME NEW p \in Procs, Call(p) PROVE SealInv'
  BY <1>2
     DEF TypeOK, SealInv, Call, Goto, NoAnswer, Raised
<1>3. ASSUME NEW p \in Procs, MakeRoot(p) PROVE SealInv'
  BY <1>3
     DEF TypeOK, SealInv, MakeRoot, Goto, Leave, Raised
<1>4. ASSUME NEW p \in Procs, Probe(p) PROVE SealInv'
  BY <1>4
     DEF TypeOK, SealInv, Probe, Goto
<1>5. ASSUME NEW p \in Procs, ReadSeal(p) PROVE SealInv'
  BY <1>5
     DEF TypeOK, SealInv, ReadSeal, Goto, Reject, Leave, Raised
<1>6. ASSUME NEW p \in Procs, HashFile(p) PROVE SealInv'
  <2>1. PICK f \in todo[p] : seen' = [seen EXCEPT ![p].tree[f] = entry.tree[f]]
    BY <1>6 DEF HashFile
  <2>2. \A q \in Procs : seen'[q].seal = seen[q].seal
    BY <2>1 DEF TypeOK, Reads
  <2> QED
    BY <1>6, <2>2 DEF SealInv, HashFile
<1>7. ASSUME NEW p \in Procs, Judge(p) PROVE SealInv'
  BY <1>7
     DEF TypeOK, SealInv, Judge, Goto, Reject, Leave, Raised, Path, DigestMatches
<1>8. ASSUME NEW p \in Procs, ReadFault(p) PROVE SealInv'
  BY <1>8
     DEF TypeOK, SealInv, ReadFault, Goto, Reject, Leave, Raised, Fault
<1>9. ASSUME NEW p \in Procs, Acquire(p) PROVE SealInv'
  BY <1>9
     DEF TypeOK, SealInv, Acquire, Goto, LockFree
<1>10. ASSUME NEW p \in Procs, Reprobe(p) PROVE SealInv'
  BY <1>10
     DEF TypeOK, SealInv, Reprobe, Goto
<1>11. ASSUME NEW p \in Procs, RemoveFile(p) PROVE SealInv'
  <2>1. entry'.seal \in {entry.seal, NoSeal}
    BY <1>11 DEF TypeOK, RemoveFile, Without, Dirs
  <2> QED
    BY <1>11, <2>1 DEF TypeOK, SealInv, RemoveFile
<1>12. ASSUME NEW p \in Procs, RemoveDir(p) PROVE SealInv'
  BY <1>12
     DEF TypeOK, SealInv, AbsentDir, RemoveDir, Goto
<1>13. ASSUME NEW p \in Procs, Build(p) PROVE SealInv'
  <2>1. builds + 1 \in 1..MaxBuilds
    BY <1>13, BoundsAssumption DEF TypeOK, Build
  <2>2. BuildTree(builds + 1) \in BuiltTrees
    BY <2>1 DEF BuiltTrees
  <2> QED
    BY <1>13, <2>2 DEF TypeOK, SealInv, Build, Goto, Leave, Raised, Fault
<1>14. ASSUME NEW p \in Procs, WriteSeal(p) PROVE SealInv'
  BY <1>14
     DEF TypeOK, SealInv, AbsentDir, WriteSeal, Goto, Sealed
<1>15. ASSUME NEW p \in Procs, Publish(p) PROVE SealInv'
  BY <1>15
     DEF TypeOK, SealInv, AbsentDir, Publish, Goto
<1>16. ASSUME NEW p \in Procs, Unlock(p) PROVE SealInv'
  BY <1>16
     DEF TypeOK, SealInv, Unlock, Goto
<1>17. ASSUME NEW p \in Procs, Kill(p) PROVE SealInv'
  BY <1>17
     DEF TypeOK, SealInv, Kill, Goto, Leave, NoAnswer, Fault
<1>18. CASE Tamper
  <2>1. entry'.seal \in {entry.seal, NoSeal, BadSeal}
    BY <1>18 DEF TypeOK, Tamper, Dirs, AbsentDir
  <2> QED
    BY <1>18, <2>1 DEF TypeOK, SealInv, Tamper
<1> QED
  BY <1>1, <1>2, <1>3, <1>4, <1>5, <1>6, <1>7, <1>8, <1>9,
     <1>10, <1>11, <1>12, <1>13, <1>14, <1>15, <1>16, <1>17, <1>18, NextCases

\* A path is only returned for a tree that was published under its seal.
THEOREM AnswersWerePublishedHolds == Spec => []AnswersWerePublished
<1>1. SealInv => AnswersWerePublished
  BY DEF SealInv, AnswersWerePublished
<1> QED
  BY <1>1, SealInit, SealStep, TypeCorrect, PTL DEF Spec

-----------------------------------------------------------------------------
(* A removal and a tampering leave nothing a verification would accept.     *)

LEMMA BuiltTreesType == /\ BuiltTrees \subseteq Trees
                        /\ \A t \in BuiltTrees, f \in Files : t[f] \in Nat
<1>1. 1..MaxBuilds \subseteq Nat
  BY BoundsAssumption
<1> QED
  BY <1>1, BuildTreeType DEF BuiltTrees, BuildTree

LEMMA RemovalSpoils ==
  ASSUME NEW d \in Dirs, NEW f \in Files \cup {SealFile}
  PROVE  ~Good(Without(d, f))
<1>1. CASE f = SealFile
  BY <1>1, SealAssumption, BuiltTreesType DEF Good, Without, Dirs
<1>2. CASE f \in Files /\ f # SealFile
  <2>1. Without(d, f).tree[f] = Gone
    BY <1>2 DEF Without, Dirs, Trees
  <2> QED
    BY <1>2, <2>1, BuiltTreesType, ContentAssumption DEF Good
<1> QED
  BY <1>1, <1>2

LEMMA TamperSpoils == TypeOK /\ Tamper => ~Good(entry)'
<1> SUFFICES ASSUME TypeOK, Tamper PROVE ~Good(entry)'
  OBVIOUS
<1>1. ASSUME NEW f \in Files, NEW c \in {Junk, Gone}, entry' = [entry EXCEPT !.tree[f] = c]
      PROVE  ~Good(entry)'
  <2>1. entry'.tree[f] = c
    BY <1>1 DEF TypeOK, Dirs, Trees
  <2> QED
    BY <2>1, BuiltTreesType, ContentAssumption DEF Good
<1>2. ASSUME NEW s \in {NoSeal, BadSeal}, entry' = [entry EXCEPT !.seal = s]
      PROVE  ~Good(entry)'
  <2>1. entry'.seal = s /\ entry'.tree = entry.tree
    BY <1>2 DEF TypeOK, Dirs
  <2> QED
    BY <2>1, BuiltTreesType, SealAssumption DEF Good
<1>3. ASSUME entry' = AbsentDir PROVE ~Good(entry)'
  BY <1>3 DEF Good, AbsentDir
<1> QED
  BY <1>1, <1>2, <1>3 DEF Tamper

\* A finished walk that agrees with a good entry matches its seal.
LEMMA AgreesMatches ==
  ASSUME TypeOK, NEW p \in Procs, todo[p] = {}, Agrees(p), Good(entry)
  PROVE  DigestMatches(p)
<1>1. seen[p].tree \in Trees /\ entry.tree \in Trees
  BY ReadTypes, DirTypes DEF TypeOK
<1>2. \A f \in Files : seen[p].tree[f] = entry.tree[f]
  BY DEF Agrees
<1>3. seen[p].tree = entry.tree
  BY <1>1, <1>2 DEF Trees
<1> QED
  BY <1>3 DEF Agrees, Good, DigestMatches

-----------------------------------------------------------------------------
(* What a verification under the lock knows.                                *)

LEMMA LookInit == Init => LookInv
BY DEF Init, LookInv

LEMMA LookStep == TypeOK /\ LockInv /\ SealInv /\ LookInv /\ [Next]_vars => LookInv'
<1> SUFFICES ASSUME TypeOK, LockInv, SealInv, LookInv, [Next]_vars PROVE LookInv'
  OBVIOUS
<1>1. CASE UNCHANGED vars
  BY <1>1 DEF LookInv, Good, Agrees, vars
<1>2. ASSUME NEW p \in Procs, Call(p) PROVE LookInv'
  BY <1>2 DEF TypeOK, LookInv, Good, Agrees, Call, Goto, NoAnswer, Raised
<1>3. ASSUME NEW p \in Procs, MakeRoot(p) PROVE LookInv'
  BY <1>3 DEF TypeOK, LookInv, Good, Agrees, MakeRoot, Goto, Leave, Raised
<1>4. ASSUME NEW p \in Procs, Probe(p) PROVE LookInv'
  BY <1>4 DEF TypeOK, LookInv, Good, Agrees, Probe, Goto
<1>5. ASSUME NEW p \in Procs, ReadSeal(p) PROVE LookInv'
  <2>1. UNCHANGED <<entry, at, faults>>
    BY <1>5 DEF ReadSeal
  <2>2. \A q \in Procs : q # p => UNCHANGED <<pc[q], seen[q], todo[q]>>
    BY <1>5 DEF TypeOK, ReadSeal, Reject, Leave, Goto
  <2>3. \A q \in Procs : q # p => (Agrees(q) => Agrees(q)')
    BY <2>1, <2>2 DEF Agrees
  <2>4. CASE entry.seal \in {NoSeal, BadSeal}
    <3>1. ~Good(entry)
      BY <2>4, SealAssumption, BuiltTreesType DEF Good
    <3> QED
      BY <1>5, <2>1, <2>2, <3>1, <2>4 DEF LookInv, Good
  <2>5. CASE entry.seal \notin {NoSeal, BadSeal}
    <3>1. pc'[p] = "walk" /\ Agrees(p)'
      BY <1>5, <2>5 DEF TypeOK, ReadSeal, Goto, Agrees, Reads
    <3> QED
      BY <2>1, <2>2, <2>3, <3>1 DEF LookInv, Good
  <2> QED
    BY <2>4, <2>5
<1>6. ASSUME NEW p \in Procs, HashFile(p) PROVE LookInv'
  <2>1. PICK f \in todo[p] : /\ seen' = [seen EXCEPT ![p].tree[f] = entry.tree[f]]
                             /\ todo' = [todo EXCEPT ![p] = todo[p] \ {f}]
    BY <1>6 DEF HashFile
  <2>2. UNCHANGED <<entry, pc, at, faults>>
    BY <1>6 DEF HashFile
  <2>3. Agrees(p) => Agrees(p)'
    BY <2>1, <2>2 DEF TypeOK, Agrees, Reads, Trees
  <2>4. \A q \in Procs : q # p => (Agrees(q) => Agrees(q)')
    BY <2>1, <2>2 DEF TypeOK, Agrees
  <2> QED
    BY <2>2, <2>3, <2>4 DEF LookInv, Good
<1>7. ASSUME NEW p \in Procs, Judge(p) PROVE LookInv'
  <2>1. UNCHANGED <<entry, at, seen, faults>>
    BY <1>7 DEF Judge
  <2>2. \A q \in Procs : q # p => UNCHANGED <<pc[q], todo[q]>>
    BY <1>7 DEF TypeOK, Judge, Reject, Leave, Goto
  <2>3. \A q \in Procs : q # p => (Agrees(q) => Agrees(q)')
    BY <2>1, <2>2 DEF Agrees
  <2>4. pc'[p] \in {"idle", "wait", "rmtree"}
    BY <1>7 DEF TypeOK, Judge, Reject, Leave, Goto
  <2>5. pc'[p] = "rmtree" => ~Good(entry)
    <3> SUFFICES ASSUME pc'[p] = "rmtree", Good(entry) PROVE FALSE
      OBVIOUS
    <3>1. at[p] = "locked" /\ ~DigestMatches(p)
      BY <1>7 DEF TypeOK, Judge, Reject, Leave, Goto
    <3>2. pc[p] = "walk" /\ todo[p] = {} /\ Agrees(p)
      BY <1>7, <3>1 DEF Judge, LookInv
    <3> QED
      BY <3>1, <3>2, AgreesMatches
  <2> QED
    BY <2>1, <2>2, <2>3, <2>4, <2>5 DEF LookInv, Good
<1>8. ASSUME NEW p \in Procs, ReadFault(p) PROVE LookInv'
  <2>1. UNCHANGED <<entry, at, seen>> /\ faults'["read"] # 0
    BY <1>8 DEF TypeOK, ReadFault, Fault
  <2>2. \A q \in Procs : q # p => UNCHANGED <<pc[q], todo[q]>>
    BY <1>8 DEF TypeOK, ReadFault, Reject, Leave, Goto
  <2>3. \A q \in Procs : q # p => (Agrees(q) => Agrees(q)')
    BY <2>1, <2>2 DEF Agrees
  <2>4. pc'[p] # "walk"
    BY <1>8 DEF TypeOK, ReadFault, Reject, Leave, Goto
  <2> QED
    BY <2>1, <2>2, <2>3, <2>4 DEF LookInv, Good
<1>9. ASSUME NEW p \in Procs, Acquire(p) PROVE LookInv'
  BY <1>9 DEF TypeOK, LookInv, Good, Agrees, Acquire, Goto, LockFree
<1>10. ASSUME NEW p \in Procs, Reprobe(p) PROVE LookInv'
  BY <1>10 DEF TypeOK, LookInv, Good, Agrees, Reprobe, Goto
<1>11. ASSUME NEW p \in Procs, RemoveFile(p) PROVE LookInv'
  <2>1. pc[p] = "rmtree" /\ lock = p /\ UNCHANGED <<pc, at>> /\ faults'["read"] = faults["read"]
    BY <1>11 DEF TypeOK, LockInv, Locked, RemoveFile, Fault
  <2>2. \A q \in Procs : Locked(q) => q = p
    BY <2>1 DEF LockInv
  <2>3. faults["read"] = 0 => ~Good(entry)'
    <3>1. CASE UNCHANGED entry
      BY <2>1, <3>1 DEF LookInv, Good
    <3>2. CASE \E f \in todo[p] : entry' = Without(entry, f)
      BY <3>2, RemovalSpoils DEF TypeOK
    <3> QED
      BY <1>11, <3>1, <3>2 DEF RemoveFile
  <2> QED
    BY <2>1, <2>2, <2>3 DEF LookInv, Locked
<1>12. ASSUME NEW p \in Procs, RemoveDir(p) PROVE LookInv'
  <2>1. pc[p] = "rmtree" /\ pc' = [pc EXCEPT ![p] = "build"] /\ UNCHANGED <<at, faults>>
    BY <1>12 DEF RemoveDir, Goto
  <2>2. \A q \in Procs : Locked(q) => q = p
    BY <2>1 DEF LockInv, Locked
  <2>3. faults["read"] = 0 => ~Good(entry)'
    BY <1>12, <2>1 DEF LookInv, RemoveDir, Good, AbsentDir
  <2> QED
    BY <2>1, <2>2, <2>3 DEF TypeOK, LookInv, Locked
<1>13. ASSUME NEW p \in Procs, Build(p) PROVE LookInv'
  BY <1>13 DEF TypeOK, LookInv, Good, Agrees, Build, Goto, Leave, Raised, Fault
<1>14. ASSUME NEW p \in Procs, WriteSeal(p) PROVE LookInv'
  BY <1>14 DEF TypeOK, LookInv, Good, Agrees, WriteSeal, Goto, Sealed
<1>15. ASSUME NEW p \in Procs, Publish(p) PROVE LookInv'
  <2>1. pc[p] = "publish" /\ pc' = [pc EXCEPT ![p] = "unlock"] /\ UNCHANGED at
    BY <1>15 DEF Publish, Goto
  <2>2. \A q \in Procs : Locked(q) => q = p
    BY <2>1 DEF LockInv, Locked
  <2> QED
    BY <2>1, <2>2 DEF TypeOK, LookInv, Locked
<1>16. ASSUME NEW p \in Procs, Unlock(p) PROVE LookInv'
  BY <1>16 DEF TypeOK, LookInv, Good, Agrees, Unlock, Goto
<1>17. ASSUME NEW p \in Procs, Kill(p) PROVE LookInv'
  BY <1>17 DEF TypeOK, LookInv, Good, Agrees, Kill, Goto, Leave, NoAnswer, Fault
<1>18. CASE Tamper
  <2>1. ~Good(entry)'
    BY <1>18, TamperSpoils
  <2> QED
    BY <1>18, <2>1 DEF LookInv, Tamper
<1> QED
  BY <1>1, <1>2, <1>3, <1>4, <1>5, <1>6, <1>7, <1>8, <1>9,
     <1>10, <1>11, <1>12, <1>13, <1>14, <1>15, <1>16, <1>17, <1>18, NextCases

\* A good entry is never deleted or replaced behind a caller's back.
THEOREM GoodEntryStaysHolds == Spec => GoodEntryStays
<1>1. TypeOK /\ LookInv /\ [Next]_vars
        => [Good(entry) /\ faults["read"] = 0 /\ faults'["tamper"] = faults["tamper"]
              => entry' = entry]_vars
  <2> SUFFICES ASSUME TypeOK, LookInv, Next, Good(entry), faults["read"] = 0,
                      faults'["tamper"] = faults["tamper"]
               PROVE  entry' = entry
    BY DEF vars
  <2>1. \A p \in Procs : pc[p] \notin {"rmtree", "publish"}
    BY DEF LookInv
  <2>2. ~Tamper
    BY DEF TypeOK, Tamper, Fault
  <2> QED
    BY <2>1, <2>2, NextCases DEF Call, MakeRoot, Probe, ReadSeal, HashFile, Judge, ReadFault,
       Acquire, Reprobe, RemoveFile, RemoveDir, Build, WriteSeal, Publish, Unlock, Kill
<1> QED
  BY <1>1, TypeCorrect, TypeInit, LookInit, LookStep, SealInit, SealStep, LockInit, LockStep, PTL
     DEF Spec, GoodEntryStays

-----------------------------------------------------------------------------
(* While nobody disturbs the entry.                                         *)

LEMMA CalmInit == Init => CalmInv
BY DEF Init, CalmInv, NoAnswer

LEMMA CalmStep == TypeOK /\ LockInv /\ SealInv /\ CalmInv /\ [Next]_vars => CalmInv'
<1> SUFFICES ASSUME TypeOK, LockInv, SealInv, CalmInv, [Next]_vars PROVE CalmInv'
  OBVIOUS
<1>1. CASE UNCHANGED vars
  BY <1>1 DEF CalmInv, Undisturbed, Good, Agrees, vars
<1>2. ASSUME NEW p \in Procs, Call(p) PROVE CalmInv'
  BY <1>2 DEF TypeOK, CalmInv, Undisturbed, Good, Agrees, Call, Goto, NoAnswer, Raised
<1>3. ASSUME NEW p \in Procs, MakeRoot(p) PROVE CalmInv'
  BY <1>3 DEF TypeOK, CalmInv, Undisturbed, Good, Agrees, MakeRoot, Goto, Leave, Raised
<1>4. ASSUME NEW p \in Procs, Probe(p) PROVE CalmInv'
  BY <1>4 DEF TypeOK, CalmInv, Undisturbed, Good, Agrees, Probe, Goto, AbsentDir
<1>5. ASSUME NEW p \in Procs, ReadSeal(p) PROVE CalmInv'
  <2> SUFFICES ASSUME Undisturbed' PROVE CalmInv'
    BY DEF CalmInv
  <2>1. UNCHANGED <<entry, published, faults>> /\ Undisturbed
    BY <1>5 DEF ReadSeal, Undisturbed
  <2>2. \A q \in Procs : q # p => UNCHANGED <<pc[q], seen[q], todo[q], answer[q]>>
    BY <1>5 DEF TypeOK, ReadSeal, Reject, Leave, Goto
  <2>3. entry.seal \notin {NoSeal, BadSeal} /\ Good(entry)
    BY <1>5, <2>1, SealAssumption, BuiltTreesType DEF CalmInv, ReadSeal, Good
  <2>4. pc'[p] = "walk" /\ Agrees(p)' /\ UNCHANGED answer
    BY <1>5, <2>3 DEF TypeOK, ReadSeal, Goto, Agrees, Reads
  <2> QED
    BY <2>1, <2>2, <2>3, <2>4 DEF CalmInv, Good, Agrees
<1>6. ASSUME NEW p \in Procs, HashFile(p) PROVE CalmInv'
  <2> SUFFICES ASSUME Undisturbed' PROVE CalmInv'
    BY DEF CalmInv
  <2>1. PICK f \in todo[p] : /\ seen' = [seen EXCEPT ![p].tree[f] = entry.tree[f]]
                             /\ todo' = [todo EXCEPT ![p] = todo[p] \ {f}]
    BY <1>6 DEF HashFile
  <2>2. UNCHANGED <<entry, pc, published, answer, faults>> /\ Undisturbed
    BY <1>6 DEF HashFile, Undisturbed
  <2>3. Agrees(p) => Agrees(p)'
    BY <2>1, <2>2 DEF TypeOK, Agrees, Reads, Trees
  <2>4. \A q \in Procs : q # p => (Agrees(q) => Agrees(q)')
    BY <2>1, <2>2 DEF TypeOK, Agrees
  <2> QED
    BY <2>2, <2>3, <2>4 DEF CalmInv, Good
<1>7. ASSUME NEW p \in Procs, Judge(p) PROVE CalmInv'
  <2> SUFFICES ASSUME Undisturbed' PROVE CalmInv'
    BY DEF CalmInv
  <2>1. UNCHANGED <<entry, seen, published, faults>> /\ Undisturbed
    BY <1>7 DEF Judge, Undisturbed
  <2>2. Good(entry) /\ Agrees(p) /\ DigestMatches(p)
    BY <1>7, <2>1, AgreesMatches DEF CalmInv, Judge
  <2>3. /\ pc' = [pc EXCEPT ![p] = "idle"] /\ UNCHANGED todo
        /\ answer' = [answer EXCEPT ![p] = Path(seen[p].tree)]
    BY <1>7, <2>2 DEF Judge, Leave, Goto
  <2>4. seen[p].tree = entry.tree
    BY <2>2 DEF Agrees, Good, DigestMatches
  <2> QED
    BY <2>1, <2>2, <2>3, <2>4 DEF TypeOK, CalmInv, Good, Agrees, Path
<1>8. ASSUME NEW p \in Procs, ReadFault(p) PROVE CalmInv'
  <2>1. faults'["read"] # 0
    BY <1>8 DEF TypeOK, ReadFault, Fault
  <2> QED
    BY <2>1 DEF CalmInv, Undisturbed
<1>9. ASSUME NEW p \in Procs, Acquire(p) PROVE CalmInv'
  BY <1>9 DEF TypeOK, CalmInv, Undisturbed, Good, Agrees, Acquire, Goto, LockFree
<1>10. ASSUME NEW p \in Procs, Reprobe(p) PROVE CalmInv'
  BY <1>10 DEF TypeOK, CalmInv, Undisturbed, Good, Agrees, Reprobe, Goto, AbsentDir
<1>11. ASSUME NEW p \in Procs, RemoveFile(p) PROVE CalmInv'
  <2> SUFFICES ASSUME Undisturbed' PROVE CalmInv'
    BY DEF CalmInv
  <2>1. Undisturbed /\ pc[p] = "rmtree"
    BY <1>11 DEF TypeOK, Undisturbed, Fault, RemoveFile
  <2> QED
    BY <2>1 DEF CalmInv
<1>12. ASSUME NEW p \in Procs, RemoveDir(p) PROVE CalmInv'
  <2> SUFFICES ASSUME Undisturbed' PROVE CalmInv'
    BY DEF CalmInv
  <2>1. Undisturbed /\ pc[p] = "rmtree"
    BY <1>12 DEF TypeOK, Undisturbed, Fault, RemoveDir
  <2> QED
    BY <2>1 DEF CalmInv
<1>13. ASSUME NEW p \in Procs, Build(p) PROVE CalmInv'
  BY <1>13 DEF TypeOK, CalmInv, Undisturbed, Good, Agrees, Build, Goto, Leave, Raised, Fault
<1>14. ASSUME NEW p \in Procs, WriteSeal(p) PROVE CalmInv'
  BY <1>14 DEF TypeOK, CalmInv, Undisturbed, Good, Agrees, WriteSeal, Goto, Sealed
<1>15. ASSUME NEW p \in Procs, Publish(p) PROVE CalmInv'
  <2> SUFFICES ASSUME Undisturbed' PROVE CalmInv'
    BY DEF CalmInv
  <2>1. Undisturbed /\ pc[p] = "publish" /\ UNCHANGED <<seen, todo, answer>>
    BY <1>15 DEF Publish, Undisturbed
  <2>2. pc' = [pc EXCEPT ![p] = "unlock"]
    BY <1>15 DEF Publish, Goto
  <2>3. entry = AbsentDir /\ ~Good(entry)
    BY <2>1 DEF CalmInv, Good, AbsentDir
  <2>4. \A q \in Procs : pc[q] \notin {"read_seal", "walk", "unlock"} /\ answer[q].kind # "path"
    BY <2>1, <2>3 DEF CalmInv
  <2>5. entry' = staging[p]
    BY <1>15, <2>3 DEF Publish
  <2>6. Good(entry)'
    BY <2>1, <2>5 DEF SealInv, Good
  <2>7. \A q \in Procs : Locked(q) => q = p
    BY <2>1 DEF LockInv, Locked
  <2> QED
    BY <2>1, <2>2, <2>4, <2>6, <2>7 DEF TypeOK, CalmInv, Locked
<1>16. ASSUME NEW p \in Procs, Unlock(p) PROVE CalmInv'
  BY <1>16 DEF TypeOK, CalmInv, Undisturbed, Good, Agrees, Unlock, Goto
<1>17. ASSUME NEW p \in Procs, Kill(p) PROVE CalmInv'
  BY <1>17 DEF TypeOK, CalmInv, Undisturbed, Good, Agrees, Kill, Goto, Leave, NoAnswer, Fault
<1>18. CASE Tamper
  <2>1. faults'["tamper"] # 0
    BY <1>18 DEF TypeOK, Tamper, Fault
  <2> QED
    BY <2>1 DEF CalmInv, Undisturbed
<1> QED
  BY <1>1, <1>2, <1>3, <1>4, <1>5, <1>6, <1>7, <1>8, <1>9,
     <1>10, <1>11, <1>12, <1>13, <1>14, <1>15, <1>16, <1>17, <1>18, NextCases

LEMMA InductiveHolds == Spec => [](TypeOK /\ Inductive)
<1>1. Init => TypeOK /\ Inductive
  BY TypeInit, LockInit, SealInit, LookInit, CalmInit DEF Inductive
<1>2. TypeOK /\ Inductive /\ [Next]_vars => TypeOK' /\ Inductive'
  BY TypeStep, LockStep, SealStep, LookStep, CalmStep DEF Inductive
<1> QED
  BY <1>1, <1>2, PTL DEF Spec

\* What the digest names is absent or whole, wherever a process is killed.
THEOREM PublishedWholeHolds == Spec => []PublishedWhole
<1>1. Inductive => PublishedWhole
  BY DEF Inductive, CalmInv, PublishedWhole
<1> QED
  BY <1>1, InductiveHolds, PTL

\* All callers are answered with the one tree that is there.
THEOREM AnswersAgreeHolds == Spec => []AnswersAgree
<1>1. Inductive => AnswersAgree
  BY DEF Inductive, CalmInv, AnswersAgree, Good
<1> QED
  BY <1>1, InductiveHolds, PTL

-----------------------------------------------------------------------------
(* The cache implements the store of SealedStore.                           *)

\* An answer that changes nothing else is the store handing a tree, or none.
LEMMA AnswerHands ==
  ASSUME TypeOK, NEW p \in Procs, NEW r \in Answers,
         answer' = [answer EXCEPT ![p] = r],
         r.kind = "path" => r.tree \in published
  PROVE  \E T \in {{}} \cup {{t} : t \in published} : Handed' = [Handed EXCEPT ![p] = T]
<1> DEFINE T == IF r.kind = "path" THEN {r.tree} ELSE {}
<1>1. T \in {{}} \cup {{t} : t \in published}
  OBVIOUS
<1>2. Handed' = [Handed EXCEPT ![p] = T]
  BY DEF TypeOK, Handed
<1> QED
  BY <1>1, <1>2

LEMMA StoreInitial == Init => Store!StoreInit
BY DEF Init, Store!StoreInit, Undisturbed, NoAnswer, Handed

LEMMA StoreStep ==
  TypeOK /\ Inductive /\ [Next]_vars => [Store!StoreNext]_(Store!storeVars)
<1> SUFFICES ASSUME TypeOK, Inductive, [Next]_vars
             PROVE  Store!StoreNext \/ UNCHANGED <<published, Undisturbed, Handed>>
  BY DEF Store!storeVars
<1> DEFINE Handing(p) == /\ UNCHANGED <<published, faults>>
                         /\ \E r \in Answers : /\ answer' = [answer EXCEPT ![p] = r]
                                               /\ r.kind = "path" => r.tree \in published
<1>1. ASSUME NEW p \in Procs, Handing(p) PROVE Store!StoreNext
  BY <1>1, AnswerHands DEF Store!StoreNext, Store!Hand, Undisturbed
<1>2. ASSUME UNCHANGED <<published, faults, answer>>
      PROVE  UNCHANGED <<published, Undisturbed, Handed>>
  BY <1>2 DEF Undisturbed, Handed
<1>3. CASE UNCHANGED vars
  BY <1>2, <1>3 DEF vars
<1>4. ASSUME NEW p \in Procs, Call(p) \/ MakeRoot(p) \/ ReadSeal(p)
      PROVE  Handing(p) \/ UNCHANGED <<published, faults, answer>>
  BY <1>4, AnswerTypes DEF Call, MakeRoot, ReadSeal, Reject, Leave, NoAnswer, Raised
<1>5. ASSUME NEW p \in Procs, Judge(p)
      PROVE  Handing(p) \/ UNCHANGED <<published, faults, answer>>
  <2>1. UNCHANGED <<published, faults>> /\ seen[p].seal \in published
    BY <1>5 DEF Judge, Inductive, SealInv
  <2>2. Path(seen[p].tree) \in Answers /\ Path(seen[p].tree).tree = seen[p].tree
    BY ReadTypes, AnswerTypes DEF TypeOK, Path
  <2> QED
    BY <1>5, <2>1, <2>2, AnswerTypes DEF Judge, Reject, Leave, Raised, DigestMatches
<1>6. ASSUME NEW p \in Procs, ReadFault(p) PROVE Store!StoreNext
  <2>1. faults'["read"] # 0 /\ UNCHANGED published
    BY <1>6 DEF TypeOK, ReadFault, Fault
  <2>2. UNCHANGED answer \/ answer' = [answer EXCEPT ![p] = Raised]
    BY <1>6 DEF ReadFault, Reject, Leave
  <2>3. UNCHANGED Handed \/ Handed' = [Handed EXCEPT ![p] = {}]
    <3>1. CASE UNCHANGED answer
      BY <3>1 DEF Handed
    <3>2. CASE answer' = [answer EXCEPT ![p] = Raised]
      BY <3>2 DEF TypeOK, Handed, Raised
    <3> QED
      BY <2>2, <3>1, <3>2
  <2> QED
    BY <2>1, <2>3 DEF Store!StoreNext, Store!Disturb, Undisturbed
<1>7. ASSUME NEW p \in Procs,
             \/ Probe(p) \/ HashFile(p) \/ Acquire(p) \/ Reprobe(p) \/ RemoveDir(p)
             \/ WriteSeal(p) \/ Unlock(p)
      PROVE  UNCHANGED <<published, faults, answer>>
  BY <1>7 DEF Probe, HashFile, Acquire, Reprobe, RemoveDir, WriteSeal, Unlock
<1>8. ASSUME NEW p \in Procs, RemoveFile(p)
      PROVE  UNCHANGED <<published, Undisturbed, Handed>>
  BY <1>8 DEF TypeOK, RemoveFile, Fault, Undisturbed, Handed
<1>9. ASSUME NEW p \in Procs, Build(p) \/ Kill(p)
      PROVE  Store!StoreNext \/ UNCHANGED <<published, Undisturbed, Handed>>
  <2>1. UNCHANGED <<published, Undisturbed>>
    BY <1>9 DEF TypeOK, Build, Kill, Fault, Undisturbed
  <2>2. UNCHANGED answer \/ \E r \in {NoAnswer, Raised} : answer' = [answer EXCEPT ![p] = r]
    BY <1>9 DEF Build, Kill, Leave
  <2>3. UNCHANGED Handed
        \/ \E T \in {{}} \cup {{t} : t \in published} : Handed' = [Handed EXCEPT ![p] = T]
    BY <2>2, AnswerTypes, AnswerHands DEF NoAnswer, Raised, Handed
  <2> QED
    BY <2>1, <2>3 DEF Store!StoreNext, Store!Hand
<1>10. ASSUME NEW p \in Procs, Publish(p)
       PROVE  Store!StoreNext \/ UNCHANGED <<published, Undisturbed, Handed>>
  <2>1. UNCHANGED <<Undisturbed, Handed>>
    BY <1>10 DEF Publish, Undisturbed, Handed
  <2>2. staging[p].tree \in BuiltTrees
    BY <1>10 DEF Publish, Inductive, SealInv
  <2>3. published = {} \/ ~Undisturbed
    BY <1>10 DEF Publish, Inductive, CalmInv, Good, AbsentDir
  <2> QED
    BY <1>10, <2>1, <2>2, <2>3 DEF Publish, Store!StoreNext, Store!Seal
<1>11. ASSUME Tamper PROVE Store!StoreNext
  <2>1. faults'["tamper"] # 0 /\ UNCHANGED <<published, Handed>>
    BY <1>11 DEF TypeOK, Tamper, Fault, Handed
  <2> QED
    BY <2>1 DEF Store!StoreNext, Store!Disturb, Undisturbed
<1> HIDE DEF Handing
<1> QED
  BY <1>1, <1>2, <1>3, <1>4, <1>5, <1>6, <1>7, <1>8, <1>9, <1>10, <1>11, NextCases

\* The cache hands out sealed trees only, and seals a second one only after the
\* first was disturbed: every step of it is a step of the store, or none.
THEOREM StoreImplemented == Spec => ImplementsStore
BY StoreInitial, StoreStep, InductiveHolds, PTL
   DEF Spec, ImplementsStore, Store!StoreSpec

-----------------------------------------------------------------------------
(* A call ends: each step of its own leaves it less to do.                  *)

\* What a call has left to do, by its place, which verification it is in and how many
\* files it has still to visit: three walks of the files and a removal are the most.
Left(label, where, files) ==
  LET F == Cardinality(Files)
  IN CASE label = "mkroot" -> 4*F + 16
       [] label = "probe" -> 4*F + 15
       [] label = "read_seal" /\ where = "fast" -> 4*F + 14
       [] label = "walk" /\ where = "fast" -> 3*F + 13 + files
       [] label = "wait" -> 3*F + 12
       [] label = "reprobe" -> 3*F + 11
       [] label = "read_seal" /\ where = "locked" -> 3*F + 10
       [] label = "walk" /\ where = "locked" -> 2*F + 9 + files
       [] label = "rmtree" -> F + 7 + files
       [] label = "build" -> F + 6
       [] label = "seal" -> F + 5
       [] label = "publish" -> F + 4
       [] label = "unlock" -> F + 3
       [] label = "read_seal" /\ where = "final" -> F + 2
       [] label = "walk" /\ where = "final" -> files + 1
       [] OTHER -> 0

StepsLeft(p) == Left(pc[p], at[p], Cardinality(todo[p]))

\* Whoever holds the lock is on its way to release it: no flock is left held.
HeldOnTheWay == lock # NoProc => lock \in Procs /\ Locked(lock)

\* A walk and a removal have finitely many files to visit.
LEMMA FilesCount ==
  ASSUME IsFiniteSet(Files), NEW S \in SUBSET (Files \cup {SealFile})
  PROVE  /\ IsFiniteSet(S) /\ Cardinality(S) \in Nat /\ Cardinality(Files) \in Nat
         /\ Cardinality(S) <= Cardinality(Files) + 1
         /\ S \subseteq Files => Cardinality(S) <= Cardinality(Files)
<1>1. /\ IsFiniteSet(Files \cup {SealFile}) /\ Cardinality(Files) \in Nat
      /\ Cardinality(Files \cup {SealFile}) = Cardinality(Files) + 1
  BY FS_AddElement, FS_CardinalityType, ContentAssumption
<1>2. IsFiniteSet(S) /\ Cardinality(S) <= Cardinality(Files \cup {SealFile})
  BY <1>1, FS_Subset
<1>3. S \subseteq Files => Cardinality(S) <= Cardinality(Files)
  BY FS_Subset
<1> QED BY <1>1, <1>2, <1>3, FS_CardinalityType

\* What a call has left is a number.
LEMMA LeftIsNumber ==
  ASSUME IsFiniteSet(Files), TypeOK, NEW p \in Procs
  PROVE  StepsLeft(p) \in Nat
<1>1. Cardinality(todo[p]) \in Nat /\ Cardinality(Files) \in Nat
  BY FilesCount DEF TypeOK
<1> QED BY <1>1 DEF StepsLeft, Left

\* A refusal sends the call on, or ends it.
LEMMA RejectLeavesLess ==
  ASSUME IsFiniteSet(Files), TypeOK, NEW p \in Procs, Reject(p), pc[p] \in {"read_seal", "walk"},
         at' = at
  PROVE  StepsLeft(p)' < StepsLeft(p)
<1> DEFINE F == Cardinality(Files)
           n == Cardinality(todo[p])
<1>1. n \in Nat /\ F \in Nat
  BY FilesCount DEF TypeOK
<1>2. CASE at[p] = "fast"
  <2>1. pc'[p] = "wait" BY <1>2 DEF Reject, Goto, TypeOK
  <2> QED BY <1>1, <1>2, <2>1 DEF StepsLeft, Left
<1>3. CASE at[p] = "locked"
  <2>1. pc'[p] = "rmtree" /\ todo'[p] = Files \cup {SealFile} BY <1>3 DEF Reject, Goto, TypeOK
  <2>2. Cardinality(todo'[p]) \in Nat /\ Cardinality(todo'[p]) <= F + 1
    BY <2>1, FilesCount
  <2> HIDE DEF F, n
  <2>3. StepsLeft(p)' = F + 7 + Cardinality(todo'[p]) BY <2>1 DEF StepsLeft, Left, F
  <2>4. StepsLeft(p) \in {3*F + 10, 2*F + 9 + n} BY <1>3 DEF StepsLeft, Left, F, n
  <2> QED BY <1>1, <2>2, <2>3, <2>4
<1>4. CASE at[p] = "final"
  <2>1. pc'[p] = "idle" BY <1>4 DEF Reject, Leave, Goto, TypeOK
  <2> QED BY <1>1, <1>4, <2>1 DEF StepsLeft, Left
<1> QED BY <1>2, <1>3, <1>4 DEF TypeOK

\* Every step of a call, and a fault in it, leaves it less to do.
LEMMA StepLeavesLess ==
  ASSUME IsFiniteSet(Files), TypeOK, TypeOK', NEW p \in Procs,
         Step(p) \/ ReadFault(p) \/ Kill(p)
  PROVE  StepsLeft(p)' < StepsLeft(p)
<1> DEFINE F == Cardinality(Files)
           n == Cardinality(todo[p])
           n1 == Cardinality(todo'[p])
<1>1. /\ F \in Nat /\ n \in Nat /\ n1 \in Nat /\ IsFiniteSet(todo[p])
      /\ pc[p] = "walk" => n <= F
      /\ pc'[p] = "walk" => n1 <= F
  <2>1. todo[p] \in SUBSET (Files \cup {SealFile}) /\ todo'[p] \in SUBSET (Files \cup {SealFile})
    BY DEF TypeOK
  <2>2. (pc[p] = "walk" => todo[p] \subseteq Files) /\ (pc'[p] = "walk" => todo'[p] \subseteq Files)
    BY DEF TypeOK
  <2> QED BY <2>1, <2>2, FilesCount
<1>2. CASE MakeRoot(p)
  <2>1. pc[p] = "mkroot" /\ pc'[p] \in {"probe", "idle"} BY <1>2 DEF MakeRoot, Goto, Leave, TypeOK
  <2> QED BY <1>1, <2>1 DEF StepsLeft, Left
<1>3. CASE Probe(p)
  <2>1. pc[p] = "probe" /\ pc'[p] \in {"read_seal", "wait"} /\ at'[p] = "fast"
    BY <1>3 DEF Probe, Goto, TypeOK
  <2> QED BY <1>1, <2>1 DEF StepsLeft, Left
<1>4. CASE ReadSeal(p)
  <2>1. pc[p] = "read_seal" /\ at' = at BY <1>4 DEF ReadSeal
  <2>2. CASE Reject(p) BY <2>1, <2>2, RejectLeavesLess
  <2>3. CASE Goto(p, "walk")
    <3>1. pc'[p] = "walk" BY <2>3 DEF Goto, TypeOK
    <3> QED BY <1>1, <2>1, <3>1 DEF StepsLeft, Left, TypeOK
  <2> QED BY <1>4, <2>2, <2>3 DEF ReadSeal
<1>5. CASE HashFile(p)
  <2>1. /\ pc[p] = "walk" /\ pc' = pc /\ at' = at
        /\ \E f \in todo[p] : todo'[p] = todo[p] \ {f}
    BY <1>5 DEF HashFile, TypeOK
  <2>2. n1 = n - 1 BY <1>1, <2>1, FS_RemoveElement
  <2> QED BY <1>1, <2>1, <2>2 DEF StepsLeft, Left, TypeOK
<1>6. CASE Judge(p)
  <2>1. pc[p] = "walk" /\ at' = at BY <1>6 DEF Judge
  <2>2. CASE Reject(p) BY <2>1, <2>2, RejectLeavesLess
  <2>3. CASE Leave(p, Path(seen[p].tree))
    <3>1. pc'[p] = "idle" BY <2>3 DEF Leave, Goto, TypeOK
    <3> QED BY <1>1, <2>1, <3>1 DEF StepsLeft, Left, TypeOK
  <2> QED BY <1>6, <2>2, <2>3 DEF Judge
<1>7. CASE ReadFault(p)
  BY <1>7, RejectLeavesLess DEF ReadFault
<1>8. CASE Acquire(p)
  <2>1. pc[p] = "wait" /\ pc'[p] = "reprobe" BY <1>8 DEF Acquire, Goto, TypeOK
  <2> QED BY <1>1, <2>1 DEF StepsLeft, Left
<1>9. CASE Reprobe(p)
  <2>1. pc[p] = "reprobe" /\ pc'[p] \in {"read_seal", "build"} /\ at'[p] = "locked"
    BY <1>9 DEF Reprobe, Goto, TypeOK
  <2> QED BY <1>1, <2>1 DEF StepsLeft, Left
<1>10. CASE RemoveFile(p)
  <2>1. /\ pc[p] = "rmtree" /\ pc' = pc
        /\ \E f \in todo[p] : todo'[p] = todo[p] \ {f}
    BY <1>10 DEF RemoveFile, TypeOK
  <2>2. n1 = n - 1 BY <1>1, <2>1, FS_RemoveElement
  <2> QED BY <1>1, <2>1, <2>2 DEF StepsLeft, Left
<1>11. CASE RemoveDir(p)
  <2>1. pc[p] = "rmtree" /\ pc'[p] = "build" BY <1>11 DEF RemoveDir, Goto, TypeOK
  <2> QED BY <1>1, <2>1 DEF StepsLeft, Left
<1>12. CASE Build(p)
  <2>1. pc[p] = "build" /\ pc'[p] \in {"seal", "idle"} BY <1>12 DEF Build, Goto, Leave, TypeOK
  <2> QED BY <1>1, <2>1 DEF StepsLeft, Left
<1>13. CASE WriteSeal(p) \/ Publish(p)
  <2>1. \/ pc[p] = "seal" /\ pc'[p] = "publish"
        \/ pc[p] = "publish" /\ pc'[p] = "unlock"
    BY <1>13 DEF WriteSeal, Publish, Goto, TypeOK
  <2> QED BY <1>1, <2>1 DEF StepsLeft, Left
<1>14. CASE Unlock(p)
  <2>1. pc[p] = "unlock" /\ pc'[p] = "read_seal" /\ at'[p] = "final"
    BY <1>14 DEF Unlock, Goto, TypeOK
  <2> QED BY <1>1, <2>1 DEF StepsLeft, Left
<1>15. CASE Kill(p)
  <2>1. pc[p] \in Labels \ {"idle"} /\ pc'[p] = "idle" /\ at[p] \in {"fast", "locked", "final"}
    BY <1>15 DEF Kill, Leave, Goto, TypeOK
  <2>2. StepsLeft(p)' = 0 BY <2>1 DEF StepsLeft, Left
  <2>3. CASE pc[p] = "read_seal" BY <1>1, <2>1, <2>2, <2>3 DEF StepsLeft, Left
  <2>4. CASE pc[p] = "walk" BY <1>1, <2>1, <2>2, <2>4 DEF StepsLeft, Left
  <2>5. CASE pc[p] \in {"mkroot", "probe", "wait", "reprobe"}
    BY <1>1, <2>2, <2>5 DEF StepsLeft, Left
  <2>6. CASE pc[p] \in {"rmtree", "build", "seal"}
    BY <1>1, <2>2, <2>6 DEF StepsLeft, Left
  <2>7. CASE pc[p] \in {"publish", "unlock"}
    BY <1>1, <2>2, <2>7 DEF StepsLeft, Left
  <2> QED BY <2>1, <2>3, <2>4, <2>5, <2>6, <2>7 DEF Labels
<1> QED BY <1>2, <1>3, <1>4, <1>5, <1>6, <1>7, <1>8, <1>9, <1>10, <1>11, <1>12, <1>13, <1>14, <1>15
        DEF Step, Verification, Removal

\* What another process does, and who edits the entry, leaves a call what it had to do.
LEMMA OthersLeaveIt ==
  ASSUME TypeOK, NEW p \in Procs,
         \/ Tamper \/ UNCHANGED vars
         \/ \E q \in Procs \ {p} : Call(q) \/ Step(q) \/ ReadFault(q) \/ Kill(q)
  PROVE  StepsLeft(p)' = StepsLeft(p)
<1>1. pc'[p] = pc[p] /\ at'[p] = at[p] /\ todo'[p] = todo[p]
  <2>1. CASE Tamper \/ UNCHANGED vars BY <2>1 DEF Tamper, vars
  <2>2. ASSUME NEW q \in Procs \ {p}, Call(q) \/ Step(q) \/ ReadFault(q) \/ Kill(q)
        PROVE  pc'[p] = pc[p] /\ at'[p] = at[p] /\ todo'[p] = todo[p]
    BY <2>2 DEF TypeOK, Call, Step, Verification, Removal, MakeRoot, Probe, ReadSeal, HashFile, Judge,
           ReadFault, Acquire, Reprobe, RemoveFile, RemoveDir, Build, WriteSeal, Publish, Unlock, Kill,
           Reject, Leave, Goto
  <2> QED BY <2>1, <2>2
<1> QED BY <1>1 DEF StepsLeft

\* The lock goes to a call that takes it, and is free again where the call leaves.
LEMMA HeldStep ==
  ASSUME TypeOK, LockInv, HeldOnTheWay, [Next]_vars PROVE HeldOnTheWay'
<1> USE ProcsAssumption
<1>1. CASE Tamper \/ UNCHANGED vars
  BY <1>1 DEF Tamper, vars, HeldOnTheWay, Locked
<1>2. ASSUME NEW p \in Procs, Call(p) \/ Step(p) \/ ReadFault(p) \/ Kill(p) PROVE HeldOnTheWay'
  <2> USE DEF HeldOnTheWay, Locked, TypeOK
  <2>1. CASE Call(p) BY <2>1 DEF Call, Goto
  <2>2. CASE MakeRoot(p) BY <2>2 DEF MakeRoot, Goto, Leave
  <2>3. CASE Probe(p) BY <2>3 DEF Probe, Goto
  <2>4. CASE ReadSeal(p) BY <2>4 DEF ReadSeal, Reject, Goto, Leave
  <2>5. CASE HashFile(p) BY <2>5 DEF HashFile
  <2>6. CASE Judge(p) BY <2>6 DEF Judge, Reject, Goto, Leave
  <2>7. CASE ReadFault(p) BY <2>7 DEF ReadFault, Reject, Goto, Leave
  <2>8. CASE Acquire(p) BY <2>8 DEF Acquire, Goto
  <2>9. CASE Reprobe(p) BY <2>9 DEF Reprobe, Goto
  <2>10. CASE RemoveFile(p) \/ RemoveDir(p) BY <2>10 DEF RemoveFile, RemoveDir, Goto
  <2>11. CASE Build(p) BY <2>11 DEF Build, Goto, Leave
  <2>12. CASE WriteSeal(p) \/ Publish(p) BY <2>12 DEF WriteSeal, Publish, Goto
  <2>13. CASE Unlock(p) BY <2>13 DEF Unlock, Goto
  <2>14. CASE Kill(p) BY <2>14 DEF Kill, Leave, Goto
  <2> QED BY <1>2, <2>1, <2>2, <2>3, <2>4, <2>5, <2>6, <2>7, <2>8, <2>9, <2>10, <2>11, <2>12, <2>13,
             <2>14 DEF Step, Verification, Removal
<1> QED BY <1>1, <1>2 DEF Next

\* What one call's steps and the others' do to what it has left.
CallsProgress ==
  \A p \in Procs :
    /\ Step(p) \/ ReadFault(p) \/ Kill(p) => StepsLeft(p)' < StepsLeft(p)
    /\ pc[p] # "idle" => StepsLeft(p)' <= StepsLeft(p)

\* cache.py:get_or_materialize goes back nowhere: whatever others do to the entry, a
\* call does no more steps than the number of files gives it, and while the flock is
\* held its holder is on the way to release it.
THEOREM CallRunsOut ==
  ASSUME IsFiniteSet(Files)
  PROVE  Spec => /\ [](HeldOnTheWay /\ \A p \in Procs : StepsLeft(p) \in Nat)
                 /\ [][CallsProgress]_vars
<1>1. Init => HeldOnTheWay
  BY DEF Init, HeldOnTheWay
<1>2. TypeOK => \A p \in Procs : StepsLeft(p) \in Nat
  BY LeftIsNumber
<1>3. TypeOK /\ TypeOK' /\ Next => CallsProgress
  <2> SUFFICES ASSUME TypeOK, TypeOK', Next, NEW p \in Procs
               PROVE  /\ Step(p) \/ ReadFault(p) \/ Kill(p) => StepsLeft(p)' < StepsLeft(p)
                      /\ pc[p] # "idle" => StepsLeft(p)' <= StepsLeft(p)
    BY DEF CallsProgress
  <2>1. Step(p) \/ ReadFault(p) \/ Kill(p) => StepsLeft(p)' < StepsLeft(p)
    BY StepLeavesLess
  <2>2. Call(p) => pc[p] = "idle" BY DEF Call
  <2>3. StepsLeft(p) \in Nat BY LeftIsNumber
  <2>4. StepsLeft(p)' \in Nat
    <3>1. Cardinality(todo'[p]) \in Nat /\ Cardinality(Files) \in Nat
      BY FilesCount DEF TypeOK
    <3> QED BY <3>1 DEF StepsLeft, Left
  <2>5. (Tamper \/ \E q \in Procs \ {p} : Call(q) \/ Step(q) \/ ReadFault(q) \/ Kill(q))
          => StepsLeft(p)' = StepsLeft(p)
    BY OthersLeaveIt
  <2> QED BY <2>1, <2>2, <2>3, <2>4, <2>5 DEF Next
<1>4. TypeOK /\ LockInv /\ HeldOnTheWay /\ [Next]_vars => HeldOnTheWay'
  BY HeldStep
<1>5. TypeOK /\ TypeOK' /\ [Next]_vars => [CallsProgress]_vars
  BY <1>3
<1>6. TypeOK /\ Inductive => LockInv BY DEF Inductive
<1> QED BY <1>1, <1>2, <1>4, <1>5, <1>6, TypeCorrect, InductiveHolds, PTL DEF Spec
=============================================================================
