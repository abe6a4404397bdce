--------------------------- MODULE BindingProofs ---------------------------
(***************************************************************************)
(* Proofs about Binding, for every set of invocations, artifacts,          *)
(* manifests and trees and every bound.                                    *)
(***************************************************************************)
EXTENDS Binding, TLAPS

USE NoneAssumption, VanishedAssumption, MapAssumption, BoundAssumption, BackendAssumption
USE DEF Labels, BinderLabels, outside, history, walk, Trees, Walked, Unwalked

LEMMA NextCases ==
  ASSUME Next
  PROVE  \/ \E i \in Interfaces : RegisterInterface(i)
         \/ \E a \in Artifacts, s \in {"accepted", "proposed"} : RegisterProvider(a, s)
         \/ \E m \in Manifests : EditManifest(m)
         \/ \E t \in Trees : EditTree(t) \/ EditTreeQuietly(t)
         \/ BindAccepted \/ BindManifest \/ BindInterface \/ BindMaterialize
         \/ BindDigestFile \/ BindDigest
         \/ \E r \in Runs : \/ Invoke(r) \/ CheckArtifact(r) \/ CheckManifest(r)
                            \/ TakeFingerprint(r) \/ CompareFingerprint(r) \/ HashFile(r)
                            \/ JudgeTree(r) \/ RecordFingerprint(r) \/ Admit(r) \/ Finish(r)
BY DEF Next, Outside, Bind, Revalidate

LEMMA AcceptedType == TypeOK => Accepted \subseteq Artifacts
BY DEF TypeOK, Accepted


-----------------------------------------------------------------------------
(* Type correctness.                                                        *)

LEMMA TypeInit == Init => TypeOK
BY DEF Init, TypeOK, Bindings, NoDraft

\* The histories stay typed whatever is remembered.
LEMMA RememberType ==
  ASSUME TypeOK, Remember, manifest' \in Manifests, tree'.content \in [Files -> Contents],
         Accepted' \subseteq Artifacts
  PROVE  /\ accepted' \in [Runs -> SUBSET Artifacts]
         /\ manifests' \in [Runs -> SUBSET Manifests]
         /\ had' \in [Runs -> [Files -> SUBSET Contents]]
BY DEF TypeOK, Remember

\* What an invocation forgets leaves its variables typed.
LEMMA PassedType ==
  ASSUME TypeOK, NEW r \in Runs, Passed(r)
  PROVE  /\ pc' \in [Runs -> Labels]
         /\ reading' \in [Runs -> Nat \cup {None, Vanished}]
         /\ todo' \in [Runs -> SUBSET Files]
         /\ agrees' \in [Runs -> BOOLEAN]
BY DEF TypeOK, Passed, Forget, Goto

\* So does what is forgotten when it is over.
LEMMA OverType ==
  ASSUME TypeOK, NEW r \in Runs, Over(r)
  PROVE  /\ pc' \in [Runs -> Labels]
         /\ accepted' \in [Runs -> SUBSET Artifacts]
         /\ manifests' \in [Runs -> SUBSET Manifests]
         /\ had' \in [Runs -> [Files -> SUBSET Contents]]
<1>1. had' \in [Runs -> [Files -> SUBSET Contents]]
  BY DEF TypeOK, Over
<1> QED
  BY <1>1 DEF TypeOK, Over, Goto

\* A refusal is both.
LEMMA RefusedType ==
  ASSUME TypeOK, NEW r \in Runs, Refused(r)
  PROVE  /\ pc' \in [Runs -> Labels]
         /\ reading' \in [Runs -> Nat \cup {None, Vanished}]
         /\ todo' \in [Runs -> SUBSET Files]
         /\ agrees' \in [Runs -> BOOLEAN]
         /\ accepted' \in [Runs -> SUBSET Artifacts]
         /\ manifests' \in [Runs -> SUBSET Manifests]
         /\ had' \in [Runs -> [Files -> SUBSET Contents]]
BY OverType DEF TypeOK, Refused, Forget

LEMMA TypeStep == TypeOK /\ [Next]_vars => TypeOK'
<1> SUFFICES ASSUME TypeOK, [Next]_vars PROVE TypeOK'
  OBVIOUS
<1>1. CASE UNCHANGED vars
  BY <1>1 DEF TypeOK, vars
<1>2. ASSUME NEW i \in Interfaces, RegisterInterface(i) PROVE TypeOK'
  <2>1. Remember /\ manifest' \in Manifests /\ tree' \in [content : Trees, mtime : Nat]
    BY <1>2 DEF TypeOK, RegisterInterface
  <2>2. Accepted' \subseteq Artifacts
    BY <1>2, AcceptedType DEF TypeOK, Accepted, RegisterInterface
  <2>3. /\ accepted' \in [Runs -> SUBSET Artifacts]
        /\ manifests' \in [Runs -> SUBSET Manifests]
        /\ had' \in [Runs -> [Files -> SUBSET Contents]]
    BY <2>1, <2>2, RememberType
  <2> QED
    BY <1>2, <2>1, <2>3 DEF TypeOK, RegisterInterface, Change, MayRegister
<1>3. ASSUME NEW a \in Artifacts, NEW s \in {"accepted", "proposed"}, RegisterProvider(a, s) PROVE TypeOK'
  <2>1. Remember /\ manifest' \in Manifests /\ tree' \in [content : Trees, mtime : Nat]
    BY <1>3 DEF TypeOK, RegisterProvider
  <2>2. Accepted' \subseteq Artifacts
    BY <1>3, AcceptedType DEF TypeOK, Accepted, RegisterProvider
  <2>3. /\ accepted' \in [Runs -> SUBSET Artifacts]
        /\ manifests' \in [Runs -> SUBSET Manifests]
        /\ had' \in [Runs -> [Files -> SUBSET Contents]]
    BY <2>1, <2>2, RememberType
  <2> QED
    BY <1>3, <2>1, <2>3 DEF TypeOK, RegisterProvider, Change
<1>4. ASSUME NEW m \in Manifests, EditManifest(m) PROVE TypeOK'
  <2>1. Remember /\ manifest' \in Manifests /\ tree' \in [content : Trees, mtime : Nat]
    BY <1>4 DEF TypeOK, EditManifest
  <2>2. Accepted' \subseteq Artifacts
    BY <1>4, AcceptedType DEF TypeOK, Accepted, EditManifest
  <2>3. /\ accepted' \in [Runs -> SUBSET Artifacts]
        /\ manifests' \in [Runs -> SUBSET Manifests]
        /\ had' \in [Runs -> [Files -> SUBSET Contents]]
    BY <2>1, <2>2, RememberType
  <2> QED
    BY <1>4, <2>1, <2>3 DEF TypeOK, EditManifest, Change
<1>5. ASSUME NEW t \in Trees, EditTree(t) PROVE TypeOK'
  <2>1. Remember /\ manifest' \in Manifests /\ tree' \in [content : Trees, mtime : Nat]
    BY <1>5 DEF TypeOK, EditTree
  <2>2. Accepted' \subseteq Artifacts
    BY <1>5, AcceptedType DEF TypeOK, Accepted, EditTree
  <2>3. /\ accepted' \in [Runs -> SUBSET Artifacts]
        /\ manifests' \in [Runs -> SUBSET Manifests]
        /\ had' \in [Runs -> [Files -> SUBSET Contents]]
    BY <2>1, <2>2, RememberType
  <2> QED
    BY <1>5, <2>1, <2>3 DEF TypeOK, EditTree, Change
<1>6. ASSUME NEW t \in Trees, EditTreeQuietly(t) PROVE TypeOK'
  <2>1. Remember /\ manifest' \in Manifests /\ tree' \in [content : Trees, mtime : Nat]
    BY <1>6 DEF TypeOK, EditTreeQuietly
  <2>2. Accepted' \subseteq Artifacts
    BY <1>6, AcceptedType DEF TypeOK, Accepted, EditTreeQuietly
  <2>3. /\ accepted' \in [Runs -> SUBSET Artifacts]
        /\ manifests' \in [Runs -> SUBSET Manifests]
        /\ had' \in [Runs -> [Files -> SUBSET Contents]]
    BY <2>1, <2>2, RememberType
  <2> QED
    BY <1>6, <2>1, <2>3 DEF TypeOK, EditTreeQuietly
<1>7. CASE BindAccepted
  <2>1. draft' \in Bindings
    <3>1. PICK a \in Accepted : draft' = [NoDraft EXCEPT !.artifact = a]
      BY <1>7 DEF BindAccepted
    <3>2. NoDraft \in Bindings /\ a \in Artifacts
      BY AcceptedType DEF Bindings, NoDraft
    <3> QED
      BY <3>1, <3>2 DEF Bindings
  <2> QED
    BY <1>7, <2>1 DEF TypeOK, BindAccepted, BinderGoto
<1>8. CASE BindManifest
  <2>1. draft' \in Bindings
    BY <1>8 DEF TypeOK, Bindings, NoDraft, BindManifest, BinderGoto, BindRefused, ManifestAgrees
  <2> QED
    BY <1>8, <2>1 DEF TypeOK, BindManifest, BinderGoto, BindRefused, ManifestAgrees
<1>9. CASE BindInterface
  <2>1. draft' \in Bindings
    <3>1. CASE draft' = NoDraft
      BY <3>1 DEF Bindings, NoDraft
    <3>2. CASE \E b \in Backends : draft' = [draft EXCEPT !.interface = interface, !.backend = b]
      <4>1. PICK b \in Backends : draft' = [draft EXCEPT !.interface = interface, !.backend = b]
        BY <3>2
      <4>2. [draft EXCEPT !.interface = interface] \in Bindings
        BY DEF TypeOK, Bindings
      <4>3. \A d \in Bindings : [d EXCEPT !.backend = b] \in Bindings
        BY DEF Bindings
      <4> QED
        BY <4>1, <4>2, <4>3
    <3> QED
      BY <1>9, <3>1, <3>2 DEF BindInterface, BindRefused
  <2> QED
    BY <1>9, <2>1 DEF TypeOK, BindInterface, BinderGoto, BindRefused
<1>10. CASE BindMaterialize
  <2>1. draft' \in Bindings
    BY <1>10 DEF TypeOK, Bindings, NoDraft, BindMaterialize, BinderGoto, BindRefused
  <2> QED
    BY <1>10, <2>1 DEF TypeOK, BindMaterialize, BinderGoto, BindRefused
<1>11. CASE BindDigestFile
  <2>1. draft' \in Bindings
    <3>1. CASE draft' = NoDraft
      BY <3>1 DEF Bindings, NoDraft
    <3>2. CASE draft' # NoDraft
      <4>1. PICK f \in Files : draft' = [draft EXCEPT !.sealed = [@ EXCEPT ![f] = tree.content[f]]]
        BY <1>11, <3>2 DEF BindDigestFile, BindRefused
      <4>2. [draft.sealed EXCEPT ![f] = tree.content[f]] \in Walked
        BY DEF TypeOK, Bindings
      <4> QED
        BY <4>1, <4>2 DEF TypeOK, Bindings
    <3> QED
      BY <3>1, <3>2
  <2> QED
    BY <1>11, <2>1 DEF TypeOK, BindDigestFile, BinderGoto, BindRefused
<1>12. CASE BindDigest
  BY <1>12 DEF TypeOK, BindDigest, BinderGoto
<1>13. ASSUME NEW r \in Runs, Invoke(r) PROVE TypeOK'
  <2>1. had' \in [Runs -> [Files -> SUBSET Contents]]
    BY <1>13 DEF TypeOK, Invoke
  <2> QED
    BY <1>13, <2>1, AcceptedType DEF TypeOK, Invoke, Goto
<1>14. ASSUME NEW r \in Runs, CheckArtifact(r) PROVE TypeOK'
  <2>1. CASE Refused(r)
    BY <1>14, <2>1, RefusedType DEF TypeOK, CheckArtifact
  <2>2. CASE ~Refused(r)
    BY <1>14, <2>2 DEF TypeOK, CheckArtifact, Goto
  <2> QED
    BY <2>1, <2>2
<1>15. ASSUME NEW r \in Runs, CheckManifest(r) PROVE TypeOK'
  <2>1. CASE Refused(r)
    BY <1>15, <2>1, RefusedType DEF TypeOK, CheckManifest
  <2>2. CASE Passed(r) /\ UNCHANGED history
    BY <1>15, <2>2, PassedType DEF TypeOK, CheckManifest
  <2>3. CASE ~Refused(r) /\ ~Passed(r)
    BY <1>15, <2>3 DEF TypeOK, CheckManifest, ManifestChecked, Goto
  <2> QED
    BY <1>15, <2>1, <2>2, <2>3 DEF CheckManifest, ManifestChecked
<1>16. ASSUME NEW r \in Runs, TakeFingerprint(r) PROVE TypeOK'
  BY <1>16 DEF TypeOK, TakeFingerprint, Goto, Fingerprint
<1>17. ASSUME NEW r \in Runs, CompareFingerprint(r) PROVE TypeOK'
  <2>1. CASE Passed(r)
    BY <1>17, <2>1, PassedType DEF TypeOK, CompareFingerprint
  <2>2. CASE ~Passed(r)
    <3>1. PICK f \in Since(reading[r]) \cup {Vanished} :
            /\ Goto(r, "hash")
            /\ reading' = [reading EXCEPT ![r] = f]
            /\ todo' = [todo EXCEPT ![r] = Files]
            /\ agrees' = [agrees EXCEPT ![r] = TRUE]
      BY <1>17, <2>2 DEF CompareFingerprint
    <3>2. f \in Nat \cup {Vanished}
      BY DEF TypeOK, Since, Fingerprint
    <3> QED
      BY <1>17, <3>1, <3>2 DEF TypeOK, CompareFingerprint, Goto
  <2> QED
    BY <2>1, <2>2
<1>18. ASSUME NEW r \in Runs, HashFile(r) PROVE TypeOK'
  <2>1. CASE Refused(r)
    BY <1>18, <2>1, RefusedType DEF TypeOK, HashFile
  <2>2. CASE ~Refused(r)
    <3>1. PICK f \in todo[r] :
            /\ todo' = [todo EXCEPT ![r] = @ \ {f}]
            /\ agrees' = [agrees EXCEPT ![r] = @ /\ tree.content[f] = bound.sealed[f]]
            /\ UNCHANGED <<pc, reading, history>>
      BY <1>18, <2>2 DEF HashFile
    <3>2. todo' \in [Runs -> SUBSET Files]
      BY <3>1 DEF TypeOK
    <3>3. agrees' \in [Runs -> BOOLEAN]
      BY <3>1, Zenon DEF TypeOK
    <3> QED
      BY <1>18, <3>1, <3>2, <3>3 DEF TypeOK, HashFile
  <2> QED
    BY <2>1, <2>2
<1>19. ASSUME NEW r \in Runs, JudgeTree(r) PROVE TypeOK'
  <2>1. CASE Refused(r)
    BY <1>19, <2>1, RefusedType DEF TypeOK, JudgeTree
  <2>2. CASE ~Refused(r)
    BY <1>19, <2>2 DEF TypeOK, JudgeTree, Goto
  <2> QED
    BY <2>1, <2>2
<1>20. ASSUME NEW r \in Runs, RecordFingerprint(r) PROVE TypeOK'
  <2>1. watch' \in Nat \cup {None}
    BY <1>20 DEF TypeOK, RecordFingerprint, Vouched
  <2> QED
    BY <1>20, <2>1, PassedType DEF TypeOK, RecordFingerprint
<1>21. ASSUME NEW r \in Runs, Admit(r) PROVE TypeOK'
  <2>1. CASE Over(r)
    BY <1>21, <2>1, OverType DEF TypeOK, Admit
  <2>2. CASE ~Over(r)
    BY <1>21, <2>2 DEF TypeOK, Admit, Goto
  <2> QED
    BY <2>1, <2>2
<1>22. ASSUME NEW r \in Runs, Finish(r) PROVE TypeOK'
  BY <1>22, OverType DEF TypeOK, Finish
<1> QED
  BY <1>1, <1>2, <1>3, <1>4, <1>5, <1>6, <1>7, <1>8, <1>9, <1>10, <1>11,
     <1>12, <1>13, <1>14, <1>15, <1>16, <1>17, <1>18, <1>19, <1>20, <1>21, <1>22, NextCases

\* Every variable keeps its type.
THEOREM TypeCorrect == Spec => []TypeOK
BY TypeInit, TypeStep, PTL DEF Spec

-----------------------------------------------------------------------------
(* What bind joins, and what stays registered under it.                     *)

LEMMA BindInit == Init => BindInv
BY DEF Init, BindInv

LEMMA BindStep == TypeOK /\ TypeOK' /\ BindInv /\ [Next]_vars => BindInv'
<1> SUFFICES ASSUME TypeOK, TypeOK', BindInv, [Next]_vars PROVE BindInv'
  OBVIOUS
<1>1. CASE UNCHANGED vars
  BY <1>1 DEF BindInv, vars
<1>2. ASSUME NEW i \in Interfaces, RegisterInterface(i) PROVE BindInv'
  BY <1>2 DEF TypeOK, BindInv, RegisterInterface, MayRegister
<1>3. ASSUME NEW a \in Artifacts, NEW s \in {"accepted", "proposed"}, RegisterProvider(a, s) PROVE BindInv'
  BY <1>3 DEF TypeOK, BindInv, RegisterProvider
<1>4. ASSUME NEW m \in Manifests, EditManifest(m) PROVE BindInv'
  BY <1>4 DEF TypeOK, BindInv, EditManifest
<1>5. ASSUME NEW t \in Trees, EditTree(t) PROVE BindInv'
  BY <1>5 DEF TypeOK, BindInv, EditTree
<1>6. ASSUME NEW t \in Trees, EditTreeQuietly(t) PROVE BindInv'
  BY <1>6 DEF TypeOK, BindInv, EditTreeQuietly
<1>7. CASE BindAccepted
  BY <1>7, AcceptedType DEF TypeOK, BindInv, BindAccepted, BinderGoto, NoDraft, Bindings
<1>8. CASE BindManifest
  <2>1. CASE BindRefused
    BY <1>8, <2>1 DEF TypeOK, BindInv, BindManifest, BindRefused, BinderGoto, NoDraft
  <2>2. CASE ~BindRefused
    <3>1. draft' = [draft EXCEPT !.manifest = manifest] /\ ManifestAgrees(manifest)
      BY <1>8, <2>2 DEF BindManifest
    <3>2. draft'.artifact = draft.artifact /\ draft'.manifest = ManifestOf[draft.artifact]
      BY <3>1 DEF TypeOK, Bindings, ManifestAgrees
    <3> QED
      BY <1>8, <2>2, <3>2 DEF BindInv, BindManifest, BinderGoto
  <2> QED
    BY <2>1, <2>2
<1>9. CASE BindInterface
  <2>1. CASE BindRefused
    BY <1>9, <2>1 DEF TypeOK, BindInv, BindInterface, BindRefused, BinderGoto, NoDraft
  <2>2. CASE ~BindRefused
    <3>1. PICK b \in Backends : draft' = [draft EXCEPT !.interface = interface, !.backend = b]
      BY <1>9, <2>2 DEF BindInterface
    <3>2. /\ draft'.artifact = draft.artifact /\ draft'.manifest = draft.manifest
          /\ draft'.interface = interface
      BY <3>1 DEF TypeOK, Bindings
    <3> QED
      BY <1>9, <2>2, <3>2 DEF BindInv, BindInterface, BinderGoto
  <2> QED
    BY <2>1, <2>2
<1>10. CASE BindMaterialize
  BY <1>10 DEF TypeOK, BindInv, BindMaterialize, BinderGoto, BindRefused, NoDraft, Bindings
<1>11. CASE BindDigestFile
  <2>1. CASE BindRefused
    BY <1>11, <2>1 DEF TypeOK, BindInv, BindDigestFile, BindRefused, BinderGoto, NoDraft
  <2>2. CASE ~BindRefused
    <3>1. PICK f \in Files : draft' = [draft EXCEPT !.sealed = [@ EXCEPT ![f] = tree.content[f]]]
      BY <1>11, <2>2 DEF BindDigestFile
    <3>2. /\ draft'.artifact = draft.artifact /\ draft'.manifest = draft.manifest
          /\ draft'.interface = draft.interface
      BY <3>1 DEF TypeOK, Bindings
    <3> QED
      BY <1>11, <2>2, <3>2 DEF BindInv, BindDigestFile
  <2> QED
    BY <2>1, <2>2
<1>12. CASE BindDigest
  <2>1. bound' # None
    BY <1>12, BindingAssumption DEF TypeOK, BindDigest
  <2> QED
    BY <1>12, <2>1 DEF BindInv, BindDigest, BinderGoto
<1>13. ASSUME NEW r \in Runs, Invoke(r) PROVE BindInv'
  BY <1>13 DEF BindInv, Invoke
<1>14. ASSUME NEW r \in Runs, CheckArtifact(r) PROVE BindInv'
  BY <1>14 DEF BindInv, CheckArtifact
<1>15. ASSUME NEW r \in Runs, CheckManifest(r) PROVE BindInv'
  BY <1>15 DEF BindInv, CheckManifest
<1>16. ASSUME NEW r \in Runs, TakeFingerprint(r) PROVE BindInv'
  BY <1>16 DEF BindInv, TakeFingerprint
<1>17. ASSUME NEW r \in Runs, CompareFingerprint(r) PROVE BindInv'
  BY <1>17 DEF BindInv, CompareFingerprint
<1>18. ASSUME NEW r \in Runs, HashFile(r) PROVE BindInv'
  BY <1>18 DEF BindInv, HashFile
<1>19. ASSUME NEW r \in Runs, JudgeTree(r) PROVE BindInv'
  BY <1>19 DEF BindInv, JudgeTree
<1>20. ASSUME NEW r \in Runs, RecordFingerprint(r) PROVE BindInv'
  BY <1>20 DEF BindInv, RecordFingerprint
<1>21. ASSUME NEW r \in Runs, Admit(r) PROVE BindInv'
  BY <1>21 DEF BindInv, Admit
<1>22. ASSUME NEW r \in Runs, Finish(r) PROVE BindInv'
  BY <1>22 DEF BindInv, Finish
<1> QED
  BY <1>1, <1>2, <1>3, <1>4, <1>5, <1>6, <1>7, <1>8, <1>9, <1>10, <1>11,
     <1>12, <1>13, <1>14, <1>15, <1>16, <1>17, <1>18, <1>19, <1>20, <1>21, <1>22, NextCases

\* A registered interface does not move under a binding.
THEOREM InterfacePinnedHolds == Spec => []InterfacePinned
<1>1. BindInv => InterfacePinned
  BY DEF BindInv, InterfacePinned
<1> QED
  BY <1>1, BindInit, BindStep, TypeCorrect, PTL DEF Spec

\* What a binding joins is what one accepted artifact says.
THEOREM BoundAsAcceptedHolds == Spec => []BoundAsAccepted
<1>1. BindInv => BoundAsAccepted
  BY DEF BindInv, BoundAsAccepted
<1> QED
  BY <1>1, BindInit, BindStep, TypeCorrect, PTL DEF Spec

-----------------------------------------------------------------------------
(* What each invocation has seen since it began.                            *)

LEMMA SeenInit == Init => SeenInv
BY DEF Init, SeenInv

\* What one invocation forgets at its end, no other has lost.
LEMMA OverSeen ==
  ASSUME TypeOK, NEW r \in Runs, Over(r)
  PROVE  /\ pc'[r] = "idle"
         /\ \A s \in Runs \ {r} : /\ pc'[s] = pc[s] /\ accepted'[s] = accepted[s]
                                  /\ manifests'[s] = manifests[s] /\ had'[s] = had[s]
BY DEF TypeOK, Over, Goto

LEMMA SeenStep == TypeOK /\ BindInv /\ SeenInv /\ [Next]_vars => SeenInv'
<1> SUFFICES ASSUME TypeOK, BindInv, SeenInv, [Next]_vars PROVE SeenInv'
  OBVIOUS
<1>1. CASE UNCHANGED vars
  BY <1>1 DEF SeenInv, Accepted, vars
<1>2. ASSUME NEW i \in Interfaces, RegisterInterface(i) PROVE SeenInv'
  BY <1>2 DEF TypeOK, SeenInv, RegisterInterface, Remember, Underway
<1>3. ASSUME NEW a \in Artifacts, NEW s \in {"accepted", "proposed"}, RegisterProvider(a, s) PROVE SeenInv'
  BY <1>3 DEF TypeOK, SeenInv, RegisterProvider, Remember, Underway
<1>4. ASSUME NEW m \in Manifests, EditManifest(m) PROVE SeenInv'
  BY <1>4 DEF TypeOK, SeenInv, EditManifest, Remember, Underway
<1>5. ASSUME NEW t \in Trees, EditTree(t) PROVE SeenInv'
  BY <1>5 DEF TypeOK, SeenInv, EditTree, Remember, Underway
<1>6. ASSUME NEW t \in Trees, EditTreeQuietly(t) PROVE SeenInv'
  BY <1>6 DEF TypeOK, SeenInv, EditTreeQuietly, Remember, Underway
<1>7. CASE BindAccepted
  BY <1>7 DEF SeenInv, Accepted, BindAccepted, BinderGoto
<1>8. CASE BindManifest
  BY <1>8 DEF SeenInv, Accepted, BindManifest, BinderGoto, BindRefused, ManifestAgrees
<1>9. CASE BindInterface
  BY <1>9 DEF SeenInv, Accepted, BindInterface, BinderGoto, BindRefused
<1>10. CASE BindMaterialize
  BY <1>10 DEF SeenInv, Accepted, BindMaterialize, BinderGoto, BindRefused
<1>11. CASE BindDigestFile
  BY <1>11 DEF SeenInv, Accepted, BindDigestFile, BinderGoto, BindRefused
<1>12. CASE BindDigest
  <2>1. \A r \in Runs : pc'[r] = "idle"
    BY <1>12 DEF BindInv, SeenInv, BindDigest
  <2> QED
    BY <2>1 DEF SeenInv
<1>13. ASSUME NEW r \in Runs, Invoke(r) PROVE SeenInv'
  BY <1>13 DEF TypeOK, SeenInv, Accepted, Invoke, Goto
<1>14. ASSUME NEW r \in Runs, CheckArtifact(r) PROVE SeenInv'
  <2>1. CASE Refused(r)
    BY <1>14, <2>1, OverSeen DEF SeenInv, Accepted, Refused, CheckArtifact
  <2>2. CASE ~Refused(r)
    BY <1>14, <2>2 DEF TypeOK, SeenInv, Accepted, CheckArtifact, Goto
  <2> QED
    BY <2>1, <2>2
<1>15. ASSUME NEW r \in Runs, CheckManifest(r) PROVE SeenInv'
  <2>1. CASE Refused(r)
    BY <1>15, <2>1, OverSeen DEF SeenInv, Accepted, Refused, CheckManifest
  <2>2. CASE ~Refused(r)
    BY <1>15, <2>2 DEF TypeOK, SeenInv, Accepted, CheckManifest, Goto, ManifestChecked, Passed
  <2> QED
    BY <2>1, <2>2
<1>16. ASSUME NEW r \in Runs, TakeFingerprint(r) PROVE SeenInv'
  BY <1>16 DEF TypeOK, SeenInv, Accepted, TakeFingerprint, Goto
<1>17. ASSUME NEW r \in Runs, CompareFingerprint(r) PROVE SeenInv'
  BY <1>17 DEF TypeOK, SeenInv, Accepted, CompareFingerprint, Goto, Passed
<1>18. ASSUME NEW r \in Runs, HashFile(r) PROVE SeenInv'
  <2>1. CASE Refused(r)
    BY <1>18, <2>1, OverSeen DEF SeenInv, Accepted, Refused, HashFile
  <2>2. CASE ~Refused(r)
    BY <1>18, <2>2 DEF TypeOK, SeenInv, Accepted, HashFile
  <2> QED
    BY <2>1, <2>2
<1>19. ASSUME NEW r \in Runs, JudgeTree(r) PROVE SeenInv'
  <2>1. CASE Refused(r)
    BY <1>19, <2>1, OverSeen DEF SeenInv, Accepted, Refused, JudgeTree
  <2>2. CASE ~Refused(r)
    BY <1>19, <2>2 DEF TypeOK, SeenInv, Accepted, JudgeTree, Goto
  <2> QED
    BY <2>1, <2>2
<1>20. ASSUME NEW r \in Runs, RecordFingerprint(r) PROVE SeenInv'
  BY <1>20 DEF TypeOK, SeenInv, Accepted, RecordFingerprint, Goto, Passed
<1>21. ASSUME NEW r \in Runs, Admit(r) PROVE SeenInv'
  <2>1. CASE Over(r)
    BY <1>21, <2>1, OverSeen DEF SeenInv, Accepted, Admit
  <2>2. CASE ~Over(r)
    BY <1>21, <2>2 DEF TypeOK, SeenInv, Accepted, Admit, Goto
  <2> QED
    BY <2>1, <2>2
<1>22. ASSUME NEW r \in Runs, Finish(r) PROVE SeenInv'
  BY <1>22, OverSeen DEF SeenInv, Accepted, Finish
<1> QED
  BY <1>1, <1>2, <1>3, <1>4, <1>5, <1>6, <1>7, <1>8, <1>9, <1>10, <1>11,
     <1>12, <1>13, <1>14, <1>15, <1>16, <1>17, <1>18, <1>19, <1>20, <1>21, <1>22, NextCases

\* No run starts under a withdrawn artifact or an edited manifest.
THEOREM RunsUnderAcceptanceHolds == Spec => []RunsUnderAcceptance
<1>1. SeenInv => RunsUnderAcceptance
  BY DEF SeenInv, RunsUnderAcceptance
<1> QED
  BY <1>1, BindInit, BindStep, SeenInit, SeenStep, TypeCorrect, PTL DEF Spec

-----------------------------------------------------------------------------
(* What a fingerprint vouches for.                                          *)

LEMMA GateInit == Init => GateInv
BY DEF Init, GateInv, Gate, WatchInv, FoundInv, PassInv, Found

\* A step of invocation r alone that leaves tree and binding as they are.
Moved(r) ==
  /\ UNCHANGED <<tree, bound>>
  /\ \A s \in Runs \ {r} :
       /\ pc'[s] = pc[s] /\ reading'[s] = reading[s]
       /\ todo'[s] = todo[s] /\ agrees'[s] = agrees[s] /\ had'[s] = had[s]

\* What registry, package and binder do is nothing to the gate.
LEMMA GateKept ==
  ASSUME TypeOK, Gate, UNCHANGED <<tree, bound, watch, pc, reading, todo, agrees>>,
         \A r \in Underway : \A f \in Files : had[r][f] \subseteq had'[r][f]
  PROVE  Gate'
<1>1. WatchInv'
  BY DEF Gate, WatchInv
<1>2. \A r \in Runs : FoundInv(r)'
  BY DEF TypeOK, Gate, FoundInv, Found, Saw, Underway
<1>3. \A r \in Runs : PassInv(r)'
  BY DEF Gate, PassInv, Saw, Underway
<1> QED
  BY <1>1, <1>2, <1>3 DEF Gate

\* The others have found what they had found, unless r begins a walk.
LEMMA OthersFound ==
  ASSUME TypeOK, Gate, NEW r \in Runs, Moved(r), pc'[r] # "stat"
  PROVE  \A s \in Runs \ {r} : FoundInv(s)'
<1>1. SUFFICES ASSUME NEW s \in Runs \ {r} PROVE FoundInv(s)'
  OBVIOUS
<1>2. FoundInv(s) /\ Found(s)' = Found(s)
  BY DEF Gate, Moved, Found
<1> QED
  BY <1>2 DEF Moved, FoundInv, Saw

\* So a step of r is only about r, unless it begins a walk or is recorded.
LEMMA OneMoved ==
  ASSUME TypeOK, Gate, NEW r \in Runs, Moved(r), pc'[r] # "stat", watch' = watch,
         FoundInv(r)', PassInv(r)'
  PROVE  Gate'
<1>1. WatchInv'
  BY DEF Gate, WatchInv, Moved
<1>2. \A s \in Runs \ {r} : PassInv(s)'
  BY DEF Gate, PassInv, Moved, Saw
<1> QED
  BY <1>1, <1>2, OthersFound DEF Gate

LEMMA GateStep ==
  ASSUME TypeOK, BindInv, SeenInv, Gate, [Next]_vars, quiet' = 0
  PROVE  Gate'
<1>1. CASE UNCHANGED vars
  BY <1>1, GateKept DEF vars
<1>2. ASSUME NEW i \in Interfaces, RegisterInterface(i) PROVE Gate'
  <2>1. /\ UNCHANGED <<tree, bound, watch, pc, reading, todo, agrees>>
        /\ \A r \in Underway : \A f \in Files : had[r][f] \subseteq had'[r][f]
    BY <1>2 DEF RegisterInterface, Remember, Underway
  <2> QED
    BY <2>1, GateKept
<1>3. ASSUME NEW a \in Artifacts, NEW s \in {"accepted", "proposed"}, RegisterProvider(a, s) PROVE Gate'
  <2>1. /\ UNCHANGED <<tree, bound, watch, pc, reading, todo, agrees>>
        /\ \A r \in Underway : \A f \in Files : had[r][f] \subseteq had'[r][f]
    BY <1>3 DEF RegisterProvider, Remember, Underway
  <2> QED
    BY <2>1, GateKept
<1>4. ASSUME NEW m \in Manifests, EditManifest(m) PROVE Gate'
  <2>1. /\ UNCHANGED <<tree, bound, watch, pc, reading, todo, agrees>>
        /\ \A r \in Underway : \A f \in Files : had[r][f] \subseteq had'[r][f]
    BY <1>4 DEF EditManifest, Remember, Underway
  <2> QED
    BY <2>1, GateKept
<1>5. ASSUME NEW t \in Trees, EditTree(t) PROVE Gate'
  <2>1. /\ tree'.mtime = tree.mtime + 1 /\ tree.mtime \in Nat
        /\ UNCHANGED <<bound, watch, pc, reading, todo, agrees>>
        /\ \A r \in Underway : \A f \in Files : had[r][f] \subseteq had'[r][f]
    BY <1>5 DEF TypeOK, EditTree, Remember, Underway
  <2>2. WatchInv'
    BY <2>1 DEF TypeOK, Gate, WatchInv
  <2>3. ASSUME NEW r \in Runs PROVE FoundInv(r)'
    <3>1. FoundInv(r) /\ Found(r)' = Found(r) /\ Found(r) \subseteq Files
      BY <2>1 DEF TypeOK, Gate, Found
    <3>2. reading'[r] # tree'.mtime
      BY <2>1 DEF TypeOK, Gate, PassInv
    <3>3. Found(r) # {} => r \in Underway
      BY DEF Found, Underway
    <3>4. \A s \in Underway, f \in Files : Saw(s, f) => Saw(s, f)'
      BY <2>1 DEF Saw
    <3>5. \A s \in Runs : pc'[s] = "stat" => pc[s] = "stat" /\ s \in Underway
      BY <2>1 DEF Underway
    <3> QED
      BY <2>1, <3>1, <3>2, <3>3, <3>4, <3>5 DEF FoundInv
  <2>4. \A r \in Runs : PassInv(r)'
    BY <2>1 DEF TypeOK, Gate, PassInv, Saw, Underway
  <2> QED
    BY <2>2, <2>3, <2>4 DEF Gate
<1>6. ASSUME NEW t \in Trees, EditTreeQuietly(t) PROVE Gate'
  BY <1>6 DEF TypeOK, EditTreeQuietly
<1>7. CASE BindAccepted
  <2>1. /\ UNCHANGED <<tree, bound, watch, pc, reading, todo, agrees>>
        /\ \A r \in Underway : \A f \in Files : had[r][f] \subseteq had'[r][f]
    BY <1>7 DEF BindAccepted
  <2> QED
    BY <2>1, GateKept
<1>8. CASE BindManifest
  <2>1. /\ UNCHANGED <<tree, bound, watch, pc, reading, todo, agrees>>
        /\ \A r \in Underway : \A f \in Files : had[r][f] \subseteq had'[r][f]
    BY <1>8 DEF BindManifest, BindRefused
  <2> QED
    BY <2>1, GateKept
<1>9. CASE BindInterface
  <2>1. /\ UNCHANGED <<tree, bound, watch, pc, reading, todo, agrees>>
        /\ \A r \in Underway : \A f \in Files : had[r][f] \subseteq had'[r][f]
    BY <1>9 DEF BindInterface, BindRefused
  <2> QED
    BY <2>1, GateKept
<1>10. CASE BindMaterialize
  <2>1. /\ UNCHANGED <<tree, bound, watch, pc, reading, todo, agrees>>
        /\ \A r \in Underway : \A f \in Files : had[r][f] \subseteq had'[r][f]
    BY <1>10 DEF BindMaterialize, BindRefused
  <2> QED
    BY <2>1, GateKept
<1>11. CASE BindDigestFile
  <2>1. /\ UNCHANGED <<tree, bound, watch, pc, reading, todo, agrees>>
        /\ \A r \in Underway : \A f \in Files : had[r][f] \subseteq had'[r][f]
    BY <1>11 DEF BindDigestFile, BindRefused
  <2> QED
    BY <2>1, GateKept
<1>12. CASE BindDigest
  <2>1. \A r \in Runs : pc[r] = "idle"
    BY <1>12 DEF BindInv, SeenInv, BindDigest
  <2>2. WatchInv'
    BY <1>12 DEF TypeOK, WatchInv, BindDigest
  <2>3. \A r \in Runs : FoundInv(r)' /\ PassInv(r)'
    BY <1>12, <2>1 DEF TypeOK, Gate, FoundInv, PassInv, Found, BindDigest
  <2> QED
    BY <2>2, <2>3 DEF Gate
<1>13. ASSUME NEW r \in Runs, Invoke(r) PROVE Gate'
  <2>1. Moved(r) /\ pc'[r] = "artifact" /\ UNCHANGED <<watch, reading>>
    BY <1>13 DEF TypeOK, Moved, Invoke, Goto
  <2>2. FoundInv(r)' /\ PassInv(r)'
    BY <2>1 DEF Gate, Moved, FoundInv, PassInv, Found
  <2> QED
    BY <2>1, <2>2, OneMoved
<1>14. ASSUME NEW r \in Runs, CheckArtifact(r) PROVE Gate'
  <2>1. CASE Refused(r)
    <3>1. Moved(r) /\ pc'[r] = "idle" /\ reading'[r] = None /\ UNCHANGED watch
      BY <1>14, <2>1 DEF TypeOK, Moved, Refused, Over, Forget, Goto, CheckArtifact
    <3>2. FoundInv(r)' /\ PassInv(r)'
      BY <3>1 DEF FoundInv, PassInv, Found
    <3> QED
      BY <3>1, <3>2, OneMoved
  <2>2. CASE ~Refused(r)
    <3>1. Moved(r) /\ pc'[r] = "manifest" /\ UNCHANGED <<watch, reading>>
      BY <1>14, <2>2 DEF TypeOK, Moved, CheckArtifact, Goto
    <3>2. FoundInv(r)' /\ PassInv(r)'
      BY <3>1 DEF Gate, Moved, FoundInv, PassInv, Found
    <3> QED
      BY <3>1, <3>2, OneMoved
  <2> QED
    BY <2>1, <2>2
<1>15. ASSUME NEW r \in Runs, CheckManifest(r) PROVE Gate'
  <2>1. CASE Refused(r)
    <3>1. Moved(r) /\ pc'[r] = "idle" /\ reading'[r] = None /\ UNCHANGED watch
      BY <1>15, <2>1 DEF TypeOK, Moved, Refused, Over, Forget, Goto, CheckManifest
    <3>2. FoundInv(r)' /\ PassInv(r)'
      BY <3>1 DEF FoundInv, PassInv, Found
    <3> QED
      BY <3>1, <3>2, OneMoved
  <2>2. CASE ~Refused(r)
    <3>1. ManifestChecked(r) /\ UNCHANGED <<tree, bound, watch, had>>
      BY <1>15, <2>2 DEF CheckManifest
    <3>2. CASE Passed(r) /\ bound.backend # "local_env"
      <4>1. Moved(r) /\ pc'[r] = "admit" /\ reading'[r] = None
        BY <3>1, <3>2 DEF TypeOK, Moved, Passed, Forget, Goto
      <4>2. FoundInv(r)' /\ PassInv(r)'
        BY <3>1, <3>2, <4>1 DEF FoundInv, PassInv, Found
      <4> QED
        BY <3>1, <4>1, <4>2, OneMoved
    <3>3. CASE bound.backend = "local_env" /\ Goto(r, "fingerprint") /\ UNCHANGED <<reading, walk>>
      <4>1. Moved(r) /\ pc'[r] = "fingerprint"
        BY <3>1, <3>3 DEF TypeOK, Moved, Goto
      <4>2. FoundInv(r)' /\ PassInv(r)'
        BY <3>1, <3>3, <4>1 DEF Gate, FoundInv, PassInv, Found
      <4> QED
        BY <3>1, <4>1, <4>2, OneMoved
    <3> QED
      BY <3>1, <3>2, <3>3 DEF ManifestChecked
  <2> QED
    BY <2>1, <2>2
<1>16. ASSUME NEW r \in Runs, TakeFingerprint(r) PROVE Gate'
  <2>1. /\ UNCHANGED <<tree, bound, watch, todo, agrees, had>>
        /\ pc'[r] = "stat" /\ reading'[r] = tree.mtime
        /\ \A s \in Runs \ {r} : pc'[s] = pc[s] /\ reading'[s] = reading[s]
    BY <1>16 DEF TypeOK, TakeFingerprint, Goto, Fingerprint
  <2>2. \A f \in Files : tree.content[f] = bound.sealed[f] => Saw(r, f)
    BY <1>16 DEF SeenInv, TakeFingerprint, Saw
  <2>3. bound.backend = "local_env"
    BY <1>16 DEF Gate, PassInv, TakeFingerprint
  <2>4. WatchInv'
    BY <2>1 DEF Gate, WatchInv
  <2>5. ASSUME NEW s \in Runs, NEW f \in Found(s)', s # r
        PROVE  /\ Saw(s, f)'
               /\ reading'[s] = tree'.mtime => tree'.content[f] = bound'.sealed[f]
               /\ \A q \in Runs : pc'[q] = "stat" /\ reading'[s] \in Nat /\ reading'[q] <= reading'[s] => Saw(q, f)'
    <3>1. f \in Found(s) /\ f \in Files
      BY <2>1, <2>5 DEF TypeOK, Found
    <3>2. FoundInv(s) /\ PassInv(s) /\ reading'[s] = reading[s]
      BY <2>1, <2>5 DEF Gate
    <3>3. ASSUME NEW q \in Runs, pc'[q] = "stat", reading'[s] \in Nat, reading'[q] <= reading'[s]
          PROVE  Saw(q, f)'
      <4>1. CASE q = r
        <5>1. reading[s] = tree.mtime
          <6>1. reading[s] \in Nat /\ tree.mtime \in Nat /\ tree.mtime <= reading[s]
            BY <2>1, <3>2, <3>3, <4>1 DEF TypeOK
          <6>2. reading[s] <= tree.mtime
            BY <3>2, <6>1 DEF PassInv
          <6> QED
            BY <6>1, <6>2
        <5> QED
          BY <2>1, <2>2, <3>1, <3>2, <4>1, <5>1 DEF FoundInv, Saw
      <4>2. CASE q # r
        BY <2>1, <3>1, <3>2, <3>3, <4>2 DEF FoundInv, Saw
      <4> QED
        BY <4>1, <4>2
    <3> QED
      BY <2>1, <3>1, <3>2, <3>3 DEF FoundInv, Saw
  <2>6. \A s \in Runs : FoundInv(s)'
    <3>1. Found(r)' = {}
      BY <2>1 DEF Found
    <3> QED
      BY <2>5, <3>1 DEF FoundInv
  <2>7. \A s \in Runs \ {r} : PassInv(s)'
    BY <2>1 DEF Gate, PassInv, Saw
  <2>8. PassInv(r)'
    <3>1. watch \in Nat /\ tree.mtime <= watch => watch = tree.mtime
      <4>1. watch \in Nat => watch <= tree.mtime
        BY DEF Gate, WatchInv
      <4>2. tree.mtime \in Nat
        BY DEF TypeOK
      <4> QED
        BY <4>1, <4>2
    <3>2. watch = tree.mtime => \A f \in Files : Saw(r, f)
      BY <2>2 DEF Gate, WatchInv
    <3> QED
      BY <2>1, <2>3, <3>1, <3>2 DEF TypeOK, PassInv, Saw
  <2> QED
    BY <2>4, <2>6, <2>7, <2>8 DEF Gate
<1>17. ASSUME NEW r \in Runs, CompareFingerprint(r) PROVE Gate'
  <2>1. PICK f \in Since(reading[r]) \cup {Vanished} :
          \/ watch = f /\ Passed(r)
          \/ /\ watch # f /\ Goto(r, "hash")
             /\ reading' = [reading EXCEPT ![r] = f]
             /\ todo' = [todo EXCEPT ![r] = Files]
             /\ agrees' = [agrees EXCEPT ![r] = TRUE]
    BY <1>17 DEF CompareFingerprint
  <2>2. PassInv(r) /\ pc[r] = "stat" /\ UNCHANGED <<tree, bound, watch, had>>
    BY <1>17 DEF Gate, CompareFingerprint
  <2>3. f \in Nat \cup {Vanished} /\ (f \in Nat => reading[r] <= f /\ f <= tree.mtime)
    BY <2>2 DEF TypeOK, PassInv, Since, Fingerprint
  <2>4. CASE watch = f /\ Passed(r)
    <3>1. Moved(r) /\ pc'[r] = "admit" /\ reading'[r] = None
      BY <2>2, <2>4 DEF TypeOK, Moved, Passed, Forget, Goto
    <3>2. \A g \in Files : Saw(r, g)
      BY <2>2, <2>3, <2>4 DEF TypeOK, PassInv
    <3>3. FoundInv(r)' /\ PassInv(r)'
      BY <2>2, <3>1, <3>2 DEF FoundInv, PassInv, Found, Saw
    <3> QED
      BY <2>2, <3>1, <3>3, OneMoved
  <2>5. CASE ~(watch = f /\ Passed(r))
    <3>1. /\ Moved(r) /\ pc'[r] = "hash" /\ reading'[r] = f /\ todo'[r] = Files
      BY <2>1, <2>2, <2>5 DEF TypeOK, Moved, Goto
    <3>2. Found(r)' = {}
      BY <3>1 DEF Found
    <3>3. PassInv(r)'
      BY <2>2, <2>3, <3>1 DEF TypeOK, PassInv
    <3> QED
      BY <2>2, <3>1, <3>2, <3>3, OneMoved DEF FoundInv
  <2> QED
    BY <2>4, <2>5
<1>18. ASSUME NEW r \in Runs, HashFile(r) PROVE Gate'
  <2>1. CASE Refused(r)
    <3>1. Moved(r) /\ pc'[r] = "idle" /\ reading'[r] = None /\ UNCHANGED watch
      BY <1>18, <2>1 DEF TypeOK, Moved, Refused, Over, Forget, Goto, HashFile
    <3>2. FoundInv(r)' /\ PassInv(r)'
      BY <3>1 DEF FoundInv, PassInv, Found
    <3> QED
      BY <3>1, <3>2, OneMoved
  <2>2. CASE ~Refused(r)
    <3>1. PICK f \in todo[r] :
            /\ todo' = [todo EXCEPT ![r] = @ \ {f}]
            /\ agrees' = [agrees EXCEPT ![r] = @ /\ tree.content[f] = bound.sealed[f]]
            /\ UNCHANGED <<pc, reading, history>>
      BY <1>18, <2>2 DEF HashFile
    <3>2. /\ Moved(r) /\ pc[r] = "hash" /\ UNCHANGED <<tree, bound, watch, pc, reading, had>>
      BY <1>18, <3>1 DEF TypeOK, Moved, HashFile
    <3>3. \A q \in Runs : pc[q] # "idle" /\ tree.content[f] = bound.sealed[f] => Saw(q, f)
      BY <3>1 DEF TypeOK, SeenInv, Saw
    <3>4. \A g \in Found(r)' : g \in Found(r) \/ (g = f /\ tree.content[f] = bound.sealed[f])
      BY <3>1, <3>2 DEF TypeOK, Found
    <3>5. FoundInv(r)'
      BY <3>2, <3>3, <3>4 DEF Gate, FoundInv, Saw
    <3>6. PassInv(r)'
      BY <3>2 DEF Gate, PassInv, Saw
    <3> QED
      BY <3>2, <3>5, <3>6, OneMoved
  <2> QED
    BY <2>1, <2>2
<1>19. ASSUME NEW r \in Runs, JudgeTree(r) PROVE Gate'
  <2>1. CASE Refused(r)
    <3>1. Moved(r) /\ pc'[r] = "idle" /\ reading'[r] = None /\ UNCHANGED watch
      BY <1>19, <2>1 DEF TypeOK, Moved, Refused, Over, Forget, Goto, JudgeTree
    <3>2. FoundInv(r)' /\ PassInv(r)'
      BY <3>1 DEF FoundInv, PassInv, Found
    <3> QED
      BY <3>1, <3>2, OneMoved
  <2>2. CASE ~Refused(r)
    <3>1. /\ Moved(r) /\ pc[r] = "hash" /\ pc'[r] = "record" /\ agrees[r] /\ todo[r] = {}
          /\ UNCHANGED <<tree, bound, watch, reading, todo, agrees, had>>
          /\ \A s \in Runs \ {r} : pc'[s] = pc[s]
      BY <1>19, <2>2 DEF TypeOK, Moved, JudgeTree, Goto
    <3>2. Found(r)' = Found(r)
      BY <3>1 DEF Found
    <3>3. FoundInv(r)'
      BY <3>1, <3>2 DEF Gate, FoundInv, Saw
    <3>4. PassInv(r)'
      <4>1. reading[r] \in Nat \cup {Vanished}
        BY <3>1 DEF Gate, PassInv
      <4> QED
        BY <3>1, <4>1 DEF Gate, PassInv
    <3> QED
      BY <3>1, <3>3, <3>4, OneMoved
  <2> QED
    BY <2>1, <2>2
<1>20. ASSUME NEW r \in Runs, RecordFingerprint(r) PROVE Gate'
  <2>1. /\ Moved(r) /\ pc[r] = "record" /\ pc'[r] = "admit" /\ reading'[r] = None
        /\ UNCHANGED <<tree, bound, had>>
        /\ watch' = IF reading[r] = Vanished THEN watch ELSE reading[r]
    BY <1>20 DEF TypeOK, Moved, RecordFingerprint, Passed, Forget, Goto, Vouched
  <2>2. FoundInv(r) /\ PassInv(r) /\ Found(r) = Files
    BY <2>1 DEF Gate, Found
  <2>3. WatchInv'
    <3>1. reading[r] = tree.mtime => tree.content = bound.sealed
      <4>1. reading[r] = tree.mtime => \A f \in Files : tree.content[f] = bound.sealed[f]
        BY <2>2 DEF FoundInv
      <4>2. bound # None
        BY <2>1 DEF SeenInv
      <4> QED
        BY <4>1, <4>2 DEF TypeOK, Bindings
    <3> QED
      BY <2>1, <2>2, <3>1 DEF TypeOK, Gate, WatchInv, PassInv, SeenInv
  <2>4. FoundInv(r)' /\ PassInv(r)'
    BY <2>1, <2>2 DEF FoundInv, PassInv, Found, Saw
  <2>5. \A s \in Runs \ {r} : FoundInv(s)'
    BY <2>1, OthersFound
  <2>6. ASSUME NEW s \in Runs \ {r} PROVE PassInv(s)'
    <3>1. PassInv(s) /\ pc'[s] = pc[s] /\ reading'[s] = reading[s]
      BY <2>1 DEF Gate, Moved
    <3>2. pc[s] = "stat" /\ reading[r] \in Nat /\ reading[s] <= reading[r] => \A f \in Files : Saw(s, f)
      BY <2>2 DEF FoundInv
    <3> QED
      BY <2>1, <2>2, <3>1, <3>2 DEF TypeOK, PassInv, Saw
  <2> QED
    BY <2>3, <2>4, <2>5, <2>6 DEF Gate
<1>21. ASSUME NEW r \in Runs, Admit(r) PROVE Gate'
  <2>1. Moved(r) /\ UNCHANGED <<tree, bound, watch, reading>> /\ pc'[r] \in {"running", "idle"}
    BY <1>21 DEF TypeOK, Moved, Admit, Over, Goto
  <2>2. FoundInv(r)'
    BY <2>1 DEF FoundInv, Found
  <2>3. PassInv(r)'
    <3>1. CASE Over(r)
      BY <1>21, <2>1, <3>1 DEF TypeOK, Gate, PassInv, Over, Goto
    <3>2. CASE ~Over(r)
      BY <1>21, <2>1, <3>2 DEF TypeOK, Gate, PassInv, Saw, Admit, Goto
    <3> QED
      BY <3>1, <3>2
  <2> QED
    BY <2>1, <2>2, <2>3, OneMoved
<1>22. ASSUME NEW r \in Runs, Finish(r) PROVE Gate'
  <2>1. Moved(r) /\ UNCHANGED <<tree, bound, watch, reading>> /\ pc'[r] = "idle"
    BY <1>22 DEF TypeOK, Moved, Finish, Over, Goto
  <2>2. FoundInv(r)' /\ PassInv(r)'
    BY <2>1 DEF TypeOK, Gate, FoundInv, PassInv, Found
  <2> QED
    BY <2>1, <2>2, OneMoved
<1> QED
  BY <1>1, <1>2, <1>3, <1>4, <1>5, <1>6, <1>7, <1>8, <1>9, <1>10, <1>11,
     <1>12, <1>13, <1>14, <1>15, <1>16, <1>17, <1>18, <1>19, <1>20, <1>21, <1>22, NextCases

\* A quiet edit is not undone.
LEMMA QuietGrows == TypeOK /\ [Next]_vars /\ quiet' = 0 => quiet = 0
<1> SUFFICES ASSUME TypeOK, [Next]_vars, quiet' = 0 PROVE quiet = 0
  OBVIOUS
<1>1. ASSUME UNCHANGED quiet PROVE quiet = 0
  BY <1>1
<1>2. ASSUME NEW t \in Trees, EditTreeQuietly(t) PROVE quiet = 0
  BY <1>2 DEF TypeOK, EditTreeQuietly
<1>3. ASSUME ~ UNCHANGED quiet PROVE \E t \in Trees : EditTreeQuietly(t)
  BY <1>3, NextCases DEF vars, RegisterInterface, RegisterProvider, EditManifest, EditTree, BindAccepted, BindManifest, BindInterface, BindMaterialize, BindDigestFile,
      BindDigest, Invoke, CheckArtifact, CheckManifest,
      TakeFingerprint, CompareFingerprint, HashFile, JudgeTree, RecordFingerprint, Admit, Finish
<1> QED
  BY <1>1, <1>2, <1>3

LEMMA InductiveHolds == Spec => [](TypeOK /\ Inductive)
<1>1. Init => TypeOK /\ Inductive
  BY TypeInit, BindInit, SeenInit, GateInit DEF Inductive
<1>2. TypeOK /\ Inductive /\ [Next]_vars => TypeOK' /\ Inductive'
  <2>1. TypeOK /\ [Next]_vars /\ quiet' = 0 => quiet = 0
    BY QuietGrows
  <2> QED
    BY <2>1, TypeStep, BindStep, SeenStep, GateStep DEF Inductive, GateInv
<1> QED
  BY <1>1, <1>2, PTL DEF Spec

\* The gate skips the hash of no tree but the sealed one.
THEOREM WatchVouchesHolds == Spec => []WatchVouches
<1>1. Inductive => WatchVouches
  BY DEF Inductive, GateInv, Gate, WatchInv, WatchVouches, Fingerprint
<1> QED
  BY <1>1, InductiveHolds, PTL

\* A run starts only on files that were the sealed ones since it was asked for,
\* as far as fingerprints can tell.
THEOREM RunsSealedFilesHolds == Spec => []RunsSealedFiles
<1>1. Inductive => RunsSealedFiles
  BY DEF Inductive, GateInv, Gate, PassInv, Saw, RunsSealedFiles
<1> QED
  BY <1>1, InductiveHolds, PTL
=============================================================================
