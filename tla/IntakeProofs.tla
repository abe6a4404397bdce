---------------------------- MODULE IntakeProofs ----------------------------
(***************************************************************************)
(* Proofs about what a host does around an invocation, for every package,  *)
(* build request, payload and input.  The four components share no state:  *)
(* a step of Intake is a step of one of them and a stutter of the others,  *)
(* so that each has an inductive invariant of its own.                     *)
(***************************************************************************)
EXTENDS Intake, FiniteSetTheorems, WellFoundedInduction, TLAPS

-----------------------------------------------------------------------------
(* The artifact and its image.                                              *)

ImageNext == \/ \E p \in Payloads : Propose(p)
             \/ \E made \in Builders : BuildImage(made)
             \/ Accept \/ Register \/ VerifyImage

\* A payload as it is in the file: its fields and a status.
IsPayload(p) == /\ p = [x \in PayloadFields \cup {"status"} |-> p[x]]
                /\ p.status \in {"proposed", "accepted"}

\* What the registry and the labels hold are payloads somebody wrote.
HeldArePayloads ==
  /\ payload # NoPayload => IsPayload(payload)
  /\ accepted # NoPayload => IsPayload(accepted) /\ SelfConsistent(accepted)
  /\ labels # NoImage => IsPayload(builtFor) /\ labels.artifact = ArtifactDigest(builtFor)

\* Once there is a verdict it is on these very values.
ImageIInv == HeldArePayloads /\ VerdictIsContent

\* Two payloads digest identically exactly if they differ in no more than their
\* status.
LEMMA DigestIsContent ==
  ASSUME NEW p, NEW q, IsPayload(p), IsPayload(q)
  PROVE  ArtifactDigest(p) = ArtifactDigest(q) <=> \A x \in PayloadFields : p[x] = q[x]
<1> DEFINE Left(r) == [x \in PayloadFields \cup {"status"} |->
                         IF x = "status" THEN "left_out" ELSE r[x]]
<1>1. ArtifactDigest(p) = Left(p) /\ ArtifactDigest(q) = Left(q)
  BY DEF ArtifactDigest, IsPayload
<1>2. ASSUME Left(p) = Left(q), NEW x \in PayloadFields PROVE p[x] = q[x]
  <2>1. x # "status" BY <1>2 DEF PayloadFields
  <2>2. Left(p)[x] = p[x] /\ Left(q)[x] = q[x] BY <1>2, <2>1
  <2> HIDE DEF Left
  <2> QED BY <1>2, <2>2
<1>3. ASSUME \A x \in PayloadFields : p[x] = q[x] PROVE Left(p) = Left(q)
  BY <1>3
<1> HIDE DEF Left
<1> QED BY <1>1, <1>2, <1>3

\* Init establishes the image's invariant.
LEMMA InitImageIInv == ImageInit => ImageIInv
  BY DEF ImageInit, ImageIInv, HeldArePayloads, VerdictIsContent

\* Every step of the image's keeps it.
LEMMA StepKeepsImageIInv ==
  ASSUME ImageIInv, verdict = "none", ImageNext
  PROVE  ImageIInv'
<1> USE DEF ImageIInv, HeldArePayloads
<1>1. ASSUME NEW p \in Payloads, Propose(p) PROVE ImageIInv'
  <2>1. DOMAIN p = PayloadFields BY <1>1, PayloadAssumption
  <2>2. payload' = [x \in PayloadFields \cup {"status"} |->
                      IF x = "status" THEN "proposed" ELSE p[x]]
    BY <1>1, <2>1 DEF Propose
  <2>3. IsPayload(payload') BY <2>2 DEF IsPayload, PayloadFields
  <2> QED BY <1>1, <2>3 DEF Propose, VerdictIsContent
<1>2. ASSUME NEW made \in Builders, BuildImage(made) PROVE ImageIInv'
  BY <1>2 DEF BuildImage, VerdictIsContent
<1>3. CASE Accept
  <2>1. payload # NoPayload BY <1>3 DEF Accept, NoPayload
  <2>2. IsPayload(payload') BY <1>3, <2>1 DEF Accept, IsPayload
  <2> QED BY <1>3, <2>2 DEF Accept, VerdictIsContent
<1>4. CASE Register
  BY <1>4 DEF Register, VerdictIsContent
<1>5. CASE VerifyImage
  <2>1. accepted # NoPayload BY <1>5 DEF VerifyImage, NoPayload
  <2>2. /\ IsPayload(accepted) /\ IsPayload(builtFor) /\ SelfConsistent(accepted)
        /\ labels.artifact = ArtifactDigest(builtFor)
    BY <1>5, <2>1 DEF VerifyImage
  <2>3. labels.artifact = ArtifactDigest(accepted)
          <=> \A x \in PayloadFields : accepted[x] = builtFor[x]
    BY <2>2, DigestIsContent
  <2>4. HeldArePayloads' BY <1>5 DEF VerifyImage
  <2>5. UNCHANGED <<accepted, builtFor, labels>>
    BY <1>5 DEF VerifyImage
  <2>6. verdict' \in {"vouched", "mismatch"} =>
          (verdict' = "vouched" <=> /\ \A x \in PayloadFields : accepted[x] = builtFor[x]
                                   /\ labels.made = accepted.expects)
    BY <1>5, <2>3 DEF VerifyImage
  <2>7. VerdictIsContent'
    BY <2>2, <2>5, <2>6 DEF VerdictIsContent, SelfConsistent
  <2> QED BY <2>4, <2>7
<1> QED BY <1>1, <1>2, <1>3, <1>4, <1>5 DEF ImageNext

\* The invariant holds in every reachable state.
THEOREM ImageInvariance == IntakeSpec => []ImageIInv
<1>1. IntakeInit => ImageIInv BY InitImageIInv DEF IntakeInit
<1>2. ImageIInv /\ [IntakeNext]_intake => ImageIInv'
  <2> SUFFICES ASSUME ImageIInv, [IntakeNext]_intake PROVE ImageIInv' OBVIOUS
  <2>1. CASE Vouching
    BY <2>1, StepKeepsImageIInv DEF Vouching, ImageNext
  <2>2. CASE UNCHANGED image
    BY <2>2 DEF image, ImageIInv, HeldArePayloads, VerdictIsContent
  <2> QED BY <2>1, <2>2 DEF IntakeNext, Inspecting, Building, Answering, intake
<1> QED BY <1>1, <1>2, PTL DEF IntakeSpec

\* artifact.py:235, backends.py:581-611: an image is vouched for by content, and
\* only for a payload that transcribes its manifest.
THEOREM VerdictIsContentHolds == IntakeSpec => []VerdictIsContent
<1>1. ImageIInv => VerdictIsContent BY DEF ImageIInv
<1> QED BY <1>1, ImageInvariance, PTL

-----------------------------------------------------------------------------
(* The pinned model of the quantitative plane.                              *)

QuantNext == QuantStep \/ \E c \in Calls : AskQuant(c)

\* What is read of a model file is a content somebody wrote, and before an input
\* is asked there is no answer.
FileIsWritten ==
  /\ phase = "idle" => out = NoOut
  /\ phase # "idle" /\ call.interface = "score.rank" => model # "none"
  /\ phase = "read" => blob \notin {"absent", "none"}

QuantIInv == FileIsWritten /\ ScoresByPinned

\* An answer that is no ranking by a pinned model, or is one by the pinned
\* content, keeps the invariant.
LEMMA ReturnKeeps ==
  ASSUME QuantIInv, phase # "idle", NEW o, Returns(o),
         o.kind = "ranking" /\ call.mode = "pinned_model" => o.model = call.pin
  PROVE  QuantIInv'
  BY DEF QuantIInv, FileIsWritten, ScoresByPinned, Returns, Stay

\* Declining keeps it.
LEMMA DeclineKeeps ==
  ASSUME QuantIInv, phase # "idle", Declines
  PROVE  QuantIInv'
  BY DEF QuantIInv, FileIsWritten, ScoresByPinned, Declines, Stay

\* Every adapter but the ranking one answers with something else.
LEMMA OtherAdaptersKeep ==
  ASSUME QuantIInv,
         \/ StlMad \/ Changepoint \/ UnknownMethod \/ ForecastSeries \/ Calibration
         \/ Linkage \/ StatisticalTest \/ Reduction
  PROVE  QuantIInv'
<1>0. phase = "admitted"
  BY DEF StlMad, Changepoint, UnknownMethod, ForecastSeries, Calibration, Linkage,
         StatisticalTest, Reduction, Running
<1>1. Declines \/ \E o : Returns(o) /\ o.kind # "ranking"
  <2>1. CASE StlMad BY <2>1 DEF StlMad, Attempts
  <2>2. CASE Changepoint BY <2>2 DEF Changepoint, Attempts
  <2>3. CASE UnknownMethod BY <2>3 DEF UnknownMethod
  <2>4. CASE ForecastSeries BY <2>4 DEF ForecastSeries, Attempts
  <2>5. CASE Calibration BY <2>5 DEF Calibration, Attempts
  <2>6. CASE Linkage BY <2>6 DEF Linkage, Attempts
  <2>7. CASE StatisticalTest BY <2>7 DEF StatisticalTest, Attempts
  <2>8. CASE Reduction BY <2>8 DEF Reduction, Attempts
  <2> QED BY <2>1, <2>2, <2>3, <2>4, <2>5, <2>6, <2>7, <2>8
<1> QED BY <1>0, <1>1, DeclineKeeps, ReturnKeeps

\* A model is loaded from the bytes that were compared with the pin, whatever the
\* file has become since.
LEMMA RankKeeps ==
  ASSUME QuantIInv, WeightedRank \/ ReadModel \/ ScoreModel
  PROVE  QuantIInv'
<1>1. CASE WeightedRank
  <2>1. Declines \/ \E o : Returns(o)
    BY <1>1 DEF WeightedRank, Attempts
  <2>2. phase = "admitted" /\ call.mode # "pinned_model"
    BY <1>1 DEF WeightedRank, Running
  <2> QED BY <2>1, <2>2, DeclineKeeps, ReturnKeeps
<1>2. CASE ReadModel
  <2>1. CASE Declines
    BY <1>2, <2>1, DeclineKeeps DEF ReadModel, Running
  <2>2. CASE ~Declines
    BY <1>2, <2>2 DEF ReadModel, Running, QuantIInv, FileIsWritten, ScoresByPinned
  <2> QED BY <2>1, <2>2
<1>3. CASE ScoreModel
  <2>1. CASE Declines
    BY <1>3, <2>1, DeclineKeeps DEF ScoreModel
  <2>2. CASE phase' = "tampered"
    BY <1>3, <2>2 DEF ScoreModel, QuantIInv, FileIsWritten, ScoresByPinned, Stay,
       Attempts, Declines, Returns
  <2>3. CASE ~Declines /\ phase' # "tampered"
    <3>1. /\ blob = call.pin /\ phase = "read"
          /\ \E o : Returns(o) /\ o.model = blob
      BY <1>3, <2>3 DEF ScoreModel, Attempts, Loaded
    <3> QED BY <3>1, ReturnKeeps
  <2> QED BY <2>1, <2>2, <2>3
<1> QED BY <1>1, <1>2, <1>3

\* Every step of the plane keeps the invariant.
LEMMA StepKeepsQuantIInv ==
  ASSUME QuantIInv, QuantNext
  PROVE  QuantIInv'
<1> USE DEF QuantIInv, FileIsWritten, ScoresByPinned
<1>1. ASSUME NEW c \in Calls, AskQuant(c) PROVE QuantIInv'
  <2>1. c.interface = "score.rank" => c.file \in Contents
    BY QuantAssumption DEF IsInput
  <2> QED BY <1>1, <2>1, QuantAssumption DEF AskQuant, NoOut
<1>2. CASE Admit
  BY <1>2 DEF Admit, Stay
<1>3. ASSUME NEW x \in Contents, TouchModel(x) PROVE QuantIInv'
  BY <1>3, QuantAssumption DEF TouchModel
<1> QED BY <1>1, <1>2, <1>3, OtherAdaptersKeep, RankKeeps DEF QuantNext, QuantStep

\* The invariant holds in every reachable state.
THEOREM QuantInvariance == IntakeSpec => []QuantIInv
<1>1. IntakeInit => QuantIInv
  BY DEF IntakeInit, QuantInit, QuantIInv, FileIsWritten, ScoresByPinned, NoOut
<1>2. QuantIInv /\ [IntakeNext]_intake => QuantIInv'
  <2> SUFFICES ASSUME QuantIInv, [IntakeNext]_intake PROVE QuantIInv' OBVIOUS
  <2>1. CASE Answering
    BY <2>1, StepKeepsQuantIInv DEF Answering, QuantNext
  <2>2. CASE UNCHANGED quant
    BY <2>2 DEF quant, QuantIInv, FileIsWritten, ScoresByPinned
  <2> QED BY <2>1, <2>2 DEF IntakeNext, Inspecting, Building, Vouching, intake
<1> QED BY <1>1, <1>2, PTL DEF IntakeSpec

\* rank.py:29 and 223-340: what scores is the pinned model, and a refusal for its
\* integrity is about bytes that were read.
THEOREM ScoresByPinnedHolds == IntakeSpec => []ScoresByPinned
<1>1. QuantIInv => ScoresByPinned BY DEF QuantIInv
<1> QED BY <1>1, QuantInvariance, PTL

-----------------------------------------------------------------------------
(* The sealed environment.                                                  *)

BuildNext == BuildStep \/ Break \/ \E r \in Requests : Ask(r)

Synced == {"install", "verify", "interpreter", "aliases", "sealed"}
Verified == {"interpreter", "aliases", "sealed"}
Filled == {"wheels", "sync"} \cup Synced

\* A package's bytes are the pinned ones.
InPlace(p) == Place(p) \in DOMAIN staged /\ staged[Place(p)] = closure[p].of.hash

\* They were answered, with nothing followed, at a URL under a pinned index.
WasAnswered(p) == /\ Place(p) \in DOMAIN staged
                  /\ p \in DOMAIN kept /\ kept[p].status = 200 /\ ~kept[p].moved
                  /\ Covers(closure[p].of.url)

\* Every package that is not waiting has been answered for.  A dependency's file
\* may displace another's of the same name until uv hashes them all; nothing
\* displaces the root's, which has a directory to itself.
FetchedSoFar ==
  /\ step \in Filled => InPlace(Root) /\ WasAnswered(Root)
  /\ step = "wheels" => todo \subseteq Deps
  /\ step \in Filled => \A p \in Deps : (step = "wheels" => p \notin todo) => WasAnswered(p)
  /\ step \in Synced => \A p \in Deps : InPlace(p)
  /\ step \in Verified => \A p \in Packages : installed[p] = "pinned"

\* An answer without a fault is the pinned bytes, from the very URL.
LEMMA FaultlessIsPinned ==
  ASSUME NEW hash, NEW a \in Answers(hash), AnswerFault(a, hash) = "none"
  PROVE  a.status = 200 /\ ~a.moved /\ a.body = hash
  BY DEF AnswerFault, Redirects, Answers

\* Refusing keeps the invariant.
LEMMA RefuseKeepsFetched ==
  ASSUME NEW why, Refuse(why)
  PROVE  FetchedSoFar'
  BY DEF Refuse, FetchedSoFar, Filled, Synced, Verified

\* What a fetch that does not refuse leaves.
LEMMA FetchKeeps ==
  ASSUME NEW p \in Packages, NEW next, Fetch(p, next)
  PROVE  \/ \E why : Refuse(why)
         \/ /\ next /\ UNCHANGED <<request, closure, installed, links, cause>>
            /\ staged' = With(staged, Place(p), closure[p].of.hash)
            /\ DOMAIN kept' = DOMAIN kept \cup {p}
            /\ \A q \in DOMAIN kept \ {p} : kept'[q] = kept[q]
            /\ kept'[p].status = 200 /\ ~kept'[p].moved
            /\ Covers(closure[p].of.url)
<1> SUFFICES ASSUME ~\E why : Refuse(why)
             PROVE  /\ next /\ UNCHANGED <<request, closure, installed, links, cause>>
                    /\ staged' = With(staged, Place(p), closure[p].of.hash)
                    /\ DOMAIN kept' = DOMAIN kept \cup {p}
                    /\ \A q \in DOMAIN kept \ {p} : kept'[q] = kept[q]
                    /\ kept'[p].status = 200 /\ ~kept'[p].moved
                    /\ Covers(closure[p].of.url)
  OBVIOUS
<1> DEFINE of == closure[p].of
<1>1. PICK a \in Answers(of.hash) :
        /\ AnswerFault(a, of.hash) = "none"
        /\ staged' = With(staged, Place(p), a.body)
        /\ kept' = With(kept, p, a)
        /\ next
        /\ UNCHANGED <<request, closure, installed, links, cause>>
  BY DEF Fetch
<1>2. a.status = 200 /\ ~a.moved /\ a.body = of.hash
  BY <1>1, FaultlessIsPinned
<1>3. Covers(of.url)
  BY DEF Fetch
<1> QED BY <1>1, <1>2, <1>3 DEF With

\* A step that fetches nothing leaves what is fetched.
LEMMA StagedStays ==
  ASSUME UNCHANGED <<closure, staged, kept>>, NEW p
  PROVE  (InPlace(p) => InPlace(p)') /\ (WasAnswered(p) => WasAnswered(p)')
<1>1. Place(p)' = Place(p) /\ Covers(closure[p].of.url)' = Covers(closure[p].of.url)
  BY DEF Place, Covers
<1> QED BY <1>1 DEF InPlace, WasAnswered

\* The step that begins, and the fetches, keep the invariant.
LEMMA FetchesKeepFetched ==
  ASSUME FetchedSoFar, Begin \/ FetchRoot \/ \E p \in Deps : FetchWheel(p)
  PROVE  FetchedSoFar'
<1> USE DEF FetchedSoFar, Filled, Synced, Verified
<1>1. CASE Begin
  <2>1. (\E why : Refuse(why)) \/ step' = "root" BY <1>1 DEF Begin
  <2> QED BY <2>1, RefuseKeepsFetched
<1>2. CASE FetchRoot
  <2>1. Root \in Packages BY DEF Packages
  <2>2. Fetch(Root, step' = "wheels" /\ todo' = Deps)
    BY <1>2 DEF FetchRoot
  <2>3. CASE \E why : Refuse(why) BY <2>3, RefuseKeepsFetched
  <2>4. CASE ~\E why : Refuse(why)
    <3>1. /\ step' = "wheels" /\ todo' = Deps /\ closure' = closure
          /\ staged' = With(staged, Place(Root), closure[Root].of.hash)
          /\ DOMAIN kept' = DOMAIN kept \cup {Root}
          /\ kept'[Root].status = 200 /\ ~kept'[Root].moved
          /\ Covers(closure[Root].of.url)
      BY <2>1, <2>2, <2>4, FetchKeeps
    <3>2. Place(Root)' = Place(Root) BY <3>1 DEF Place
    <3>3. InPlace(Root)' BY <3>1, <3>2 DEF InPlace, With
    <3>4. WasAnswered(Root)' BY <3>1, <3>2 DEF WasAnswered, Covers, With
    <3> QED BY <3>1, <3>3, <3>4
  <2> QED BY <2>3, <2>4
<1>3. ASSUME NEW p \in Deps, FetchWheel(p) PROVE FetchedSoFar'
  <2>1. CASE \E why : Refuse(why) BY <2>1, RefuseKeepsFetched
  <2>2. CASE ~\E why : Refuse(why)
    <3>1. /\ step = "wheels" /\ p \in todo /\ p \in Packages
          /\ Fetch(p, UNCHANGED step /\ todo' = todo \ {p})
      BY <1>3, <2>2 DEF FetchWheel, Packages
    <3>2. /\ step' = "wheels" /\ todo' = todo \ {p} /\ closure' = closure
          /\ staged' = With(staged, Place(p), closure[p].of.hash)
          /\ DOMAIN kept' = DOMAIN kept \cup {p}
          /\ \A q \in DOMAIN kept \ {p} : kept'[q] = kept[q]
          /\ kept'[p].status = 200 /\ ~kept'[p].moved
          /\ Covers(closure[p].of.url)
      BY <2>2, <3>1, FetchKeeps
    <3>3. p # Root BY <1>3, BuildAssumption
    <3>4. /\ Place(p) # Place(Root) /\ Place(Root)' = Place(Root)
      BY <3>2, <3>3 DEF Place
    <3>5. InPlace(Root)'
      <4>1. InPlace(Root) BY <3>1
      <4> QED BY <3>2, <3>4, <4>1 DEF InPlace, With
    <3>6. ASSUME NEW q \in Packages, WasAnswered(q) \/ q = p PROVE WasAnswered(q)'
      <4>1. Place(q)' = Place(q) /\ Covers(closure[q].of.url)' = Covers(closure[q].of.url)
        BY <3>2 DEF Place, Covers
      <4>2. DOMAIN staged' = DOMAIN staged \cup {Place(p)}
        BY <3>2 DEF With
      <4>3. CASE q = p BY <3>2, <4>1, <4>2, <4>3 DEF WasAnswered
      <4>4. CASE q # p
        <5>1. WasAnswered(q) BY <3>6, <4>4
        <5> QED BY <3>2, <4>1, <4>2, <4>4, <5>1 DEF WasAnswered
      <4> QED BY <4>3, <4>4
    <3>7. WasAnswered(Root)' BY <3>1, <3>6 DEF Packages
    <3>8. \A q \in Deps : q \notin todo' => WasAnswered(q)'
      BY <3>1, <3>2, <3>6 DEF Packages
    <3> QED BY <3>1, <3>2, <3>5, <3>7, <3>8
  <2> QED BY <2>1, <2>2
<1> QED BY <1>1, <1>2, <1>3

\* What uv installs is not taken on its word, and nothing is fetched after it.
LEMMA BuildKeepsFetched ==
  ASSUME FetchedSoFar, BuildNext
  PROVE  FetchedSoFar'
<1> DEFINE Same == UNCHANGED <<closure, staged, kept>>
<1>0. Same => \A p : (InPlace(p) => InPlace(p)') /\ (WasAnswered(p) => WasAnswered(p)')
  BY StagedStays
<1> HIDE DEF Same
<1> USE DEF FetchedSoFar, Filled, Synced, Verified
<1>1. ASSUME NEW r \in Requests, Ask(r) PROVE FetchedSoFar'
  BY <1>1 DEF Ask
<1>2. CASE Pick
  <2>1. (\E why : Refuse(why)) \/ step' = "begin" BY <1>2 DEF Pick
  <2> QED BY <2>1, RefuseKeepsFetched
<1>3. CASE CreateVenv
  <2>1. (\E why : Refuse(why)) \/ (step' = "sync" /\ step = "wheels" /\ todo = {} /\ Same)
    BY <1>3 DEF CreateVenv, Same
  <2> QED BY <1>0, <2>1, RefuseKeepsFetched
<1>4. CASE Sync
  <2>1. CASE \E why : Refuse(why) BY <2>1, RefuseKeepsFetched
  <2>2. CASE ~\E why : Refuse(why)
    <3>1. /\ step' = "install" /\ step = "sync" /\ Same
          /\ \A p \in Deps : staged[Place(p)] = closure[p].of.hash
      BY <1>4, <2>2 DEF Sync, Same
    <3>2. \A p \in Deps : InPlace(p)
      BY <3>1 DEF InPlace, WasAnswered
    <3> QED BY <1>0, <3>1, <3>2
  <2> QED BY <2>1, <2>2
<1>5. CASE InstallRoot
  <2>1. (\E why : Refuse(why)) \/ (step' = "verify" /\ step = "install" /\ Same)
    BY <1>5 DEF InstallRoot, Same
  <2> QED BY <1>0, <2>1, RefuseKeepsFetched
<1>6. CASE VerifyEnvironment
  <2>1. \/ \E why : Refuse(why)
        \/ /\ step' = "interpreter" /\ step = "verify" /\ Same
           /\ \A p \in Packages : installed'[p] = "pinned"
    BY <1>6 DEF VerifyEnvironment, Expected, Same
  <2> QED BY <1>0, <2>1, RefuseKeepsFetched
<1>7. CASE CopyInterpreter
  <2>1. step' = "aliases" /\ step = "interpreter" /\ Same /\ UNCHANGED installed
    BY <1>7 DEF CopyInterpreter, Same
  <2> QED BY <1>0, <2>1
<1>8. ASSUME NEW n \in Aliases, RelinkAlias(n) PROVE FetchedSoFar'
  <2>1. step' = "aliases" /\ step = "aliases" /\ Same /\ UNCHANGED installed
    BY <1>8 DEF RelinkAlias, Same
  <2> QED BY <1>0, <2>1
<1>9. CASE Seal
  <2>1. \/ \E why : Refuse(why)
        \/ step' = "sealed" /\ step = "aliases" /\ Same /\ UNCHANGED installed
    BY <1>9 DEF Seal, Same
  <2> QED BY <1>0, <2>1, RefuseKeepsFetched
<1>10. CASE Break BY <1>10, RefuseKeepsFetched DEF Break
<1> QED BY <1>1, <1>2, <1>3, <1>4, <1>5, <1>6, <1>7, <1>8, <1>9, <1>10,
           FetchesKeepFetched DEF BuildNext, BuildStep

\* A step of Intake that is not the build's leaves it alone.
LEMMA BuildSteps == [IntakeNext]_intake => BuildNext \/ UNCHANGED build
  BY DEF IntakeNext, Inspecting, Building, Vouching, Answering, intake, BuildNext

\* The invariant holds in every reachable state.
THEOREM FetchedInvariance == IntakeSpec => []FetchedSoFar
<1>1. IntakeInit => FetchedSoFar
  BY DEF IntakeInit, BuildInit, FetchedSoFar, Filled, Synced, Verified
<1>2. FetchedSoFar /\ [IntakeNext]_intake => FetchedSoFar'
  <2>1. FetchedSoFar /\ UNCHANGED build => FetchedSoFar'
    BY StagedStays DEF build, FetchedSoFar
  <2> QED BY <2>1, BuildSteps, BuildKeepsFetched
<1> QED BY <1>1, <1>2, PTL DEF IntakeSpec

\* index.py:145-202, backends.py:347-428: a sealed tree is what was pinned.
THEOREM SealedAsPinnedHolds == IntakeSpec => []SealedAsPinned
<1>1. FetchedSoFar => SealedAsPinned
  BY DEF FetchedSoFar, Filled, Synced, Verified, InPlace, WasAnswered, SealedAsPinned,
         Packages
<1> QED BY <1>1, FetchedInvariance, PTL

-----------------------------------------------------------------------------
(* The links of a sealed tree.                                              *)

LinkTargets == LinkNames \cup {"file", "host"}

\* Once the interpreter is a file of the tree it stays one, whatever is relinked.
LinksIInv ==
  /\ links \in [LinkNames -> LinkTargets]
  /\ step \in {"aliases", "sealed"} => IsInside(Python0)
  /\ step = "sealed" => \A n \in LinkNames : ~Outside(n)

\* Where a chain has got after some hops is where it goes on from: a name that
\* the interpreter's chain passes leads where the interpreter does.
LEMMA PassedIsInside ==
  ASSUME IsInside(Python0)
  PROVE  /\ ~Outside(Python0) /\ ~Outside(Hop(Python0)) /\ ~Outside(Hop(Hop(Python0)))
         /\ ~Outside(Hop(Hop(Hop(Python0)))) /\ ~Outside(Hop(Hop(Hop(Hop(Python0)))))
         /\ ~Outside(Resolve(Python0))
<1>1. Hop(Resolve(Python0)) = Resolve(Python0) BY DEF Hop, IsInside
<1>2. Resolve(Python0) # "host" BY DEF IsInside, LinkNames, Aliases, Python0
<1> HIDE DEF Hop
<1> QED BY <1>1, <1>2 DEF Outside, Resolve

\* Rewriting a link that led outside does not disturb the interpreter's chain.
LEMMA RelinkKeepsInterpreter ==
  ASSUME links \in [LinkNames -> LinkTargets], IsInside(Python0),
         NEW name \in LinkNames, Outside(name), NEW to,
         links' = [links EXCEPT ![name] = to]
  PROVE  IsInside(Python0)'
<1> DEFINE h1 == Hop(Python0)
           h2 == Hop(h1)
           h3 == Hop(h2)
           h4 == Hop(h3)
           h5 == Hop(h4)
<1>1. h5 = Resolve(Python0) BY DEF Resolve
<1>2. /\ Python0 # name /\ h1 # name /\ h2 # name /\ h3 # name /\ h4 # name /\ h5 # name
  BY <1>1, PassedIsInside
<1>3. \A n : n # name =>
        (IF n \in LinkNames /\ links'[n] # "file" THEN links'[n] ELSE n) = Hop(n)
  BY DEF Hop
<1>4. h1' = h1 BY <1>2, <1>3, Zenon DEF Hop
<1>5. h2' = h2 BY <1>2, <1>3, <1>4, Zenon DEF Hop
<1>6. h3' = h3 BY <1>2, <1>3, <1>5, Zenon DEF Hop
<1>7. h4' = h4 BY <1>2, <1>3, <1>6, Zenon DEF Hop
<1>8. h5' = h5 BY <1>2, <1>3, <1>7, Zenon DEF Hop
<1>9. Resolve(Python0)' = h5 BY <1>8 DEF Resolve
<1>10. h5 \in LinkNames /\ links[h5] = "file" BY <1>1 DEF IsInside
<1> QED BY <1>2, <1>9, <1>10 DEF IsInside

\* The interpreter copied over its link is a file.
LEMMA CopyMakesAFile ==
  ASSUME links \in [LinkNames -> LinkTargets], Outside(Python0) \/ IsInside(Python0),
         links' = IF Outside(Python0) THEN [links EXCEPT ![Python0] = "file"] ELSE links
  PROVE  IsInside(Python0)'
<1>1. CASE Outside(Python0)
  <2>1. Python0 \in LinkNames BY DEF LinkNames, Aliases
  <2>2. links'[Python0] = "file" BY <1>1, <2>1
  <2>3. Hop(Python0)' = Python0 BY <2>2 DEF Hop
  <2>4. Resolve(Python0)' = Python0 BY <2>3 DEF Resolve
  <2> QED BY <2>1, <2>2, <2>4 DEF IsInside
<1>2. CASE ~Outside(Python0)
  BY <1>2 DEF IsInside, Resolve, Hop
<1> QED BY <1>1, <1>2

\* A step that touches no link keeps the invariant, if it does not seal.
LEMMA UntouchedKeepsLinks ==
  ASSUME LinksIInv, UNCHANGED links,
         step' \in {"aliases", "sealed"} => IsInside(Python0),
         step' = "sealed" => \A n \in LinkNames : ~Outside(n)
  PROVE  LinksIInv'
<1>1. IsInside(Python0)' = IsInside(Python0)
  BY DEF IsInside, Resolve, Hop
<1>2. ASSUME NEW n \in LinkNames PROVE Outside(n)' = Outside(n)
  <2> DEFINE h1 == Hop(n)
             h2 == Hop(h1)
             h3 == Hop(h2)
             h4 == Hop(h3)
             h5 == Hop(h4)
  <2>1. h1' = h1 BY Zenon DEF Hop
  <2>2. h2' = h2 BY <2>1, Zenon DEF Hop
  <2>3. h3' = h3 BY <2>2, Zenon DEF Hop
  <2>4. h4' = h4 BY <2>3, Zenon DEF Hop
  <2>5. h5' = h5 BY <2>4, Zenon DEF Hop
  <2> QED BY <2>5 DEF Outside, Resolve
<1> QED BY <1>1, <1>2 DEF LinksIInv

\* Every step of the build keeps the invariant.
LEMMA BuildKeepsLinks ==
  ASSUME LinksIInv, BuildNext
  PROVE  LinksIInv'
<1>0. ASSUME NEW why, Refuse(why) PROVE LinksIInv'
  BY <1>0, UntouchedKeepsLinks DEF Refuse
<1>1. ASSUME NEW r \in Requests, Ask(r) PROVE LinksIInv'
  BY <1>1, UntouchedKeepsLinks DEF Ask
<1>2. CASE Pick
  <2>1. (\E why : Refuse(why)) \/ (step' = "begin" /\ UNCHANGED links) BY <1>2 DEF Pick
  <2> QED BY <1>0, <2>1, UntouchedKeepsLinks
<1>3. CASE Begin
  <2>1. (\E why : Refuse(why)) \/ (step' = "root" /\ UNCHANGED links) BY <1>3 DEF Begin
  <2> QED BY <1>0, <2>1, UntouchedKeepsLinks
<1>4. CASE FetchRoot
  <2>1. (\E why : Refuse(why)) \/ (step' = "wheels" /\ UNCHANGED links)
    BY <1>4, FetchKeeps DEF FetchRoot, Packages
  <2> QED BY <1>0, <2>1, UntouchedKeepsLinks
<1>5. ASSUME NEW p \in Deps, FetchWheel(p) PROVE LinksIInv'
  <2>1. (\E why : Refuse(why)) \/ (step' = "wheels" /\ UNCHANGED links)
    BY <1>5, FetchKeeps DEF FetchWheel, Packages
  <2> QED BY <1>0, <2>1, UntouchedKeepsLinks
<1>6. CASE CreateVenv
  <2>1. \/ \E why : Refuse(why)
        \/ step' = "sync" /\ links' \in [LinkNames -> LinkTargets]
    BY <1>6, BuildAssumption DEF CreateVenv, LinkTargets
  <2> QED BY <1>0, <2>1 DEF LinksIInv
<1>7. CASE Sync \/ InstallRoot \/ VerifyEnvironment
  <2>1. \/ \E why : Refuse(why)
        \/ step' \in {"install", "verify", "interpreter"} /\ UNCHANGED links
    BY <1>7 DEF Sync, InstallRoot, VerifyEnvironment
  <2> QED BY <1>0, <2>1, UntouchedKeepsLinks
<1>8. CASE CopyInterpreter
  <2>1. IsInside(Python0)' BY <1>8, CopyMakesAFile DEF CopyInterpreter, LinksIInv
  <2>2. links' \in [LinkNames -> LinkTargets] /\ step' = "aliases"
    BY <1>8 DEF CopyInterpreter, LinksIInv, LinkTargets
  <2> QED BY <2>1, <2>2 DEF LinksIInv
<1>9. ASSUME NEW n \in Aliases, RelinkAlias(n) PROVE LinksIInv'
  <2>0. n \in LinkNames /\ step = "aliases" /\ step' = "aliases"
    BY <1>9 DEF RelinkAlias, LinkNames
  <2>1. CASE links[n] # "file" /\ Outside(n)
    <3>1. links' = [links EXCEPT ![n] = Python0] BY <1>9, <2>1 DEF RelinkAlias
    <3>2. IsInside(Python0)'
      BY <2>0, <2>1, <3>1, RelinkKeepsInterpreter DEF LinksIInv
    <3>3. links' \in [LinkNames -> LinkTargets]
      BY <3>1 DEF LinksIInv, LinkTargets, LinkNames, Aliases
    <3> QED BY <2>0, <3>2, <3>3 DEF LinksIInv
  <2>2. CASE ~(links[n] # "file" /\ Outside(n))
    <3>1. links' = links BY <1>9, <2>2 DEF RelinkAlias
    <3> QED BY <2>0, <3>1, UntouchedKeepsLinks DEF LinksIInv
  <2> QED BY <2>1, <2>2
<1>10. CASE Seal
  <2>1. \/ \E why : Refuse(why)
        \/ step = "aliases" /\ step' = "sealed" /\ Escapes = {} /\ UNCHANGED links
    BY <1>10 DEF Seal
  <2>2. Escapes = {} => \A n \in LinkNames : ~Outside(n) BY DEF Escapes
  <2> QED BY <1>0, <2>1, <2>2, UntouchedKeepsLinks DEF LinksIInv
<1>11. CASE Break BY <1>0, <1>11 DEF Break
<1> QED BY <1>1, <1>2, <1>3, <1>4, <1>5, <1>6, <1>7, <1>8, <1>9, <1>10, <1>11
        DEF BuildNext, BuildStep

\* The invariant holds in every reachable state.
THEOREM LinksInvariance == IntakeSpec => []LinksIInv
<1>1. IntakeInit => LinksIInv
  BY DEF IntakeInit, BuildInit, LinksIInv, LinkTargets
<1>2. LinksIInv /\ [IntakeNext]_intake => LinksIInv'
  <2>1. LinksIInv /\ UNCHANGED build => LinksIInv'
    BY UntouchedKeepsLinks DEF build, LinksIInv
  <2> QED BY <2>1, BuildSteps, BuildKeepsLinks
<1> QED BY <1>1, <1>2, PTL DEF IntakeSpec

\* backends.py:59-107 and 432-449: no link of a sealed tree leaves it, and its
\* interpreter is a file of it.
THEOREM SealedTreeIsClosedHolds == IntakeSpec => []SealedTreeIsClosed
<1>1. LinksIInv => SealedTreeIsClosed BY DEF LinksIInv, SealedTreeIsClosed
<1> QED BY <1>1, LinksInvariance, PTL

-----------------------------------------------------------------------------
(* A registration bundle.                                                   *)

\* A segment of a text that parses is what the assignment says of its name.
LEMMA AssignmentOfSegment ==
  ASSUME NEW text, Parses(text), NEW seg \in ToSet(text)
  PROVE  /\ seg[1] \in DOMAIN Assignment(text)
         /\ Assignment(text)[seg[1]] = seg[2]
<1>1. seg[1] \in {s[1] : s \in ToSet(text)} OBVIOUS
<1>2. \A other \in ToSet(text) : other[1] = seg[1] => other = seg
  BY DEF ToSet, Parses
<1>3. (CHOOSE s \in ToSet(text) : s[1] = seg[1]) = seg BY <1>2
<1> QED BY <1>1, <1>3 DEF Assignment

\* A bucket spelled canonically is a point of the cube, and its segments are its
\* assignment.
LEMMA CanonicalIsInCube ==
  ASSUME NEW dims, NEW b, b = Canonical(dims, b), b # Malformed
  PROVE  /\ b \in Cube(dims) /\ DOMAIN b = DOMAIN dims
         /\ \A i \in DOMAIN dims : b[i] = <<dims[i][1], Assignment(b)[dims[i][1]]>>
<1> DEFINE asg == Assignment(b)
           c == [i \in DOMAIN dims |-> asg[dims[i][1]]]
<1>1. /\ \A d \in ToSet(dims) : asg[d[1]] \in d[2]
      /\ b = [i \in DOMAIN dims |-> <<dims[i][1], asg[dims[i][1]]>>]
  BY DEF Canonical, BucketId
<1> HIDE DEF asg
<1>2. \A i \in DOMAIN dims : dims[i] \in ToSet(dims) BY DEF ToSet
<1>3. \A i \in DOMAIN dims : c[i] \in dims[i][2] BY <1>1, <1>2
<1>4. c \in [DOMAIN dims -> UNION {d[2] : d \in ToSet(dims)}] BY <1>2, <1>3
<1>5. b = [i \in DOMAIN dims |-> <<dims[i][1], c[i]>>] BY <1>1
<1> HIDE DEF c
<1>6. b \in Cube(dims) BY <1>3, <1>4, <1>5 DEF Cube
<1> QED BY <1>1, <1>6 DEF asg

\* BucketSelector.matches: a canonical bucket that a selector matches is one of
\* those the selector's text claims.
LEMMA MatchedIsClaimed ==
  ASSUME NEW dims, NEW s, NEW b,
         ParseSelector(dims, s) # Malformed, b = Canonical(dims, b), b # Malformed,
         Matches(ParseSelector(dims, s), b)
  PROVE  b \in Claimed(dims, s)
<1>1. /\ Parses(s) /\ DOMAIN Assignment(s) = NamesOfDims(dims)
      /\ ParseSelector(dims, s) = [i \in DOMAIN dims |-> <<dims[i][1], Assignment(s)[dims[i][1]]>>]
  BY DEF ParseSelector
<1>2. ASSUME NEW seg \in ToSet(s), seg[2] # Star
      PROVE  \E t \in ToSet(b) : t[1] = seg[1] /\ t[2] = seg[2]
  <2>1. seg[1] \in NamesOfDims(dims) /\ Assignment(s)[seg[1]] = seg[2]
    BY <1>1, AssignmentOfSegment
  <2>2. PICK i \in DOMAIN dims : dims[i][1] = seg[1] BY <2>1 DEF NamesOfDims, ToSet
  <2>3. Assignment(b)[dims[i][1]] = seg[2] BY <1>1, <1>2, <2>1, <2>2 DEF Matches
  <2>4. i \in DOMAIN b /\ b[i] = <<seg[1], seg[2]>>
    BY <2>2, <2>3, CanonicalIsInCube
  <2>5. b[i] \in ToSet(b) BY <2>4 DEF ToSet
  <2> QED BY <2>4, <2>5
<1>3. b \in Cube(dims) BY CanonicalIsInCube
<1> QED BY <1>2, <1>3 DEF Claimed

RegistrationNext ==
  \/ RegistrationStep
  \/ \E d \in Distributions : Open(d)
  \/ \E e \in Edits : EditFile(e)

AfterDefinition == {"predecessor", "hash_vocabulary", "parse_vocabulary", "classifier", "fixtures"}
AfterVocabulary == {"classifier", "fixtures"}
Reading == {"definition"} \cup AfterDefinition
AfterManifest == {"next", "registered"} \cup Reading

\* The checks one interface has passed: after its definition, and after its fixtures.
DefinitionLinked(i) ==
  /\ Definition(i) \in DOMAIN bundle
  /\ Cardinality(Matching(i)) = 1 /\ Implementation(i).digest = bundle[Definition(i)]
FixturesLinked(i) ==
  /\ {Vocabulary(i), Fixtures(i)} \subseteq DOMAIN bundle
  /\ RowsAgree(Rows(i), bundle[Vocabulary(i)].dims)
  /\ {c[1] : c \in Implementation(i).claims} = Implementation(i).declared
  /\ ClaimsCovered(Implementation(i).claims, Rows(i), bundle[Vocabulary(i)].dims)

\* Interfaces are read one at a time, each to its end before the next.
InterfacesRead ==
  at.label \in AfterManifest =>
    /\ Manifest \in DOMAIN bundle
    /\ \A i \in Exports \ left :
         (at.label \in Reading => i # at.i) => DefinitionLinked(i) /\ FixturesLinked(i)

\* The interface being read.
CurrentRead ==
  /\ at.label \in Reading => at.i \in Interfaces
  /\ \A i \in Interfaces : at.i = i =>
       /\ at.label \in AfterDefinition => DefinitionLinked(i)
       /\ at.label \in AfterVocabulary => Vocabulary(i) \in DOMAIN bundle

\* What was hashed and is not parsed yet is as it was, or the directory has changed.
Unparsed ==
  edits = 0 =>
    /\ at.label = "parse_manifest" => files[Manifest] = dist.refs[Manifest]
    /\ \A i \in Interfaces : at.label = "parse_vocabulary" /\ at.i = i =>
         files[Vocabulary(i)] = dist.refs[Vocabulary(i)]

RegistrationIInv ==
  /\ edits \in Nat
  /\ at.label = "idle" => DOMAIN bundle = {}
  /\ at.label \notin {"idle", "rejected"} => dist \in Distributions
  /\ at.label \in {"hash_manifest", "parse_manifest"} => left = Interfaces
  /\ at.label = "registered" => left \cap Exports = {}
  /\ PartsAreCommitted /\ Unparsed /\ InterfacesRead /\ CurrentRead

\* No path is of two interfaces.
LEMMA PathsApart ==
  ASSUME NEW i, NEW p \in PathsOf(i)
  PROVE  p # Manifest /\ p[2] = i
<1>1. p[1] \in {"definition", "predecessor", "vocabulary", "classifier", "fixtures"} /\ p[2] = i
  BY DEF PathsOf, Definition, Old, Vocabulary, Classifier, Fixtures
<1>2. Manifest[1] = "manifest" BY DEF Manifest
<1> QED BY <1>1, <1>2

\* An interface's paths differ.
LEMMA KindsApart ==
  ASSUME NEW i
  PROVE  /\ Definition(i) # Vocabulary(i) /\ Definition(i) # Fixtures(i)
         /\ Vocabulary(i) # Fixtures(i)
<1>1. /\ Definition(i)[1] = "definition" /\ Vocabulary(i)[1] = "vocabulary"
      /\ Fixtures(i)[1] = "fixtures"
  BY DEF Definition, Vocabulary, Fixtures
<1> QED BY <1>1

\* Nothing an interface's checks looked at is touched: they still hold.
LEMMA LinksStay ==
  ASSUME NEW i,
         \A p \in DOMAIN bundle \cap ({Manifest} \cup PathsOf(i)) :
           p \in DOMAIN bundle' /\ bundle'[p] = bundle[p],
         Manifest \in DOMAIN bundle
  PROVE  /\ DefinitionLinked(i) => DefinitionLinked(i)'
         /\ FixturesLinked(i) => FixturesLinked(i)'
<1>1. bundle'[Manifest] = bundle[Manifest] OBVIOUS
<1>2. Matching(i)' = Matching(i) BY <1>1 DEF Matching
<1>3. Implementation(i)' = Implementation(i) BY <1>2 DEF Implementation
<1>4. ASSUME DefinitionLinked(i) PROVE DefinitionLinked(i)'
  <2>1. Definition(i) \in DOMAIN bundle' /\ bundle'[Definition(i)] = bundle[Definition(i)]
    BY <1>4 DEF DefinitionLinked, PathsOf
  <2> QED BY <1>2, <1>3, <1>4, <2>1 DEF DefinitionLinked
<1>5. ASSUME FixturesLinked(i) PROVE FixturesLinked(i)'
  <2>1. /\ Vocabulary(i) \in DOMAIN bundle' /\ bundle'[Vocabulary(i)] = bundle[Vocabulary(i)]
        /\ Fixtures(i) \in DOMAIN bundle' /\ Rows(i)' = Rows(i)
    BY <1>5 DEF FixturesLinked, PathsOf, Rows
  <2> QED BY <1>3, <1>5, <2>1 DEF FixturesLinked
<1> QED BY <1>4, <1>5

\* Keep writes one path and leaves the others.
LEMMA KeepWritesOne ==
  ASSUME NEW path, Keep(path)
  PROVE  /\ path \in DOMAIN bundle' /\ bundle'[path] = files[path]
         /\ \A p \in DOMAIN bundle \ {path} : p \in DOMAIN bundle' /\ bundle'[p] = bundle[p]
         /\ DOMAIN bundle' = DOMAIN bundle \cup {path}
  BY DEF Keep

\* What is kept is committed if it is what the descriptor names, or if it was read
\* twice and the directory has changed.
LEMMA KeepCommits ==
  ASSUME NEW path, Keep(path), PartsAreCommitted, UNCHANGED <<dist, edits>>,
         files[path] # dist.refs[path] => edits > 0 /\ path[1] \in {"manifest", "vocabulary"}
  PROVE  PartsAreCommitted'
<1>1. ASSUME NEW p \in DOMAIN bundle', bundle'[p] # dist.refs[p]
      PROVE  edits > 0 /\ p[1] \in {"manifest", "vocabulary"}
  <2>1. CASE p = path BY <1>1, <2>1, KeepWritesOne
  <2>2. CASE p # path
    <3>1. DOMAIN bundle' = DOMAIN bundle \cup {path} BY KeepWritesOne
    <3>2. p \in DOMAIN bundle \ {path} BY <1>1, <2>2, <3>1
    <3>3. bundle'[p] = bundle[p] BY <3>2, KeepWritesOne
    <3> QED BY <1>1, <3>2, <3>3 DEF PartsAreCommitted
  <2> QED BY <2>1, <2>2
<1> QED BY <1>1 DEF PartsAreCommitted

\* A step that only moves on, or refuses.
LEMMA MoveKeepsRegistration ==
  ASSUME RegistrationIInv, UNCHANGED <<left, dist, files, bundle, edits>>,
         NEW label, NEW to, Goto(label, to), at.label # "idle", label # "idle",
         label \notin {"hash_manifest", "next"},
         label # "rejected" => at.label # "rejected",
         label = "parse_manifest" => at.label = "hash_manifest" /\ Reads(Manifest),
         label = "parse_vocabulary" => Reads(Vocabulary(to)),
         label = "registered" => at.label = "next" /\ left \cap Exports = {},
         label \in Reading => at.label \in Reading /\ at.i = to,
         label \in AfterDefinition => at.label \in AfterDefinition,
         label \in AfterVocabulary => at.label \in AfterVocabulary
  PROVE  RegistrationIInv'
<1>1. at' = At(label, to) /\ at'.label = label /\ at'.i = to BY DEF Goto, At
<1>2. \A i : DefinitionLinked(i)' = DefinitionLinked(i) /\ FixturesLinked(i)' = FixturesLinked(i)
  BY Zenon DEF DefinitionLinked, FixturesLinked, Matching, Implementation, Rows
<1>3. PartsAreCommitted' BY DEF RegistrationIInv, PartsAreCommitted
<1>4. Unparsed'
  BY <1>1 DEF Unparsed, At, Reads
<1>5. InterfacesRead'
  BY <1>1, <1>2 DEF RegistrationIInv, InterfacesRead, AfterManifest, Exports, Reading, AfterDefinition
<1>6. CurrentRead'
  BY <1>1, <1>2 DEF RegistrationIInv, CurrentRead, AfterVocabulary, Reading, AfterDefinition
<1> QED BY <1>1, <1>3, <1>4, <1>5, <1>6 DEF RegistrationIInv, Exports

\* A step that keeps what was read and moves on.
LEMMA KeepKeepsRegistration ==
  ASSUME RegistrationIInv, UNCHANGED <<left, dist, files, edits>>, at.label \in Reading,
         NEW path, Keep(path), path \in PathsOf(at.i),
         files[path] # dist.refs[path] => edits > 0 /\ path[1] \in {"manifest", "vocabulary"},
         NEW label, Goto(label, IF label = "next" THEN NoInterface ELSE at.i),
         \/ /\ label = "predecessor" /\ path = Definition(at.i)
            /\ Cardinality(Matching(at.i)) = 1
            /\ Implementation(at.i).digest = files[Definition(at.i)]
         \/ /\ label = "classifier" /\ path = Vocabulary(at.i) /\ at.label \in AfterDefinition
         \/ /\ label = "next" /\ path = Fixtures(at.i) /\ at.label \in AfterVocabulary
            /\ RowsAgree(files[Fixtures(at.i)], bundle[Vocabulary(at.i)].dims)
            /\ {c[1] : c \in Implementation(at.i).claims} = Implementation(at.i).declared
            /\ ClaimsCovered(Implementation(at.i).claims, files[Fixtures(at.i)],
                             bundle[Vocabulary(at.i)].dims)
  PROVE  RegistrationIInv'
<1>1. PICK i \in Interfaces : at.i = i BY DEF RegistrationIInv, CurrentRead
<1>2. at'.label = label /\ (label # "next" => at'.i = i) BY <1>1 DEF Goto, At
<1>3. Manifest \in DOMAIN bundle
  BY DEF RegistrationIInv, InterfacesRead, AfterManifest
<1>4. path # Manifest BY PathsApart
<1>5. \A j : j # i => path \notin PathsOf(j) BY <1>1, PathsApart
<1>6. /\ path \in DOMAIN bundle' /\ bundle'[path] = files[path]
      /\ \A p \in DOMAIN bundle : p # path => p \in DOMAIN bundle' /\ bundle'[p] = bundle[p]
  BY KeepWritesOne
<1>7. ASSUME NEW j, j # i, DefinitionLinked(j), FixturesLinked(j)
      PROVE  DefinitionLinked(j)' /\ FixturesLinked(j)'
  <2>1. \A p \in DOMAIN bundle \cap ({Manifest} \cup PathsOf(j)) :
          p \in DOMAIN bundle' /\ bundle'[p] = bundle[p]
    BY <1>4, <1>5, <1>6, <1>7
  <2> QED BY <1>3, <1>7, <2>1, LinksStay
<1>8. Matching(i)' = Matching(i) BY <1>3, <1>4, <1>6 DEF Matching
<1>9. Implementation(i)' = Implementation(i) BY <1>8 DEF Implementation
<1>10. PartsAreCommitted' BY KeepCommits DEF RegistrationIInv
<1>11. Unparsed' BY <1>2 DEF Unparsed
<1>12. DefinitionLinked(i)'
  <2>1. CASE label = "predecessor"
    <3>1. path = Definition(i) BY <1>1, <2>1
    <3> QED BY <1>1, <1>6, <1>8, <1>9, <2>1, <3>1 DEF DefinitionLinked
  <2>2. CASE label # "predecessor"
    <3>1. at.label \in AfterDefinition /\ path \in {Vocabulary(i), Fixtures(i)}
      BY <1>1, <2>2 DEF AfterVocabulary, AfterDefinition
    <3>2. DefinitionLinked(i) BY <1>1, <3>1 DEF RegistrationIInv, CurrentRead
    <3>3. path # Definition(i) BY <3>1, KindsApart
    <3> QED BY <1>6, <1>8, <1>9, <3>2, <3>3 DEF DefinitionLinked
  <2> QED BY <2>1, <2>2
<1>13. ASSUME label = "next" PROVE FixturesLinked(i)'
  <2>0. path = Fixtures(i) /\ at.label \in AfterVocabulary BY <1>1, <1>13
  <2>1. path = Fixtures(i) /\ Vocabulary(i) \in DOMAIN bundle /\ Vocabulary(i) # path
    BY <1>1, <2>0, KindsApart DEF RegistrationIInv, CurrentRead
  <2>2. Rows(i)' = files[Fixtures(i)] /\ bundle'[Vocabulary(i)] = bundle[Vocabulary(i)]
    BY <1>6, <2>1 DEF Rows
  <2>3. Vocabulary(i) \in DOMAIN bundle' /\ Fixtures(i) \in DOMAIN bundle' BY <1>6, <2>1
  <2> QED BY <1>1, <1>9, <1>13, <2>2, <2>3 DEF FixturesLinked
<1>14. InterfacesRead'
  <2>1. Manifest \in DOMAIN bundle' BY <1>3, <1>4, <1>6
  <2>2. ASSUME NEW j \in Exports \ left, label \in Reading => j # i
        PROVE  DefinitionLinked(j)' /\ FixturesLinked(j)'
    <3>1. CASE j = i BY <1>12, <1>13, <2>2, <3>1 DEF Reading, AfterDefinition
    <3>2. CASE j # i
      <4>1. DefinitionLinked(j) /\ FixturesLinked(j)
        BY <1>1, <2>2, <3>2 DEF RegistrationIInv, InterfacesRead, AfterManifest
      <4> QED BY <1>7, <3>2, <4>1
    <3> QED BY <3>1, <3>2
  <2>3. label = "next" \/ label \in Reading BY DEF Reading, AfterDefinition
  <2> QED BY <1>2, <2>1, <2>2, <2>3 DEF InterfacesRead, Exports, Reading, AfterDefinition
<1>15. CurrentRead'
  <2>1. label = "classifier" => Vocabulary(i) \in DOMAIN bundle' BY <1>1, <1>6
  <2> QED BY <1>2, <1>12, <2>1 DEF CurrentRead, Reading, AfterDefinition, AfterVocabulary
<1>16. dist \in Distributions BY DEF RegistrationIInv, Reading, AfterDefinition
<1> QED BY <1>2, <1>10, <1>11, <1>14, <1>15, <1>16 DEF RegistrationIInv

\* Every step of the registration keeps its invariant.
LEMMA StepKeepsRegistration ==
  ASSUME RegistrationIInv, RegistrationNext
  PROVE  RegistrationIInv'
<1> USE DEF At
<1>0. ASSUME Reject, at.label # "idle" PROVE RegistrationIInv'
  <2>1. Goto("rejected", NoInterface) /\ UNCHANGED <<left, dist, files, bundle, edits>>
    BY <1>0 DEF Reject, Goto
  <2>2. "rejected" \notin Reading \cup AfterDefinition \cup AfterVocabulary
    BY DEF Reading, AfterDefinition, AfterVocabulary
  <2> QED BY <1>0, <2>1, <2>2, MoveKeepsRegistration
<1>1. ASSUME NEW e \in Edits, EditFile(e) PROVE RegistrationIInv'
  <2>1. \A i : DefinitionLinked(i)' = DefinitionLinked(i) /\ FixturesLinked(i)' = FixturesLinked(i)
    BY <1>1, Zenon DEF EditFile, DefinitionLinked, FixturesLinked, Matching, Implementation, Rows
  <2>2. /\ at' = at /\ left' = left /\ dist' = dist /\ bundle' = bundle
        /\ edits' \in Nat /\ edits' > 0 /\ at.label \notin {"idle", "rejected"}
    <3>1. edits \in Nat BY DEF RegistrationIInv
    <3> QED BY <1>1, <3>1 DEF EditFile
  <2>3. PartsAreCommitted' /\ Unparsed'
    BY <2>2 DEF RegistrationIInv, PartsAreCommitted, Unparsed
  <2>5. InterfacesRead' /\ CurrentRead'
    BY <2>1, <2>2 DEF RegistrationIInv, InterfacesRead, CurrentRead, Exports
  <2> QED BY <2>2, <2>3, <2>5 DEF RegistrationIInv, Exports
<1>2. ASSUME NEW d \in Distributions, Open(d) PROVE RegistrationIInv'
  <2>1. at'.label \in {"hash_manifest", "rejected"} BY <1>2 DEF Open
  <2>2. DOMAIN bundle' = {} BY <1>2 DEF Open, RegistrationIInv
  <2>3. PartsAreCommitted' BY <2>2 DEF PartsAreCommitted
  <2>4. Unparsed' /\ InterfacesRead' /\ CurrentRead'
    BY <2>1 DEF Unparsed, InterfacesRead, CurrentRead, AfterManifest, Reading,
       AfterDefinition, AfterVocabulary
  <2> QED BY <1>2, <2>1, <2>2, <2>3, <2>4 DEF Open, RegistrationIInv
<1>3. CASE HashManifest
  <2>1. CASE Reads(Manifest)
    <3>1. Step("parse_manifest", NoInterface) BY <1>3, <2>1 DEF HashManifest
    <3> QED BY <1>3, <2>1, <3>1, MoveKeepsRegistration
            DEF HashManifest, Step, Reading, AfterDefinition, AfterVocabulary
  <2>2. CASE ~Reads(Manifest) BY <1>0, <1>3, <2>2 DEF HashManifest
  <2> QED BY <2>1, <2>2
<1>4. CASE ParseManifest
  <2>1. Reject \/ (Keep(Manifest) /\ Goto("next", NoInterface) /\ UNCHANGED <<left, dist, files, edits>>)
    BY <1>4 DEF ParseManifest
  <2>2. at.label = "parse_manifest" BY <1>4 DEF ParseManifest
  <2>3. ASSUME Keep(Manifest), Goto("next", NoInterface), UNCHANGED <<left, dist, files, edits>>
        PROVE  RegistrationIInv'
    <3>1. at'.label = "next" BY <2>3 DEF Goto
    <3>2. left = Interfaces /\ dist \in Distributions /\ edits \in Nat
      BY <2>2 DEF RegistrationIInv
    <3>3. Exports \ left = {} BY <3>2, RegistrationAssumption DEF Exports
    <3>4. PartsAreCommitted'
      <4>1. files[Manifest] # dist.refs[Manifest] => edits > 0
        BY <2>2, <3>2 DEF RegistrationIInv, Unparsed
      <4>2. Manifest[1] = "manifest" BY DEF Manifest
      <4> QED BY <2>3, <4>1, <4>2, KeepCommits DEF RegistrationIInv
    <3>5. InterfacesRead' /\ CurrentRead' /\ Unparsed'
      BY <2>3, <3>1, <3>3, KeepWritesOne DEF InterfacesRead, CurrentRead, Unparsed, Exports,
         Reading, AfterDefinition, AfterVocabulary
    <3> QED BY <2>3, <3>1, <3>2, <3>4, <3>5 DEF RegistrationIInv
  <2> QED BY <1>0, <2>1, <2>2, <2>3
<1>5. ASSUME NEW i \in Interfaces, NextInterface(i) PROVE RegistrationIInv'
  <2>1. /\ at.label = "next" /\ at'.label = "definition" /\ at'.i = i /\ left' = left \ {i}
        /\ dist' = dist /\ files' = files /\ bundle' = bundle /\ edits' = edits
    BY <1>5 DEF NextInterface, Goto
  <2>2. \A j : DefinitionLinked(j)' = DefinitionLinked(j) /\ FixturesLinked(j)' = FixturesLinked(j)
    BY <2>1, Zenon DEF DefinitionLinked, FixturesLinked, Matching, Implementation, Rows
  <2>3. PartsAreCommitted' /\ Unparsed' BY <2>1 DEF RegistrationIInv, PartsAreCommitted, Unparsed
  <2>4. InterfacesRead'
    <3>1. InterfacesRead BY DEF RegistrationIInv
    <3>2. Exports' = Exports BY <2>1 DEF Exports
    <3>3. "definition" \in Reading /\ "next" \notin Reading /\ "next" \in AfterManifest
      BY DEF Reading, AfterDefinition, AfterManifest
    <3>4. /\ Manifest \in DOMAIN bundle
          /\ \A j \in Exports \ left : DefinitionLinked(j) /\ FixturesLinked(j)
      BY <2>1, <3>1, <3>3 DEF InterfacesRead
    <3> QED BY <2>1, <2>2, <3>2, <3>3, <3>4 DEF InterfacesRead
  <2>5. CurrentRead' BY <2>1 DEF CurrentRead, AfterDefinition, AfterVocabulary
  <2> QED BY <2>1, <2>3, <2>4, <2>5 DEF RegistrationIInv
<1>6. CASE ReadDefinition
  <2>0. at.label = "definition" BY <1>6 DEF ReadDefinition
  <2>1. \/ Reject
        \/ /\ Keep(Definition(at.i)) /\ Goto("predecessor", at.i)
           /\ Reads(Definition(at.i)) /\ Cardinality(Matching(at.i)) = 1
           /\ Implementation(at.i).digest = files[Definition(at.i)]
           /\ UNCHANGED <<left, dist, files, edits>>
    BY <1>6 DEF ReadDefinition
  <2>2. Definition(at.i) \in PathsOf(at.i) /\ at.label \in Reading
    BY <2>0 DEF PathsOf, Reading
  <2> QED BY <1>0, <2>0, <2>1, <2>2, KeepKeepsRegistration DEF Reads
<1>7. CASE ReadPredecessor
  <2>0. at.label = "predecessor" BY <1>7 DEF ReadPredecessor
  <2>1. Reject \/ Step("hash_vocabulary", at.i) BY <1>7 DEF ReadPredecessor
  <2> QED BY <1>0, <2>0, <2>1, MoveKeepsRegistration
          DEF Step, Reading, AfterDefinition, AfterVocabulary
<1>8. CASE HashVocabulary
  <2>0. at.label = "hash_vocabulary" BY <1>8 DEF HashVocabulary
  <2>1. Reject \/ (Step("parse_vocabulary", at.i) /\ Reads(Vocabulary(at.i)))
    BY <1>8 DEF HashVocabulary
  <2> QED BY <1>0, <2>0, <2>1, MoveKeepsRegistration
          DEF Step, Reading, AfterDefinition, AfterVocabulary
<1>9. CASE ParseVocabulary
  <2>0. at.label = "parse_vocabulary" BY <1>9 DEF ParseVocabulary
  <2>1. \/ Reject
        \/ /\ Keep(Vocabulary(at.i)) /\ Goto("classifier", at.i)
           /\ UNCHANGED <<left, dist, files, edits>>
    BY <1>9 DEF ParseVocabulary
  <2>2. Vocabulary(at.i) \in PathsOf(at.i) /\ at.label \in Reading /\ at.label \in AfterDefinition
    BY <2>0 DEF PathsOf, Reading, AfterDefinition
  <2>3. files[Vocabulary(at.i)] # dist.refs[Vocabulary(at.i)] => edits > 0
    <3>1. Unparsed /\ edits \in Nat /\ at.i \in Interfaces
      BY <2>2 DEF RegistrationIInv, CurrentRead
    <3> QED BY <2>0, <3>1 DEF Unparsed
  <2>4. Vocabulary(at.i)[1] = "vocabulary" BY DEF Vocabulary
  <2> QED BY <1>0, <2>0, <2>1, <2>2, <2>3, <2>4, KeepKeepsRegistration
<1>10. CASE ReadClassifier
  <2>0. at.label = "classifier" BY <1>10 DEF ReadClassifier
  <2>1. Reject \/ Step("fixtures", at.i) BY <1>10 DEF ReadClassifier
  <2> QED BY <1>0, <2>0, <2>1, MoveKeepsRegistration
          DEF Step, Reading, AfterDefinition, AfterVocabulary
<1>11. CASE ReadFixtures
  <2>0. at.label = "fixtures" BY <1>11 DEF ReadFixtures
  <2>1. \/ Reject
        \/ /\ Keep(Fixtures(at.i)) /\ Goto("next", NoInterface) /\ Reads(Fixtures(at.i))
           /\ RowsAgree(files[Fixtures(at.i)], bundle[Vocabulary(at.i)].dims)
           /\ {c[1] : c \in Implementation(at.i).claims} = Implementation(at.i).declared
           /\ ClaimsCovered(Implementation(at.i).claims, files[Fixtures(at.i)],
                            bundle[Vocabulary(at.i)].dims)
           /\ UNCHANGED <<left, dist, files, edits>>
    BY <1>11 DEF ReadFixtures, FixturesRead
  <2>2. Fixtures(at.i) \in PathsOf(at.i) /\ at.label \in Reading /\ at.label \in AfterVocabulary
    BY <2>0 DEF PathsOf, Reading, AfterDefinition, AfterVocabulary
  <2> QED BY <1>0, <2>0, <2>1, <2>2, KeepKeepsRegistration DEF Reads
<1>12. CASE CheckDistribution
  <2>0. at.label = "next" /\ left \cap Exports = {} BY <1>12 DEF CheckDistribution
  <2>1. Reject \/ Step("registered", NoInterface) BY <1>12 DEF CheckDistribution
  <2> QED BY <1>0, <2>0, <2>1, MoveKeepsRegistration
          DEF Step, Reading, AfterDefinition, AfterVocabulary
<1> QED BY <1>1, <1>2, <1>3, <1>4, <1>5, <1>6, <1>7, <1>8, <1>9, <1>10, <1>11, <1>12
        DEF RegistrationNext, RegistrationStep

\* The invariant holds in every reachable state.
THEOREM RegistrationInvariance == IntakeSpec => []RegistrationIInv
<1>1. IntakeInit => RegistrationIInv
  <2> SUFFICES ASSUME RegistrationInit PROVE RegistrationIInv BY DEF IntakeInit
  <2>1. at.label = "idle" /\ edits = 0 BY DEF RegistrationInit, At
  <2>2. DOMAIN bundle = {} BY DEF RegistrationInit
  <2>3. PartsAreCommitted BY <2>2 DEF PartsAreCommitted
  <2> QED BY <2>1, <2>2, <2>3 DEF RegistrationIInv, Unparsed, InterfacesRead, CurrentRead,
             AfterManifest, Reading, AfterDefinition, AfterVocabulary
<1>2. RegistrationIInv /\ [IntakeNext]_intake => RegistrationIInv'
  <2>1. [IntakeNext]_intake => RegistrationNext \/ UNCHANGED registration
    BY DEF IntakeNext, Inspecting, Building, Vouching, Answering, intake, RegistrationNext
  <2>2. ASSUME RegistrationIInv, UNCHANGED registration PROVE RegistrationIInv'
    <3>1. \A i : /\ DefinitionLinked(i)' = DefinitionLinked(i)
                 /\ FixturesLinked(i)' = FixturesLinked(i)
      BY <2>2, Zenon DEF registration, DefinitionLinked, FixturesLinked, Matching,
         Implementation, Rows
    <3>2. at' = at /\ left' = left /\ dist' = dist /\ files' = files /\ bundle' = bundle
          /\ edits' = edits
      BY <2>2 DEF registration
    <3> QED BY <2>2, <3>1, <3>2 DEF RegistrationIInv, PartsAreCommitted, Unparsed,
               InterfacesRead, CurrentRead, Exports
  <2> QED BY <2>1, <2>2, StepKeepsRegistration
<1> QED BY <1>1, <1>2, PTL DEF IntakeSpec

\* registration.py:150 and :194: the parts of a registered bundle are linked and
\* committed, every claim's fixture among the buckets its selector stands for.
THEOREM BundleIsSoundHolds == IntakeSpec => []BundleIsSound
<1>1. RegistrationIInv => BundleIsSound
  <2> SUFFICES ASSUME RegistrationIInv, at.label = "registered"
               PROVE  PartsAreLinked /\ PartsAreCommitted
    BY DEF BundleIsSound
  <2>1. PartsAreCommitted BY DEF RegistrationIInv
  <2>2. \A i \in Exports : DefinitionLinked(i) /\ FixturesLinked(i)
    BY DEF RegistrationIInv, InterfacesRead, AfterManifest, Reading, AfterDefinition
  <2>3. ASSUME NEW i \in Exports, NEW s \in Implementation(i).declared
        PROVE  \E c \in Implementation(i).claims, x \in Rows(i) :
                 c[1] = s /\ x.id = c[2] /\ x.bucket \in Claimed(bundle[Vocabulary(i)].dims, s)
    <3>1. FixturesLinked(i) BY <2>2
    <3>2. PICK c \in Implementation(i).claims : c[1] = s BY <3>1 DEF FixturesLinked
    <3>3. /\ ParseSelector(bundle[Vocabulary(i)].dims, s) # Malformed
          /\ \E x \in Rows(i) : /\ x.id = c[2]
               /\ Matches(ParseSelector(bundle[Vocabulary(i)].dims, s), x.bucket)
      BY <3>1, <3>2 DEF FixturesLinked, ClaimsCovered
    <3>4. PICK x \in Rows(i) : /\ x.id = c[2]
               /\ Matches(ParseSelector(bundle[Vocabulary(i)].dims, s), x.bucket)
      BY <3>3
    <3>5. x.bucket = Canonical(bundle[Vocabulary(i)].dims, x.bucket) /\ x.bucket # Malformed
      BY <3>1 DEF FixturesLinked, RowsAgree
    <3>6. x.bucket \in Claimed(bundle[Vocabulary(i)].dims, s)
      BY <3>3, <3>4, <3>5, MatchedIsClaimed
    <3> QED BY <3>2, <3>4, <3>6
  <2> QED BY <2>1, <2>2, <2>3 DEF PartsAreLinked, DefinitionLinked
<1> QED BY <1>1, RegistrationInvariance, PTL

-----------------------------------------------------------------------------
(* Lists: what comes before what, and the pieces of a list put together.   *)

\* The numbers under their order, as a relation.
LEMMA LessRelation == OpToRel(<, Nat) = {p \in Nat \X Nat : p[1] < p[2]}
BY DEF OpToRel

\* Numbers have a least.
LEMMA LeastNumber == ASSUME NEW T, T \subseteq Nat, T # {} PROVE \E n \in T : \A m \in T : n <= m
<1> DEFINE R == OpToRel(<, Nat)
<1>1. IsWellFoundedOn(R, Nat) BY NatLessThanWellFounded
<1>2. R = {p \in Nat \X Nat : p[1] < p[2]} BY LessRelation
<1> HIDE DEF R
<1>3. PICK n \in T : \A m \in T : ~(<<m, n>> \in R) BY <1>1, WFMin
<1>4. ASSUME NEW m \in T PROVE n <= m
  <2>1. ~(m < n) BY <1>2, <1>3
  <2> QED BY <2>1
<1> QED BY <1>4

\* What holds of 0, and of n + 1 if it does of n, holds of every number.
LEMMA NumbersReached ==
  ASSUME NEW T, 0 \in T, \A n \in Nat : n \in T => n + 1 \in T PROVE Nat \subseteq T
<1>1. SUFFICES ASSUME Nat \ T # {} PROVE FALSE OBVIOUS
<1>2. PICK n \in Nat \ T : \A m \in Nat \ T : n <= m BY <1>1, LeastNumber
<1>3. n # 0 /\ n - 1 \in Nat BY <1>2
<1>4. n - 1 \in T BY <1>2, <1>3
<1> QED BY <1>3, <1>4

\* e comes before any f.
Before(s, e, f) == \E k \in DOMAIN s : s[k] = e /\ \A j \in 1..k : s[j] # f

\* The elements of two lists put together.
LEMMA JoinMembers ==
  ASSUME NEW S, NEW s \in Seq(S), NEW t \in Seq(S)
  PROVE  s \o t \in Seq(S) /\ ToSet(s \o t) = ToSet(s) \cup ToSet(t)
<1>1. s \o t \in Seq(S) /\ Len(s \o t) = Len(s) + Len(t) /\ Len(s) \in Nat /\ Len(t) \in Nat
  OBVIOUS
<1>2. DOMAIN s = 1..Len(s) /\ DOMAIN t = 1..Len(t) /\ DOMAIN (s \o t) = 1..(Len(s) + Len(t))
  BY <1>1
<1>3. \A i \in 1..Len(s) : (s \o t)[i] = s[i]
  OBVIOUS
<1>4. \A i \in 1..Len(t) : (s \o t)[Len(s) + i] = t[i]
  BY <1>1
<1>5. ASSUME NEW i \in 1..(Len(s) + Len(t)) PROVE (s \o t)[i] \in ToSet(s) \cup ToSet(t)
  <2>1. CASE i <= Len(s)
    BY <1>1, <1>2, <1>3, <2>1 DEF ToSet
  <2>2. CASE ~(i <= Len(s))
    <3>1. i - Len(s) \in 1..Len(t) /\ Len(s) + (i - Len(s)) = i
      BY <1>1, <2>2
    <3>2. (s \o t)[i] = t[i - Len(s)]
      BY <1>4, <3>1
    <3> QED BY <1>2, <3>1, <3>2 DEF ToSet
  <2> QED BY <2>1, <2>2
<1>6. ASSUME NEW i \in 1..Len(s) PROVE s[i] \in ToSet(s \o t)
  BY <1>1, <1>2, <1>3 DEF ToSet
<1>7. ASSUME NEW i \in 1..Len(t) PROVE t[i] \in ToSet(s \o t)
  <2>1. Len(s) + i \in 1..(Len(s) + Len(t)) BY <1>1
  <2> QED BY <1>2, <1>4, <2>1 DEF ToSet
<1> QED BY <1>1, <1>2, <1>5, <1>6, <1>7 DEF ToSet

\* An order in one of two lists is an order in the whole.
LEMMA JoinBefore ==
  ASSUME NEW S, NEW s \in Seq(S), NEW t \in Seq(S), NEW e, NEW f
  PROVE  /\ Before(s, e, f) => Before(s \o t, e, f)
         /\ f \notin ToSet(s) /\ Before(t, e, f) => Before(s \o t, e, f)
<1>1. s \o t \in Seq(S) /\ Len(s \o t) = Len(s) + Len(t) /\ Len(s) \in Nat /\ Len(t) \in Nat
  OBVIOUS
<1>2. DOMAIN s = 1..Len(s) /\ DOMAIN t = 1..Len(t) /\ DOMAIN (s \o t) = 1..(Len(s) + Len(t))
  BY <1>1
<1>3. \A i \in 1..Len(s) : (s \o t)[i] = s[i]
  OBVIOUS
<1>4. \A i \in 1..Len(t) : (s \o t)[Len(s) + i] = t[i]
  BY <1>1
<1>5. ASSUME Before(s, e, f) PROVE Before(s \o t, e, f)
  <2>1. PICK k \in DOMAIN s : s[k] = e /\ \A j \in 1..k : s[j] # f
    BY <1>5 DEF Before
  <2>2. k \in 1..(Len(s) + Len(t)) /\ (s \o t)[k] = e
    BY <1>1, <1>2, <1>3, <2>1
  <2>3. \A j \in 1..k : (s \o t)[j] # f
    BY <1>1, <1>2, <1>3, <2>1
  <2> QED BY <1>2, <2>2, <2>3 DEF Before
<1>6. ASSUME f \notin ToSet(s), Before(t, e, f) PROVE Before(s \o t, e, f)
  <2>1. PICK k \in DOMAIN t : t[k] = e /\ \A j \in 1..k : t[j] # f
    BY <1>6 DEF Before
  <2>2. Len(s) + k \in 1..(Len(s) + Len(t)) /\ (s \o t)[Len(s) + k] = e
    BY <1>1, <1>2, <1>4, <2>1
  <2>3. ASSUME NEW j \in 1..(Len(s) + k) PROVE (s \o t)[j] # f
    <3>1. CASE j <= Len(s)
      BY <1>1, <1>2, <1>3, <1>6, <3>1 DEF ToSet
    <3>2. CASE ~(j <= Len(s))
      <4>1. j - Len(s) \in 1..k /\ j - Len(s) \in 1..Len(t) /\ Len(s) + (j - Len(s)) = j
        BY <1>1, <1>2, <2>1, <3>2
      <4>2. (s \o t)[j] = t[j - Len(s)]
        BY <1>4, <4>1
      <4> QED BY <2>1, <4>1, <4>2
    <3> QED BY <3>1, <3>2
  <2> QED BY <1>2, <2>2, <2>3 DEF Before
<1> QED BY <1>5, <1>6

\* The pieces put together one after the other.
Joined(ss, f) == f = [n \in 0..Len(ss) |-> IF n = 0 THEN <<>> ELSE f[n - 1] \o ss[n]]

\* FlattenSeq is that.
LEMMA FlattenSteps ==
  ASSUME NEW S, NEW ss \in Seq(Seq(S))
  PROVE  \E f : Joined(ss, f) /\ FlattenSeq(ss) = f[Len(ss)]
<1> DEFINE IsFrom(g, m) == g = [i \in 1..m |-> IF i = 1 THEN ss[i] ELSE g[i - 1] \o ss[i]]
           T == {m \in Nat : \E g : IsFrom(g, m)}
<1>1. 0 \in T
  <2> DEFINE g == [i \in 1..0 |-> ss[i]]
  <2>1. IsFrom(g, 0)
    OBVIOUS
  <2> HIDE DEF g
  <2> QED BY <2>1
<1>2. ASSUME NEW m \in Nat, m \in T PROVE m + 1 \in T
  <2>1. PICK g : IsFrom(g, m)
    BY <1>2
  <2>a. \A i \in 1..m : g[i] = IF i = 1 THEN ss[i] ELSE g[i - 1] \o ss[i]
    BY <2>1
  <2> DEFINE h == [i \in 1..(m + 1) |-> IF i <= m THEN g[i] ELSE IF i = 1 THEN ss[i] ELSE g[i - 1] \o ss[i]]
  <2>2. ASSUME NEW i \in 1..(m + 1) PROVE h[i] = IF i = 1 THEN ss[i] ELSE h[i - 1] \o ss[i]
    <3>1. CASE i <= m
      <4>1. i \in 1..m /\ g[i] = IF i = 1 THEN ss[i] ELSE g[i - 1] \o ss[i]
        BY <2>a, <3>1
      <4>2. i # 1 => h[i - 1] = g[i - 1]
        BY <3>1
      <4> QED BY <3>1, <4>1, <4>2
    <3>2. CASE ~(i <= m)
      <4>1. i # 1 => h[i - 1] = g[i - 1]
        BY <3>2
      <4> QED BY <3>2, <4>1
    <3> QED BY <3>1, <3>2
  <2>3. IsFrom(h, m + 1)
    BY <2>2
  <2> HIDE DEF h, IsFrom
  <2> QED BY <2>3
<1>3. Len(ss) \in T /\ Len(ss) \in Nat
  <2> HIDE DEF T
  <2>1. Nat \subseteq T
    BY <1>1, <1>2, NumbersReached
  <2> QED BY <2>1
<1>4. CASE Len(ss) = 0
  <2> DEFINE f == [n \in 0..Len(ss) |-> <<>>]
  <2>1. Joined(ss, f)
    BY <1>4 DEF Joined
  <2>2. ss = <<>>
    BY <1>4
  <2>3. f[Len(ss)] = <<>>
    BY <1>4
  <2>4. FlattenSeq(ss) = f[Len(ss)]
    BY <1>4, <2>2, <2>3 DEF FlattenSeq
  <2> HIDE DEF f
  <2> QED BY <2>1, <2>4
<1>5. CASE Len(ss) # 0
  <2>1. \E g : IsFrom(g, Len(ss))
    BY <1>3
  <2>2. PICK g : IsFrom(g, Len(ss)) /\ FlattenSeq(ss) = g[Len(ss)]
    BY <1>5, <2>1 DEF FlattenSeq
  <2>a. \A i \in 1..Len(ss) : g[i] = IF i = 1 THEN ss[i] ELSE g[i - 1] \o ss[i]
    BY <2>2
  <2> DEFINE f == [n \in 0..Len(ss) |-> IF n = 0 THEN <<>> ELSE g[n]]
  <2>3. ASSUME NEW n \in 0..Len(ss) PROVE f[n] = IF n = 0 THEN <<>> ELSE f[n - 1] \o ss[n]
    <3>1. CASE n = 0
      BY <3>1
    <3>2. CASE n = 1
      <4>1. f[1] = ss[1] /\ f[0] = <<>>
        BY <1>3, <1>5, <2>a
      <4>2. ss[1] \in Seq(S)
        BY <1>3, <1>5
      <4>3. <<>> \o ss[1] = ss[1]
        BY <4>2
      <4>4. n - 1 = 0 /\ n # 0
        BY <3>2
      <4> HIDE DEF f
      <4> QED BY <3>2, <4>1, <4>3, <4>4
    <3>3. CASE n \notin {0, 1}
      <4>1. n \in 1..Len(ss) /\ n # 1 /\ n - 1 \in 0..Len(ss) /\ n - 1 # 0 /\ n # 0
        BY <1>3, <3>3
      <4>2. g[n] = g[n - 1] \o ss[n]
        BY <2>a, <4>1
      <4>3. f[n] = g[n] /\ f[n - 1] = g[n - 1]
        BY <4>1
      <4> HIDE DEF f
      <4> QED BY <4>1, <4>2, <4>3
    <3> QED BY <3>1, <3>2, <3>3
  <2>4. Joined(ss, f)
    BY <2>3 DEF Joined
  <2>5. FlattenSeq(ss) = f[Len(ss)]
    BY <1>3, <1>5, <2>2
  <2> HIDE DEF f
  <2> QED BY <2>4, <2>5
<1> QED BY <1>4, <1>5

\* The elements of a list put together from pieces.
LEMMA FlattenMembers ==
  ASSUME NEW S, NEW ss \in Seq(Seq(S))
  PROVE  /\ FlattenSeq(ss) \in Seq(S)
         /\ \A e : e \in ToSet(FlattenSeq(ss)) <=> \E i \in DOMAIN ss : e \in ToSet(ss[i])
<1>1. PICK f : Joined(ss, f) /\ FlattenSeq(ss) = f[Len(ss)]
  BY FlattenSteps
<1>2. Len(ss) \in Nat /\ DOMAIN ss = 1..Len(ss) /\ \A i \in 1..Len(ss) : ss[i] \in Seq(S)
  OBVIOUS
<1>3. \A n \in 0..Len(ss) : f[n] = IF n = 0 THEN <<>> ELSE f[n - 1] \o ss[n]
  BY <1>1 DEF Joined
<1> DEFINE Holds(n) == f[n] \in Seq(S) /\ \A e : e \in ToSet(f[n]) <=> \E i \in 1..n : e \in ToSet(ss[i])
           T == {n \in Nat : n <= Len(ss) => Holds(n)}
<1>4. 0 \in T
  <2>1. f[0] = <<>>
    BY <1>2, <1>3
  <2>2. ToSet(<<>>) = {} /\ 1..0 = {} /\ <<>> \in Seq(S)
    BY DEF ToSet
  <2>3. Holds(0)
    BY <2>1, <2>2
  <2> HIDE DEF Holds
  <2> QED BY <2>3
<1>5. ASSUME NEW n \in Nat, n \in T PROVE n + 1 \in T
  <2> SUFFICES ASSUME n + 1 <= Len(ss) PROVE Holds(n + 1)
    OBVIOUS
  <2>1. Holds(n)
    BY <1>2, <1>5
  <2>2. n + 1 \in 1..Len(ss) /\ f[n + 1] = f[n] \o ss[n + 1]
    <3>1. n + 1 \in 0..Len(ss) /\ n + 1 # 0 /\ (n + 1) - 1 = n /\ n + 1 \in 1..Len(ss)
      BY <1>2
    <3>2. f[n + 1] = f[(n + 1) - 1] \o ss[n + 1]
      BY <1>3, <3>1, Zenon
    <3> QED BY <3>1, <3>2, Zenon
  <2>3. f[n] \in Seq(S) /\ ss[n + 1] \in Seq(S)
    BY <1>2, <2>1, <2>2
  <2>4. f[n + 1] \in Seq(S) /\ ToSet(f[n + 1]) = ToSet(f[n]) \cup ToSet(ss[n + 1])
    BY <2>2, <2>3, JoinMembers
  <2>5. \A i : i \in 1..(n + 1) <=> i \in 1..n \/ i = n + 1
    OBVIOUS
  <2>6. ASSUME NEW e PROVE e \in ToSet(f[n + 1]) <=> \E i \in 1..(n + 1) : e \in ToSet(ss[i])
    <3>1. e \in ToSet(f[n]) <=> \E i \in 1..n : e \in ToSet(ss[i])
      BY <2>1
    <3>2. (\E i \in 1..(n + 1) : e \in ToSet(ss[i])) <=> (\E i \in 1..n : e \in ToSet(ss[i])) \/ e \in ToSet(ss[n + 1])
      BY <2>5, Zenon
    <3> QED BY <2>4, <3>1, <3>2, Zenon
  <2> QED BY <2>4, <2>6
<1>6. Holds(Len(ss))
  <2> HIDE DEF Holds
  <2>1. Nat \subseteq T
    <3> HIDE DEF T
    <3> QED BY <1>4, <1>5, NumbersReached
  <2> QED BY <1>2, <2>1
<1> QED BY <1>1, <1>2, <1>6

\* An order in the first piece with either element is an order in the whole.
LEMMA FlattenBefore ==
  ASSUME NEW S, NEW ss \in Seq(Seq(S)), NEW e, NEW f, NEW m \in DOMAIN ss,
         Before(ss[m], e, f), \A i \in 1..(m - 1) : f \notin ToSet(ss[i])
  PROVE  Before(FlattenSeq(ss), e, f)
<1>1. PICK g : Joined(ss, g) /\ FlattenSeq(ss) = g[Len(ss)]
  BY FlattenSteps
<1>2. Len(ss) \in Nat /\ DOMAIN ss = 1..Len(ss) /\ \A i \in 1..Len(ss) : ss[i] \in Seq(S)
  OBVIOUS
<1>3. \A n \in 0..Len(ss) : g[n] = IF n = 0 THEN <<>> ELSE g[n - 1] \o ss[n]
  BY <1>1 DEF Joined
<1> DEFINE Holds(n) == /\ g[n] \in Seq(S)
                       /\ n < m => f \notin ToSet(g[n])
                       /\ n >= m => Before(g[n], e, f)
           T == {n \in Nat : n <= Len(ss) => Holds(n)}
<1>4. 0 \in T
  <2>1. g[0] = <<>> /\ ~(0 >= m)
    BY <1>2, <1>3
  <2>2. ToSet(<<>>) = {} /\ <<>> \in Seq(S)
    BY DEF ToSet
  <2>3. Holds(0)
    BY <2>1, <2>2, Zenon
  <2> HIDE DEF Holds
  <2> QED BY <2>3
<1>5. ASSUME NEW n \in Nat, n \in T PROVE n + 1 \in T
  <2> SUFFICES ASSUME n + 1 <= Len(ss) PROVE Holds(n + 1)
    OBVIOUS
  <2>1. Holds(n)
    BY <1>2, <1>5
  <2>2. n + 1 \in 1..Len(ss) /\ g[n + 1] = g[n] \o ss[n + 1] /\ m \in 1..Len(ss)
    <3>1. n + 1 \in 0..Len(ss) /\ n + 1 # 0 /\ (n + 1) - 1 = n /\ n + 1 \in 1..Len(ss)
      BY <1>2
    <3>2. g[n + 1] = g[(n + 1) - 1] \o ss[n + 1]
      BY <1>3, <3>1, Zenon
    <3> QED BY <1>2, <3>1, <3>2, Zenon
  <2>3. g[n] \in Seq(S) /\ ss[n + 1] \in Seq(S)
    BY <1>2, <2>1, <2>2
  <2>4. g[n + 1] \in Seq(S) /\ ToSet(g[n + 1]) = ToSet(g[n]) \cup ToSet(ss[n + 1])
    BY <2>2, <2>3, JoinMembers
  <2>5. CASE n + 1 < m
    <3>1. n < m /\ n + 1 \in 1..(m - 1) /\ ~(n + 1 >= m)
      BY <2>2, <2>5
    <3>2. f \notin ToSet(g[n + 1])
      BY <2>1, <2>4, <3>1
    <3> QED BY <2>4, <3>1, <3>2
  <2>6. CASE n + 1 = m
    <3>1. n < m /\ ~(n + 1 < m)
      BY <2>6
    <3>2. Before(g[n] \o ss[n + 1], e, f)
      BY <2>1, <2>3, <2>6, <3>1, JoinBefore
    <3> QED BY <2>2, <2>4, <3>1, <3>2
  <2>7. CASE n + 1 > m
    <3>1. n >= m /\ ~(n + 1 < m)
      BY <2>2, <2>7
    <3>2. Before(g[n] \o ss[n + 1], e, f)
      BY <2>1, <2>3, <3>1, JoinBefore
    <3> QED BY <2>2, <2>4, <3>1, <3>2
  <2>8. n + 1 < m \/ n + 1 = m \/ n + 1 > m
    BY <2>2
  <2> QED BY <2>5, <2>6, <2>7, <2>8
<1>6. Holds(Len(ss))
  <2> HIDE DEF Holds
  <2>1. Nat \subseteq T
    <3> HIDE DEF T
    <3> QED BY <1>4, <1>5, NumbersReached
  <2> QED BY <1>2, <2>1
<1>7. Len(ss) >= m
  BY <1>2
<1> QED BY <1>1, <1>6, <1>7

\* Where an element first occurs.
LEMMA FirstOccurs ==
  ASSUME NEW S, NEW s \in Seq(S), NEW e \in ToSet(s)
  PROVE  /\ First(s, e) \in DOMAIN s /\ First(s, e) \in Nat /\ s[First(s, e)] = e
         /\ \A j \in 1..(First(s, e) - 1) : s[j] # e
         /\ First(s, e) \in 1..Len(s)
<1>1. DOMAIN s = 1..Len(s) /\ Len(s) \in Nat
  OBVIOUS
<1> DEFINE T == {i \in DOMAIN s : s[i] = e}
<1>2. T \subseteq Nat /\ T # {}
  BY <1>1 DEF ToSet
<1>3. PICK n \in T : \A m \in T : n <= m
  BY <1>2, LeastNumber
<1>4. n \in DOMAIN s /\ s[n] = e /\ \A j \in 1..(n - 1) : s[j] # e
  BY <1>1, <1>3
<1>5. First(s, e) \in DOMAIN s /\ s[First(s, e)] = e /\ \A j \in 1..(First(s, e) - 1) : s[j] # e
  BY <1>4, Zenon DEF First
<1> QED BY <1>1, <1>5

\* What comes before another first occurs before it.
LEMMA FirstBefore ==
  ASSUME NEW S, NEW s \in Seq(S), NEW e, NEW f \in ToSet(s), Before(s, e, f)
  PROVE  e \in ToSet(s) /\ First(s, e) < First(s, f)
<1>1. DOMAIN s = 1..Len(s) /\ Len(s) \in Nat
  OBVIOUS
<1>2. PICK k \in DOMAIN s : s[k] = e /\ \A j \in 1..k : s[j] # f
  BY DEF Before
<1>3. e \in ToSet(s)
  BY <1>2 DEF ToSet
<1> DEFINE x == First(s, e)
           y == First(s, f)
<1>4. x \in DOMAIN s /\ (\A j \in 1..(x - 1) : s[j] # e) /\ y \in DOMAIN s /\ s[y] = f
  BY <1>3, FirstOccurs
<1> HIDE DEF x, y
<1>5. x <= k
  BY <1>1, <1>2, <1>4
<1>6. k < y
  BY <1>1, <1>2, <1>4
<1>7. x < y
  BY <1>1, <1>4, <1>5, <1>6
<1> QED BY <1>3, <1>7 DEF x, y

-----------------------------------------------------------------------------
(* The platform tags a declared one stands for.                            *)

\* The parts of a platform.
LEMMA PlatformParts ==
  ASSUME NEW f, NEW a, NEW m, NEW n
  PROVE  /\ Platform(f, m, n, a).family = f /\ Platform(f, m, n, a).major = m
         /\ Platform(f, m, n, a).minor = n /\ Platform(f, m, n, a).arch = a
BY DEF Platform

\* A platform with a version is one of the tags, and so is linux_<arch>.
LEMMA PlatformIs ==
  ASSUME NEW f \in Word, NEW a \in Word, NEW m \in Nat, NEW n \in Nat
  PROVE  /\ Platform(f, m, n, a).family = f /\ Platform(f, m, n, a).major = m
         /\ Platform(f, m, n, a).minor = n /\ Platform(f, m, n, a).arch = a
         /\ f # "linux" => Platform(f, m, n, a) \in PlatformTag
         /\ Platform("linux", 0, 0, a) \in PlatformTag
<1> DEFINE x == Platform(f, m, n, a)
           y == Platform("linux", 0, 0, a)
<1>1. x \in PlatformRec /\ y \in PlatformRec
  <2>1. \A g, b \in Word, i, j \in Nat :
          [family |-> g, major |-> i, minor |-> j, arch |-> b] \in PlatformRec
    BY DEF PlatformRec
  <2>2. "linux" \in Word /\ 0 \in Nat
    BY DEF Word
  <2> QED BY <2>1, <2>2, Zenon DEF Platform
<1>2. x.family = f /\ x.major = m /\ x.minor = n /\ x.arch = a
  BY DEF Platform
<1>3. y.family = "linux" /\ y.major = 0 /\ y.minor = 0
  BY DEF Platform
<1> HIDE DEF x, y
<1>4. (f # "linux" => x \in PlatformTag) /\ y \in PlatformTag
  BY <1>1, <1>2, <1>3 DEF PlatformTag
<1> QED BY <1>2, <1>4 DEF x, y

\* A tag is its parts, which have these types.
LEMMA PlatformEq ==
  ASSUME NEW p \in PlatformTag
  PROVE  /\ p = Platform(p.family, p.major, p.minor, p.arch)
         /\ p.family \in Word /\ p.arch \in Word /\ p.major \in Nat /\ p.minor \in Nat
         /\ p.family = "linux" => p.major = 0 /\ p.minor = 0
<1>1. p \in PlatformRec /\ (p.family = "linux" => p.major = 0 /\ p.minor = 0)
  BY Zenon DEF PlatformTag
<1>2. p = [family |-> p.family, major |-> p.major, minor |-> p.minor, arch |-> p.arch]
  BY <1>1 DEF PlatformRec
<1>3. p.family \in Word /\ p.arch \in Word /\ p.major \in Nat /\ p.minor \in Nat
  BY <1>1 DEF PlatformRec
<1> QED BY <1>1, <1>2, <1>3 DEF Platform

\* A tag is known by its four parts.
LEMMA PlatformIsBy ==
  ASSUME NEW q \in PlatformTag, NEW f \in Word, NEW a \in Word, NEW m \in Nat, NEW n \in Nat
  PROVE  q = Platform(f, m, n, a) <=> q.family = f /\ q.major = m /\ q.minor = n /\ q.arch = a
<1>1. ASSUME q = Platform(f, m, n, a)
      PROVE  q.family = f /\ q.major = m /\ q.minor = n /\ q.arch = a
  <2>1. /\ Platform(f, m, n, a).family = f /\ Platform(f, m, n, a).major = m
        /\ Platform(f, m, n, a).minor = n /\ Platform(f, m, n, a).arch = a
    BY PlatformParts
  <2> QED BY <1>1, <2>1
<1>2. ASSUME q.family = f, q.major = m, q.minor = n, q.arch = a PROVE q = Platform(f, m, n, a)
  <2>1. q = Platform(q.family, q.major, q.minor, q.arch) BY PlatformEq, Zenon
  <2> QED BY <1>2, <2>1, Zenon
<1> QED BY <1>1, <1>2, Zenon

\* hi, hi - 1, ..., lo.
LEMMA DownIs ==
  ASSUME NEW hi \in Int, NEW lo \in Int
  PROVE  /\ DOMAIN Down(hi, lo) = 1..(hi - lo + 1)
         /\ \A i \in 1..(hi - lo + 1) : Down(hi, lo)[i] = hi - i + 1 /\ Down(hi, lo)[i] \in lo..hi
BY DEF Down

\* A function on an initial segment is a sequence, an empty one too.
LEMMA IsSequence ==
  ASSUME NEW S, NEW n \in Int, NEW s, s = [i \in 1..n |-> s[i]], \A i \in 1..n : s[i] \in S
  PROVE  s \in Seq(S) /\ DOMAIN s = 1..n
<1>1. CASE n \in Nat
  BY <1>1
<1>2. CASE n \notin Nat
  <2>1. 1..n = {} /\ 1..0 = {} /\ 0 \in Nat
    BY <1>2
  <2>2. s = [i \in 1..0 |-> s[i]] /\ \A i \in 1..0 : s[i] \in S
    BY <2>1, Zenon
  <2>3. s \in Seq(S)
    BY <2>2
  <2> QED BY <2>1, <2>3
<1> QED BY <1>1, <1>2

\* A list of one element.
LEMMA Single == \A x : ToSet(<<x>>) = {x} /\ \A y : y # x => Before(<<x>>, x, y)
<1>1. ASSUME NEW x PROVE ToSet(<<x>>) = {x}
  BY DEF ToSet
<1>2. ASSUME NEW x, NEW y, y # x PROVE Before(<<x>>, x, y)
  <2>1. 1 \in DOMAIN <<x>> /\ <<x>>[1] = x /\ \A j \in 1..1 : <<x>>[j] # y
    BY <1>2
  <2> QED BY <2>1 DEF Before
<1> QED BY <1>1, <1>2

\* What a linux platform's expansion holds, and in which order.
LEMMA LinuxExpansion ==
  ASSUME NEW p \in PlatformTag, NEW kind \in Word, kind # "linux", kind # "legacy"
  PROVE  LET s == ExpandLinux(p, kind) IN
         /\ s \in Seq(PlatformTag)
         /\ \A q \in PlatformTag :
              q \in ToSet(s) <=>
                \/ q.family = kind /\ q.major = p.major /\ q.minor <= p.minor /\ q.arch = p.arch
                \/ /\ kind = "manylinux" /\ q.family = "legacy" /\ Version(q) \in Legacy
                   /\ q.major = p.major /\ q.minor <= p.minor /\ q.arch = p.arch
                \/ q.family = "linux" /\ q.arch = p.arch
         /\ \A t, u \in ToSet(s) : t.family = u.family /\ u.minor < t.minor => Before(s, t, u)
<1> DEFINE Piece(k) ==
              <<Platform(kind, p.major, k, p.arch)>>
              \o (IF kind = "manylinux" /\ <<p.major, k>> \in Legacy
                  THEN <<Platform("legacy", p.major, k, p.arch)>> ELSE <<>>)
           floors == Down(p.minor, 0)
           pieces == [i \in DOMAIN floors |-> Piece(floors[i])]
           last == Platform("linux", 0, 0, p.arch)
           flat == FlattenSeq(pieces)
           s == ExpandLinux(p, kind)
<1>1. s = flat \o <<last>>
  BY DEF ExpandLinux, Each, Floors
<1>2. p.major \in Nat /\ p.minor \in Nat /\ p.arch \in Word /\ kind \in Word /\ kind # "linux"
  BY PlatformEq
<1>3. DOMAIN floors = 1..(p.minor + 1) /\ \A i \in 1..(p.minor + 1) : floors[i] = p.minor - i + 1 /\ floors[i] \in 0..p.minor
  <2>1. p.minor - 0 + 1 = p.minor + 1 /\ p.minor \in Int
    BY <1>2
  <2>2. /\ DOMAIN Down(p.minor, 0) = 1..(p.minor - 0 + 1)
        /\ \A i \in 1..(p.minor - 0 + 1) : Down(p.minor, 0)[i] = p.minor - i + 1 /\ Down(p.minor, 0)[i] \in 0..p.minor
    <3>1. p.minor \in Int /\ 0 \in Int BY <1>2
    <3> QED BY <3>1, DownIs, Zenon
  <2> QED BY <2>1, <2>2
<1> HIDE DEF floors
<1>4. ASSUME NEW k \in 0..p.minor
      PROVE  /\ Piece(k) \in Seq(PlatformTag)
             /\ \A q \in PlatformTag :
                  q \in ToSet(Piece(k)) <=>
                    \/ q.family = kind /\ q.major = p.major /\ q.minor = k /\ q.arch = p.arch
                    \/ /\ kind = "manylinux" /\ q.family = "legacy" /\ Version(q) \in Legacy
                       /\ q.major = p.major /\ q.minor = k /\ q.arch = p.arch
  <2> DEFINE x == Platform(kind, p.major, k, p.arch)
             y == Platform("legacy", p.major, k, p.arch)
  <2>1. x \in PlatformTag /\ y \in PlatformTag /\ k \in Nat
    <3>1. k \in Nat /\ "legacy" \in Word /\ "legacy" # "linux" BY <1>2 DEF Word
    <3> QED BY <1>2, <3>1, PlatformIs, Zenon
  <2>2. \A q \in PlatformTag :
          /\ q = x <=> q.family = kind /\ q.major = p.major /\ q.minor = k /\ q.arch = p.arch
          /\ q = y <=> q.family = "legacy" /\ q.major = p.major /\ q.minor = k /\ q.arch = p.arch
    <3>1. "legacy" \in Word BY DEF Word
    <3>2. ASSUME NEW q \in PlatformTag
          PROVE  q = Platform(kind, p.major, k, p.arch)
                   <=> q.family = kind /\ q.major = p.major /\ q.minor = k /\ q.arch = p.arch
      BY <1>2, <2>1, PlatformIsBy
    <3>3. ASSUME NEW q \in PlatformTag
          PROVE  q = Platform("legacy", p.major, k, p.arch)
                   <=> q.family = "legacy" /\ q.major = p.major /\ q.minor = k /\ q.arch = p.arch
      BY <1>2, <2>1, <3>1, PlatformIsBy
    <3> QED BY <3>2, <3>3
  <2>3. \A q : Version(q) = <<q.major, q.minor>>
    BY DEF Version
  <2> HIDE DEF x, y
  <2>4. CASE kind = "manylinux" /\ <<p.major, k>> \in Legacy
    <3>1. Piece(k) = <<x>> \o <<y>>
      BY <2>4 DEF x, y
    <3>2. <<x>> \in Seq(PlatformTag) /\ <<y>> \in Seq(PlatformTag)
      BY <2>1
    <3>3. Piece(k) \in Seq(PlatformTag) /\ ToSet(Piece(k)) = {x, y}
      <4>1. ToSet(<<x>>) = {x} /\ ToSet(<<y>>) = {y}
        BY Single, Zenon
      <4>2. <<x>> \o <<y>> \in Seq(PlatformTag) /\ ToSet(<<x>> \o <<y>>) = ToSet(<<x>>) \cup ToSet(<<y>>)
        BY <3>2, JoinMembers, Zenon
      <4> HIDE DEF Piece
      <4> QED BY <3>1, <4>1, <4>2
    <3> HIDE DEF Piece
    <3> QED BY <2>2, <2>3, <2>4, <3>3
  <2>5. CASE ~(kind = "manylinux" /\ <<p.major, k>> \in Legacy)
    <3>1. Piece(k) = <<x>> \o <<>>
      BY <2>5 DEF x, y
    <3>2. <<x>> \in Seq(PlatformTag) /\ <<x>> \o <<>> = <<x>>
      BY <2>1
    <3>3. Piece(k) \in Seq(PlatformTag) /\ ToSet(Piece(k)) = {x}
      BY <3>1, <3>2, Single
    <3> HIDE DEF Piece
    <3> QED BY <2>2, <2>3, <2>5, <3>3
  <2> QED BY <2>4, <2>5
<1> HIDE DEF Piece
<1>5. DOMAIN pieces = 1..(p.minor + 1) /\ \A i \in 1..(p.minor + 1) : pieces[i] = Piece(p.minor - i + 1)
  BY <1>3
<1>6. pieces \in Seq(Seq(PlatformTag))
  <2>1. ASSUME NEW i \in 1..(p.minor + 1) PROVE pieces[i] \in Seq(PlatformTag)
    <3> HIDE DEF pieces
    <3>1. p.minor - i + 1 \in 0..p.minor
      BY <1>2
    <3>2. Piece(p.minor - i + 1) \in Seq(PlatformTag)
      BY <1>4, <3>1
    <3> QED BY <1>5, <3>2
  <2>2. p.minor + 1 \in Nat /\ pieces = [i \in 1..(p.minor + 1) |-> pieces[i]]
    BY <1>2, <1>3
  <2> HIDE DEF pieces
  <2> QED BY <2>1, <2>2
<1> HIDE DEF pieces
<1>7. \A i \in 1..(p.minor + 1) : p.minor - i + 1 \in 0..p.minor
  BY <1>2
<1>8. flat \in Seq(PlatformTag) /\ \A e : e \in ToSet(flat) <=> \E i \in 1..(p.minor + 1) : e \in ToSet(pieces[i])
  BY <1>5, <1>6, FlattenMembers
<1>9. <<last>> \in Seq(PlatformTag) /\ ToSet(<<last>>) = {last} /\ last \in PlatformTag
      /\ \A q \in PlatformTag : q = last <=> q.family = "linux" /\ q.arch = p.arch
  <2>1. last \in PlatformTag
    BY <1>2, PlatformIs
  <2>2. \A q \in PlatformTag : q = last <=> q.family = "linux" /\ q.arch = p.arch
    <3>1. "linux" \in Word /\ 0 \in Nat BY DEF Word
    <3>2. ASSUME NEW q \in PlatformTag
          PROVE  q = Platform("linux", 0, 0, p.arch)
                   <=> q.family = "linux" /\ q.major = 0 /\ q.minor = 0 /\ q.arch = p.arch
      BY <1>2, <3>1, PlatformIsBy
    <3> QED BY <3>2, PlatformEq, Zenon
  <2> HIDE DEF last
  <2> QED BY <2>1, <2>2, Single
<1> HIDE DEF last, flat
<1>10. s \in Seq(PlatformTag) /\ ToSet(s) = ToSet(flat) \cup {last}
  <2>1. flat \o <<last>> \in Seq(PlatformTag) /\ ToSet(flat \o <<last>>) = ToSet(flat) \cup ToSet(<<last>>)
    <3>1. flat \in Seq(PlatformTag) /\ <<last>> \in Seq(PlatformTag) BY <1>8, <1>9
    <3> QED BY <3>1, JoinMembers
  <2> HIDE DEF s
  <2> QED BY <1>1, <1>9, <2>1
<1>11. ASSUME NEW q \in PlatformTag
       PROVE q \in ToSet(flat) <=>
                \/ q.family = kind /\ q.major = p.major /\ q.minor <= p.minor /\ q.arch = p.arch
                \/ /\ kind = "manylinux" /\ q.family = "legacy" /\ Version(q) \in Legacy
                   /\ q.major = p.major /\ q.minor <= p.minor /\ q.arch = p.arch
  <2>1. ASSUME q \in ToSet(flat)
        PROVE  q.minor <= p.minor /\ q \in ToSet(Piece(q.minor))
    <3>1. PICK i \in 1..(p.minor + 1) : q \in ToSet(Piece(p.minor - i + 1))
      BY <1>5, <1>8, <2>1
    <3>2. q.minor = p.minor - i + 1
      BY <1>4, <1>7, <3>1
    <3> QED BY <1>2, <3>1, <3>2
  <2>2. ASSUME q.minor <= p.minor, q \in ToSet(Piece(q.minor)) PROVE q \in ToSet(flat)
    <3>1. p.minor - q.minor + 1 \in 1..(p.minor + 1) /\ p.minor - (p.minor - q.minor + 1) + 1 = q.minor
      BY <1>2, <2>2, PlatformEq
    <3> QED BY <1>5, <1>8, <2>2, <3>1
  <2>3. q.minor <= p.minor => q.minor \in 0..p.minor
    BY <1>2, PlatformEq
  <2> QED BY <1>4, <2>1, <2>2, <2>3
<1>12. ASSUME NEW t \in ToSet(s), NEW u \in ToSet(s), t.family = u.family, u.minor < t.minor
       PROVE  Before(s, t, u)
  <2>1. t \in PlatformTag /\ u \in PlatformTag
    BY <1>10 DEF ToSet
  <2>2. t # last /\ u # last
    BY <1>9, <1>12, <2>1, PlatformEq
  <2>3. t \in ToSet(flat) /\ u \in ToSet(flat)
    BY <1>10, <2>2
  <2>4. t.minor <= p.minor /\ t.minor \in Nat /\ u.minor \in Nat
    BY <1>11, <2>1, <2>3, PlatformEq
  <2> DEFINE m == p.minor - t.minor + 1
  <2>5. m \in 1..(p.minor + 1) /\ p.minor - m + 1 = t.minor
    BY <1>2, <2>4
  <2>6. pieces[m] = Piece(t.minor) /\ t.minor \in 0..p.minor
    BY <1>2, <1>5, <2>4, <2>5
  <2>7. t \in ToSet(pieces[m])
    BY <1>4, <1>11, <2>1, <2>3, <2>6
  <2>8. ASSUME NEW i \in 1..m PROVE u \notin ToSet(pieces[i])
    <3>1. i \in 1..(p.minor + 1) /\ p.minor - i + 1 >= t.minor
      BY <1>2, <2>4, <2>5
    <3>2. p.minor - i + 1 \in 0..p.minor /\ p.minor - i + 1 # u.minor
      BY <1>7, <1>2, <1>12, <2>4, <3>1
    <3> QED BY <1>4, <1>5, <2>1, <3>1, <3>2
  <2>9. Before(pieces[m], t, u)
    <3>1. PICK l \in DOMAIN pieces[m] : pieces[m][l] = t
      BY <2>7 DEF ToSet
    <3>2. pieces[m] \in Seq(PlatformTag)
      BY <1>4, <2>6
    <3>3. \A j \in 1..l : j \in DOMAIN pieces[m]
      BY <3>2
    <3>4. u \notin ToSet(pieces[m])
      BY <2>5, <2>8
    <3> QED BY <3>1, <3>3, <3>4 DEF Before, ToSet
  <2>10. Before(flat, t, u)
    <3>1. m \in DOMAIN pieces /\ \A i \in 1..(m - 1) : u \notin ToSet(pieces[i])
      BY <1>5, <2>5, <2>8
    <3> QED BY <1>6, <2>9, <3>1, FlattenBefore DEF flat
  <2> QED BY <1>1, <1>8, <1>9, <2>10, JoinBefore
<1> QED BY <1>9, <1>10, <1>11, <1>12

\* Two lists put together, by index.
LEMMA JoinIs ==
  ASSUME NEW S, NEW s \in Seq(S), NEW t \in Seq(S)
  PROVE  /\ s \o t \in Seq(S) /\ Len(s \o t) = Len(s) + Len(t)
         /\ \A k \in 1..Len(s) : (s \o t)[k] = s[k]
         /\ \A k \in 1..Len(t) : (s \o t)[Len(s) + k] = t[k]
OBVIOUS

VersionPair == Nat \X Nat
\* The versions a macOS system runs what was built for.
MacRuns(major, minor, v) ==
  IF major >= 11 THEN (v[1] \in 11..major /\ v[2] = 0) \/ (v[1] = 10 /\ v[2] \in 4..16)
  ELSE v[1] = major /\ v[2] \in 0..minor

\* The versions a system of 11 and later runs, newest first.
LEMMA LateVersions ==
  ASSUME NEW major \in Nat, major >= 11, NEW minor \in Nat
  PROVE  LET V == MacVersions(major, minor) IN
         /\ V \in Seq(VersionPair) /\ Len(V) = major + 3
         /\ \A i \in 1..(major + 3) :
              V[i] = IF i <= major - 10 THEN <<major - i + 1, 0>> ELSE <<10, major + 7 - i>>
<1> DEFINE D == Down(major, 11)
           E == Down(16, 4)
           A == [i \in DOMAIN D |-> <<D[i], 0>>]
           B == [i \in DOMAIN E |-> <<10, E[i]>>]
           n == major - 10
<1>1. n \in Nat
  OBVIOUS
<1>2. DOMAIN D = 1..n /\ \A i \in 1..n : D[i] = major - i + 1 /\ D[i] \in Nat
  <2>1. DOMAIN D = 1..(major - 11 + 1) /\ \A i \in 1..(major - 11 + 1) : D[i] = major - i + 1 /\ D[i] \in 11..major
    <3>1. major \in Int /\ 11 \in Int OBVIOUS
    <3> QED BY <3>1, DownIs
  <2>2. major - 11 + 1 = n
    OBVIOUS
  <2> HIDE DEF D
  <2> QED BY <2>1, <2>2
<1>3. DOMAIN E = 1..13 /\ \A i \in 1..13 : E[i] = 17 - i /\ E[i] \in Nat
  <2>1. DOMAIN E = 1..(16 - 4 + 1) /\ \A i \in 1..(16 - 4 + 1) : E[i] = 16 - i + 1 /\ E[i] \in 4..16
    <3>1. 16 \in Int /\ 4 \in Int OBVIOUS
    <3> QED BY <3>1, DownIs
  <2> HIDE DEF E
  <2> QED BY <2>1
<1> HIDE DEF D, E
<1>4. A = [i \in 1..n |-> A[i]] /\ \A i \in 1..n : A[i] = <<major - i + 1, 0>> /\ A[i] \in VersionPair
  BY <1>2 DEF VersionPair
<1>5. B = [i \in 1..13 |-> B[i]] /\ \A i \in 1..13 : B[i] = <<10, 17 - i>> /\ B[i] \in VersionPair
  BY <1>3 DEF VersionPair
<1>6. MacVersions(major, minor) = A \o B
  BY DEF MacVersions, D, E
<1> HIDE DEF A, B
<1>7. A \in Seq(VersionPair) /\ Len(A) = n
  <2> HIDE DEF n
  <2> QED BY <1>1, <1>4
<1>8. B \in Seq(VersionPair) /\ Len(B) = 13
  BY <1>5
<1>9. A \o B \in Seq(VersionPair) /\ Len(A \o B) = major + 3
  <2>1. A \o B \in Seq(VersionPair) /\ Len(A \o B) = n + 13
    <3>1. A \o B \in Seq(VersionPair) /\ Len(A \o B) = Len(A) + Len(B)
      <4>1. A \in Seq(VersionPair) /\ B \in Seq(VersionPair) BY <1>7, <1>8
      <4> QED BY <4>1, JoinIs
    <3> QED BY <1>7, <1>8, <3>1
  <2> QED BY <2>1
<1>a. \A k \in 1..13 : (A \o B)[n + k] = B[k]
  <2> HIDE DEF n
  <2>1. \A k \in 1..Len(B) : (A \o B)[Len(A) + k] = B[k]
    <3>1. A \in Seq(VersionPair) /\ B \in Seq(VersionPair) BY <1>7, <1>8
    <3> QED BY <3>1, JoinIs
  <2> QED BY <1>7, <1>8, <2>1
<1>10. ASSUME NEW i \in 1..(major + 3)
       PROVE  (A \o B)[i] = IF i <= major - 10 THEN <<major - i + 1, 0>> ELSE <<10, major + 7 - i>>
  <2>1. CASE i <= n
    <3>1. i \in 1..n /\ (A \o B)[i] = A[i] BY <1>7, <1>8, <2>1
    <3> QED BY <1>4, <2>1, <3>1
  <2>2. CASE ~(i <= n)
    <3>0. i - n \in 1..13 /\ n + (i - n) = i BY <2>2
    <3>1. (A \o B)[i] = B[i - n]
      <4> HIDE DEF n
      <4> QED BY <1>a, <3>0
    <3>2. 17 - (i - n) = major + 7 - i OBVIOUS
    <3> QED BY <1>5, <2>2, <3>0, <3>1, <3>2
  <2> QED BY <2>1, <2>2
<1> QED BY <1>6, <1>9, <1>10

\* The versions a system before 11 runs.
LEMMA EarlyVersions ==
  ASSUME NEW major \in Nat, ~(major >= 11), NEW minor \in Nat
  PROVE  LET V == MacVersions(major, minor) IN
         /\ V \in Seq(VersionPair) /\ Len(V) = minor + 1
         /\ \A i \in 1..(minor + 1) : V[i] = <<major, minor - i + 1>>
<1> DEFINE D == Down(minor, 0)
           V == MacVersions(major, minor)
<1>1. DOMAIN D = 1..(minor + 1) /\ \A i \in 1..(minor + 1) : D[i] = minor - i + 1 /\ D[i] \in Nat
  <2>1. DOMAIN D = 1..(minor - 0 + 1) /\ \A i \in 1..(minor - 0 + 1) : D[i] = minor - i + 1 /\ D[i] \in 0..minor
    <3>1. minor \in Int /\ 0 \in Int OBVIOUS
    <3> QED BY <3>1, DownIs
  <2>2. minor - 0 + 1 = minor + 1
    OBVIOUS
  <2> HIDE DEF D
  <2> QED BY <2>1, <2>2
<1>2. V = [i \in DOMAIN D |-> <<major, D[i]>>]
  BY DEF MacVersions
<1> HIDE DEF D, V
<1>3. V = [i \in 1..(minor + 1) |-> V[i]] /\ \A i \in 1..(minor + 1) : V[i] = <<major, minor - i + 1>> /\ V[i] \in VersionPair
  BY <1>1, <1>2 DEF VersionPair
<1>4. minor + 1 \in Nat
  OBVIOUS
<1>5. V \in Seq(VersionPair) /\ Len(V) = minor + 1
  <2> DEFINE m == minor + 1
  <2>1. m \in Nat /\ V = [i \in 1..m |-> V[i]] /\ \A i \in 1..m : V[i] \in VersionPair BY <1>3, <1>4
  <2>2. V \in Seq(VersionPair) /\ Len(V) = m
    <3> HIDE DEF m
    <3> QED BY <2>1
  <2> QED BY <2>2
<1> QED BY <1>3, <1>5 DEF V

\* Which versions are run, and that each is older than the one before.
LEMMA VersionsDescend ==
  ASSUME NEW major \in Nat, NEW minor \in Nat
  PROVE  LET V == MacVersions(major, minor) IN
         /\ V \in Seq(VersionPair)
         /\ \A v \in VersionPair : v \in ToSet(V) <=> MacRuns(major, minor, v)
         /\ \A i, j \in DOMAIN V : i < j => ~AtMost(V[i], V[j])
<1> DEFINE V == MacVersions(major, minor)
<1>1. CASE major >= 11
  <2>1. /\ V \in Seq(VersionPair) /\ Len(V) = major + 3
        /\ \A i \in 1..(major + 3) :
              V[i] = IF i <= major - 10 THEN <<major - i + 1, 0>> ELSE <<10, major + 7 - i>>
    BY <1>1, LateVersions
  <2> HIDE DEF V
  <2>2. DOMAIN V = 1..(major + 3)
    BY <2>1
  <2>3. ASSUME NEW v \in VersionPair, v \in ToSet(V) PROVE MacRuns(major, minor, v)
    <3>1. PICK i \in 1..(major + 3) : V[i] = v BY <2>2, <2>3 DEF ToSet
    <3>2. CASE i <= major - 10
      <4>1. v = <<major - i + 1, 0>> BY <2>1, <3>1, <3>2
      <4>2. v[1] \in 11..major /\ v[2] = 0 BY <1>1, <3>1, <3>2, <4>1
      <4> QED BY <1>1, <4>2 DEF MacRuns
    <3>3. CASE ~(i <= major - 10)
      <4>1. v = <<10, major + 7 - i>> BY <2>1, <3>1, <3>3
      <4>2. v[1] = 10 /\ v[2] \in 4..16 BY <1>1, <3>1, <3>3, <4>1
      <4> QED BY <1>1, <4>2 DEF MacRuns
    <3> QED BY <3>2, <3>3
  <2>4. ASSUME NEW v \in VersionPair, MacRuns(major, minor, v) PROVE v \in ToSet(V)
    <3>1. v = <<v[1], v[2]>> /\ v[1] \in Nat /\ v[2] \in Nat BY DEF VersionPair
    <3>2. CASE v[1] \in 11..major /\ v[2] = 0
      <4> DEFINE i == major - v[1] + 1
      <4>1. i \in 1..(major + 3) /\ i <= major - 10 /\ major - i + 1 = v[1] BY <3>2
      <4> HIDE DEF i
      <4>2. V[i] = <<v[1], 0>> BY <2>1, <4>1
      <4> QED BY <2>2, <3>1, <3>2, <4>1, <4>2 DEF ToSet
    <3>3. CASE v[1] = 10 /\ v[2] \in 4..16
      <4> DEFINE i == major + 7 - v[2]
      <4>1. i \in 1..(major + 3) /\ ~(i <= major - 10) /\ major + 7 - i = v[2] BY <1>1, <3>3
      <4> HIDE DEF i
      <4>2. V[i] = <<10, v[2]>> BY <2>1, <4>1
      <4> QED BY <2>2, <3>1, <3>3, <4>1, <4>2 DEF ToSet
    <3> QED BY <1>1, <2>4, <3>2, <3>3 DEF MacRuns
  <2>5. ASSUME NEW i \in 1..(major + 3), NEW j \in 1..(major + 3), i < j PROVE ~AtMost(V[i], V[j])
    <3>1. CASE j <= major - 10
      <4>1. V[i] = <<major - i + 1, 0>> /\ V[j] = <<major - j + 1, 0>> BY <2>1, <2>5, <3>1
      <4> QED BY <2>5, <4>1 DEF AtMost
    <3>2. CASE i <= major - 10 /\ ~(j <= major - 10)
      <4>1. V[i] = <<major - i + 1, 0>> /\ V[j] = <<10, major + 7 - j>> BY <2>1, <2>5, <3>2
      <4> QED BY <2>5, <3>2, <4>1 DEF AtMost
    <3>3. CASE ~(i <= major - 10)
      <4>1. V[i] = <<10, major + 7 - i>> /\ V[j] = <<10, major + 7 - j>> BY <2>1, <2>5, <3>3
      <4> QED BY <2>5, <4>1 DEF AtMost
    <3> QED BY <3>1, <3>2, <3>3
  <2>6. \A i, j \in DOMAIN V : i < j => ~AtMost(V[i], V[j])
    BY <2>2, <2>5
  <2>7. \A v \in VersionPair : v \in ToSet(V) <=> MacRuns(major, minor, v)
    BY <2>3, <2>4
  <2> QED BY <2>1, <2>6, <2>7 DEF V
<1>2. CASE ~(major >= 11)
  <2>1. /\ V \in Seq(VersionPair) /\ Len(V) = minor + 1
        /\ \A i \in 1..(minor + 1) : V[i] = <<major, minor - i + 1>>
    BY <1>2, EarlyVersions
  <2> HIDE DEF V
  <2>2. DOMAIN V = 1..(minor + 1)
    BY <2>1
  <2>3. ASSUME NEW v \in VersionPair, v \in ToSet(V) PROVE MacRuns(major, minor, v)
    <3>1. PICK i \in 1..(minor + 1) : V[i] = v BY <2>2, <2>3 DEF ToSet
    <3>2. v = <<major, minor - i + 1>> BY <2>1, <3>1
    <3>3. v[1] = major /\ v[2] \in 0..minor BY <3>1, <3>2
    <3> QED BY <1>2, <3>3 DEF MacRuns
  <2>4. ASSUME NEW v \in VersionPair, MacRuns(major, minor, v) PROVE v \in ToSet(V)
    <3>1. v = <<v[1], v[2]>> /\ v[1] \in Nat /\ v[2] \in Nat BY DEF VersionPair
    <3>2. v[1] = major /\ v[2] \in 0..minor BY <1>2, <2>4 DEF MacRuns
    <3> DEFINE i == minor - v[2] + 1
    <3>3. i \in 1..(minor + 1) /\ minor - i + 1 = v[2] BY <3>2
    <3> HIDE DEF i
    <3>4. V[i] = <<major, v[2]>> BY <2>1, <3>3
    <3> QED BY <2>2, <3>1, <3>2, <3>3, <3>4 DEF ToSet
  <2>5. ASSUME NEW i \in 1..(minor + 1), NEW j \in 1..(minor + 1), i < j PROVE ~AtMost(V[i], V[j])
    <3>1. V[i] = <<major, minor - i + 1>> /\ V[j] = <<major, minor - j + 1>> BY <2>1
    <3> QED BY <2>5, <3>1 DEF AtMost
  <2>6. \A i, j \in DOMAIN V : i < j => ~AtMost(V[i], V[j])
    BY <2>2, <2>5
  <2>7. \A v \in VersionPair : v \in ToSet(V) <=> MacRuns(major, minor, v)
    BY <2>3, <2>4
  <2> QED BY <2>1, <2>6, <2>7 DEF V
<1> QED BY <1>1, <1>2

\* The binary formats of an architecture.
LEMMA FormatsAre == ASSUME NEW arch \in Word PROVE Formats(arch) \in Seq(Word)
<1>1. {"arm64", "x86_64", "intel", "fat64", "fat32", "universal2", "universal"} \subseteq Word
  BY DEF Word
<1>2. CASE arch = "arm64"
  <2>1. Formats(arch) = <<"arm64", "universal2">> BY <1>2 DEF Formats
  <2>2. <<"arm64", "universal2">> \in Seq(Word) BY <1>1
  <2> QED BY <2>1, <2>2
<1>3. CASE arch = "x86_64"
  <2>1. Formats(arch) = <<"x86_64", "intel", "fat64", "fat32", "universal2", "universal">>
    BY <1>3 DEF Formats
  <2>2. <<"x86_64", "intel", "fat64", "fat32", "universal2", "universal">> \in Seq(Word) BY <1>1
  <2> QED BY <2>1, <2>2
<1>4. CASE arch \notin {"arm64", "x86_64"}
  <2>1. Formats(arch) = <<arch>> BY <1>4 DEF Formats
  <2>2. <<arch>> \in Seq(Word) OBVIOUS
  <2> QED BY <2>1, <2>2
<1> QED BY <1>2, <1>3, <1>4

\* Tags that differ in their version only are versions apart.
LEMMA VersionIs ==
  ASSUME NEW q \in PlatformTag
  PROVE  Version(q) \in VersionPair /\ Version(q)[1] = q.major /\ Version(q)[2] = q.minor
BY PlatformEq DEF Version, VersionPair

\* What a macOS platform's expansion holds, and in which order.
LEMMA MacosExpansion ==
  ASSUME NEW p \in PlatformTag
  PROVE  LET s == ExpandMacos(p) IN
         /\ s \in Seq(PlatformTag)
         /\ \A q \in PlatformTag :
              q \in ToSet(s) <=> /\ q.family = "macosx" /\ MacRuns(p.major, p.minor, Version(q))
                                 /\ q.arch \in ToSet(Formats(p.arch))
         /\ \A t, u \in ToSet(s) :
              AtMost(Version(u), Version(t)) /\ Version(u) # Version(t) => Before(s, t, u)
<1> DEFINE V == MacVersions(p.major, p.minor)
           F == Formats(p.arch)
           Piece(v) == [i \in DOMAIN F |-> Platform("macosx", v[1], v[2], F[i])]
           pieces == [i \in DOMAIN V |-> Piece(V[i])]
           s == ExpandMacos(p)
<1>1. p.major \in Nat /\ p.minor \in Nat /\ p.arch \in Word
  BY PlatformEq
<1>2. /\ V \in Seq(VersionPair)
      /\ \A v \in VersionPair : v \in ToSet(V) <=> MacRuns(p.major, p.minor, v)
      /\ \A i, j \in DOMAIN V : i < j => ~AtMost(V[i], V[j])
  BY <1>1, VersionsDescend
<1>3. F \in Seq(Word) /\ DOMAIN F = 1..Len(F) /\ Len(F) \in Nat
  <2>1. F \in Seq(Word) BY <1>1, FormatsAre
  <2> HIDE DEF F
  <2> QED BY <2>1
<1>4. s = FlattenSeq(pieces)
  BY DEF ExpandMacos, Each
<1> HIDE DEF V, F, s
<1>5. ASSUME NEW v \in VersionPair
      PROVE  /\ Piece(v) \in Seq(PlatformTag)
             /\ \A q \in PlatformTag :
                  q \in ToSet(Piece(v)) <=> q.family = "macosx" /\ Version(q) = v /\ q.arch \in ToSet(F)
  <2> DEFINE z == Piece(v)
  <2>1. v[1] \in Nat /\ v[2] \in Nat /\ v = <<v[1], v[2]>> /\ "macosx" \in Word /\ "macosx" # "linux"
    BY DEF VersionPair, Word
  <2>2. ASSUME NEW i \in 1..Len(F) PROVE F[i] \in Word
    BY <1>3
  <2>3. z = [i \in 1..Len(F) |-> z[i]] /\ \A i \in 1..Len(F) : z[i] = Platform("macosx", v[1], v[2], F[i])
    BY <1>3
  <2> HIDE DEF z
  <2>4. ASSUME NEW i \in 1..Len(F) PROVE z[i] \in PlatformTag
    <3>1. Platform("macosx", v[1], v[2], F[i]) \in PlatformTag
      BY <2>1, <2>2, PlatformIs
    <3> QED BY <2>3, <3>1
  <2>5. z \in Seq(PlatformTag) /\ DOMAIN z = 1..Len(F)
    BY <1>3, <2>3, <2>4
  <2>6. ASSUME NEW q \in PlatformTag, NEW i \in 1..Len(F)
        PROVE  q = z[i] <=> q.family = "macosx" /\ Version(q) = v /\ q.arch = F[i]
    <3>1. q = Platform("macosx", v[1], v[2], F[i])
            <=> q.family = "macosx" /\ q.major = v[1] /\ q.minor = v[2] /\ q.arch = F[i]
      BY <2>1, <2>2, PlatformIsBy
    <3>2. Version(q) = v <=> q.major = v[1] /\ q.minor = v[2]
      BY <2>1 DEF Version
    <3> QED BY <2>3, <3>1, <3>2
  <2>7. ASSUME NEW q \in PlatformTag
        PROVE  q \in ToSet(z) <=> q.family = "macosx" /\ Version(q) = v /\ q.arch \in ToSet(F)
    <3>1. q \in ToSet(z) <=> \E i \in 1..Len(F) : q = z[i]
      BY <2>5 DEF ToSet
    <3>2. q.arch \in ToSet(F) <=> \E i \in 1..Len(F) : q.arch = F[i]
      BY <1>3 DEF ToSet
    <3> QED BY <2>6, <3>1, <3>2
  <2> QED BY <2>5, <2>7 DEF z
<1> HIDE DEF Piece
<1>6. DOMAIN V = 1..Len(V) /\ Len(V) \in Nat /\ \A i \in 1..Len(V) : V[i] \in VersionPair
  BY <1>2
<1>7. /\ pieces \in Seq(Seq(PlatformTag)) /\ DOMAIN pieces = 1..Len(V)
      /\ \A i \in 1..Len(V) : pieces[i] = Piece(V[i])
  <2>1. pieces = [i \in 1..Len(V) |-> pieces[i]] /\ \A i \in 1..Len(V) : pieces[i] = Piece(V[i])
    BY <1>6
  <2> HIDE DEF pieces
  <2>2. ASSUME NEW i \in 1..Len(V) PROVE pieces[i] \in Seq(PlatformTag)
    <3>1. Piece(V[i]) \in Seq(PlatformTag) BY <1>5, <1>6
    <3> QED BY <2>1, <3>1
  <2>3. pieces \in Seq(Seq(PlatformTag)) /\ DOMAIN pieces = 1..Len(V)
    BY <1>6, <2>1, <2>2
  <2> QED BY <2>1, <2>3
<1> HIDE DEF pieces
<1>8. /\ FlattenSeq(pieces) \in Seq(PlatformTag)
      /\ \A e : e \in ToSet(FlattenSeq(pieces)) <=> \E i \in DOMAIN pieces : e \in ToSet(pieces[i])
  <2>1. pieces \in Seq(Seq(PlatformTag)) BY <1>7
  <2> QED BY <2>1, FlattenMembers
<1>9. ASSUME NEW q \in PlatformTag
      PROVE  q \in ToSet(s) <=> /\ q.family = "macosx" /\ MacRuns(p.major, p.minor, Version(q))
                                /\ q.arch \in ToSet(F)
  <2>1. Version(q) \in VersionPair BY VersionIs
  <2>2. MacRuns(p.major, p.minor, Version(q)) <=> \E i \in 1..Len(V) : V[i] = Version(q)
    <3>1. Version(q) \in ToSet(V) <=> \E i \in 1..Len(V) : V[i] = Version(q) BY <1>6 DEF ToSet
    <3> QED BY <1>2, <2>1, <3>1
  <2>3. q \in ToSet(s) <=> \E i \in 1..Len(V) : q \in ToSet(Piece(V[i]))
    BY <1>4, <1>7, <1>8
  <2>4. \A i \in 1..Len(V) :
          q \in ToSet(Piece(V[i])) <=> q.family = "macosx" /\ Version(q) = V[i] /\ q.arch \in ToSet(F)
    BY <1>5, <1>6
  <2> QED BY <2>2, <2>3, <2>4
<1>10. ASSUME NEW t \in ToSet(s), NEW u \in ToSet(s), AtMost(Version(u), Version(t)),
              Version(u) # Version(t)
       PROVE  Before(s, t, u)
  <2>1. t \in PlatformTag /\ u \in PlatformTag
    BY <1>4, <1>8 DEF ToSet
  <2>2. PICK m \in 1..Len(V) : t \in ToSet(Piece(V[m]))
    BY <1>4, <1>7, <1>8
  <2>3. Version(t) = V[m]
    BY <1>5, <1>6, <2>1, <2>2
  <2>4. ASSUME NEW i \in 1..m, u \in ToSet(pieces[i]) PROVE FALSE
    <3>1. i \in 1..Len(V) /\ pieces[i] = Piece(V[i]) BY <1>6, <1>7
    <3>2. Version(u) = V[i] BY <1>5, <1>6, <2>1, <2>4, <3>1
    <3>3. i # m BY <1>10, <2>3, <3>2
    <3>4. i < m /\ i \in DOMAIN V /\ m \in DOMAIN V BY <1>6, <3>1, <3>3
    <3> QED BY <1>2, <1>10, <2>3, <3>2, <3>4
  <2>5. Before(pieces[m], t, u)
    <3>1. PICK k \in DOMAIN pieces[m] : pieces[m][k] = t
      BY <1>7, <2>2 DEF ToSet
    <3>2. pieces[m] \in Seq(PlatformTag)
      BY <1>5, <1>6, <1>7
    <3>3. \A j \in 1..k : j \in DOMAIN pieces[m]
      BY <3>2
    <3>4. u \notin ToSet(pieces[m])
      BY <1>6, <2>4
    <3> QED BY <3>1, <3>3, <3>4 DEF Before, ToSet
  <2>6. Before(FlattenSeq(pieces), t, u)
    <3>1. m \in DOMAIN pieces /\ \A i \in 1..(m - 1) : u \notin ToSet(pieces[i])
      BY <1>6, <1>7, <2>4
    <3>2. pieces \in Seq(Seq(PlatformTag)) BY <1>7
    <3> QED BY <2>5, <3>1, <3>2, FlattenBefore
  <2> QED BY <1>4, <2>6
<1>11. s \in Seq(PlatformTag) BY <1>4, <1>8
<1> QED BY <1>9, <1>10, <1>11 DEF s, F

\* A newer platform has a later version.
LEMMA NewerDiffers ==
  ASSUME NEW t \in PlatformTag, NEW u \in PlatformTag, NewerPlatform(t, u)
  PROVE  /\ Version(u) # Version(t) /\ u.family # "linux"
         /\ u.major < t.major \/ (u.major = t.major /\ u.minor < t.minor)
<1>1. t = Platform(t.family, t.major, t.minor, t.arch) /\ u = Platform(u.family, u.major, u.minor, u.arch)
  BY PlatformEq
<1>2. /\ t.major \in Nat /\ u.major \in Nat /\ t.minor \in Nat /\ u.minor \in Nat
      /\ t.family = "linux" => t.major = 0 /\ t.minor = 0
      /\ u.family = "linux" => u.major = 0 /\ u.minor = 0
  BY PlatformEq
<1>3. t.family = u.family /\ t.arch = u.arch /\ t # u
  BY DEF NewerPlatform
<1>4. ~(t.major = u.major /\ t.minor = u.minor)
  BY <1>1, <1>3
<1>5. u.major < t.major \/ (u.major = t.major /\ u.minor <= t.minor)
  BY DEF NewerPlatform, AtMost, Version
<1>6. Version(u) # Version(t)
  BY <1>4 DEF Version
<1> QED BY <1>2, <1>3, <1>4, <1>5, <1>6

\* What a host runs and its expansion lists.
Expands(h, q) == RunsPlatform(h, q) /\ ~Skipped(h, q)

\* What that is, family by family.
LEMMA RunsByFamily ==
  ASSUME NEW h \in PlatformTag, NEW q \in PlatformTag
  PROVE  /\ IsGlibc(h) =>
              (Expands(h, q) <=>
                 \/ /\ IsGlibc(q) /\ q.arch = h.arch /\ q.major = h.major /\ q.minor <= h.minor
                    /\ q.family = "legacy" => Version(q) \in Legacy
                 \/ q.family = "linux" /\ q.arch = h.arch)
         /\ h.family = "musllinux" =>
              (Expands(h, q) <=>
                 \/ /\ q.family = "musllinux" /\ q.arch = h.arch
                    /\ q.major = h.major /\ q.minor <= h.minor
                 \/ q.family = "linux" /\ q.arch = h.arch)
         /\ h.family = "macosx" =>
              (Expands(h, q) <=>
                 /\ q.family = "macosx" /\ q.arch \in ToSet(Formats(h.arch))
                 /\ AtMost(Version(q), Version(h))
                 /\ IF h.major >= 11
                    THEN (q.major >= 11 /\ q.minor = 0) \/ (q.major = 10 /\ q.minor \in 4..16)
                    ELSE q.major = h.major)
         /\ ~IsGlibc(h) /\ h.family \notin {"musllinux", "macosx"} => (Expands(h, q) <=> q = h)
<1>0. /\ h.major \in Nat /\ h.minor \in Nat /\ q.major \in Nat /\ q.minor \in Nat
      /\ q.family = "linux" => q.major = 0 /\ q.minor = 0
      /\ AtMost(Version(q), Version(h)) <=> q.major < h.major \/ (q.major = h.major /\ q.minor <= h.minor)
  BY PlatformEq DEF AtMost, Version
<1>1. CASE IsGlibc(h)
  <2>1. h.family # "musllinux" /\ h.family # "macosx" /\ h.family # "linux" BY <1>1 DEF IsGlibc
  <2>2. Skipped(h, q) <=> q.family # "linux" /\ q.major < h.major BY <2>1 DEF Skipped
  <2>3. CASE IsGlibc(q)
    <3>1. q.family # "linux" BY <2>3 DEF IsGlibc
    <3>2. RunsPlatform(h, q) <=> /\ q.arch = h.arch /\ AtMost(Version(q), Version(h))
                                 /\ q.family = "legacy" => Version(q) \in Legacy
      BY <1>1, <2>1, <2>3, <3>1 DEF RunsPlatform, IsGlibc
    <3> QED BY <1>0, <1>1, <2>1, <2>2, <2>3, <3>1, <3>2 DEF Expands
  <2>4. CASE q.family = "linux"
    <3>1. RunsPlatform(h, q) <=> q.arch = h.arch BY <1>1, <2>1, <2>4 DEF RunsPlatform, IsGlibc
    <3>2. ~IsGlibc(q) BY <2>4 DEF IsGlibc
    <3> QED BY <1>1, <2>1, <2>2, <2>4, <3>1, <3>2 DEF Expands
  <2>5. CASE ~IsGlibc(q) /\ q.family # "linux"
    <3>1. q # h BY <1>1, <2>5
    <3>2. ~RunsPlatform(h, q) BY <1>1, <2>1, <2>5, <3>1 DEF RunsPlatform, IsGlibc
    <3> QED BY <1>1, <2>1, <2>5, <3>2 DEF Expands
  <2> QED BY <2>3, <2>4, <2>5
<1>2. CASE h.family = "musllinux"
  <2>1. ~IsGlibc(h) BY <1>2 DEF IsGlibc
  <2>2. Skipped(h, q) <=> q.family # "linux" /\ q.major < h.major BY <1>2 DEF Skipped
  <2>3. CASE q.family = "musllinux"
    <3>1. RunsPlatform(h, q) <=> q.arch = h.arch /\ AtMost(Version(q), Version(h))
      BY <1>2, <2>1, <2>3 DEF RunsPlatform, IsGlibc
    <3> QED BY <1>0, <1>2, <2>1, <2>2, <2>3, <3>1 DEF Expands
  <2>4. CASE q.family = "linux"
    <3>1. RunsPlatform(h, q) <=> q.arch = h.arch BY <1>2, <2>1, <2>4 DEF RunsPlatform, IsGlibc
    <3> QED BY <1>2, <2>1, <2>2, <2>4, <3>1 DEF Expands
  <2>5. CASE q.family # "musllinux" /\ q.family # "linux"
    <3>1. q # h BY <1>2, <2>5
    <3>2. ~RunsPlatform(h, q) BY <1>2, <2>1, <2>5, <3>1 DEF RunsPlatform, IsGlibc
    <3> QED BY <1>2, <2>1, <2>5, <3>2 DEF Expands
  <2> QED BY <2>3, <2>4, <2>5
<1>3. CASE h.family = "macosx"
  <2>1. ~IsGlibc(h) BY <1>3 DEF IsGlibc
  <2>2. CASE q.family = "macosx"
    <3>1. RunsPlatform(h, q) <=> q.arch \in ToSet(Formats(h.arch)) /\ AtMost(Version(q), Version(h))
      BY <1>3, <2>1, <2>2 DEF RunsPlatform, IsGlibc
    <3>2. CASE h.major >= 11
      <4>1. Skipped(h, q) <=> IF q.major >= 11 THEN q.minor # 0 ELSE q.major < 10 \/ q.minor \notin 4..16
        BY <1>3, <3>2 DEF Skipped
      <4>2. ~Skipped(h, q) <=> (q.major >= 11 /\ q.minor = 0) \/ (q.major = 10 /\ q.minor \in 4..16)
        BY <1>0, <4>1
      <4> QED BY <1>3, <2>1, <2>2, <3>1, <3>2, <4>2 DEF Expands
    <3>3. CASE ~(h.major >= 11)
      <4>1. Skipped(h, q) <=> q.major < h.major BY <2>2, <3>3 DEF Skipped
      <4>2. ASSUME AtMost(Version(q), Version(h)) PROVE ~Skipped(h, q) <=> q.major = h.major
        BY <1>0, <4>1, <4>2
      <4> QED BY <1>3, <2>1, <2>2, <3>1, <3>3, <4>2 DEF Expands
    <3> QED BY <3>2, <3>3
  <2>3. CASE q.family # "macosx"
    <3>1. q # h BY <1>3, <2>3
    <3>2. ~RunsPlatform(h, q) BY <1>3, <2>1, <2>3, <3>1 DEF RunsPlatform, IsGlibc
    <3> QED BY <1>3, <2>1, <2>3, <3>2 DEF Expands
  <2> QED BY <2>2, <2>3
<1>4. CASE ~IsGlibc(h) /\ h.family \notin {"musllinux", "macosx"}
  <2>1. RunsPlatform(h, q) <=> q = h BY <1>4 DEF RunsPlatform, IsGlibc
  <2>2. ~Skipped(h, h) BY <1>0, <1>4 DEF Skipped
  <2> QED BY <1>4, <2>1, <2>2 DEF Expands
<1> QED BY <1>1, <1>2, <1>3, <1>4

\* What a declared platform expands to: the platforms it runs but for those that are
\* skipped, each newer one before the older.
LEMMA ExpansionIs ==
  ASSUME NEW h \in PlatformTag
  PROVE  LET s == ExpandPlatform(h) IN
         /\ s \in Seq(PlatformTag)
         /\ \A q \in PlatformTag : q \in ToSet(s) <=> Expands(h, q)
         /\ \A t, u \in ToSet(s) : NewerPlatform(t, u) => Before(s, t, u)
<1> DEFINE s == ExpandPlatform(h)
           Goal == /\ s \in Seq(PlatformTag)
                   /\ \A q \in PlatformTag : q \in ToSet(s) <=> Expands(h, q)
                   /\ \A t, u \in ToSet(s) : NewerPlatform(t, u) => Before(s, t, u)
<1>0. "manylinux" \in Word /\ "musllinux" \in Word
  BY DEF Word
<1>a. h.major \in Nat /\ h.minor \in Nat
  BY PlatformEq
<1>1. ASSUME NEW kind \in Word, kind # "linux", kind # "legacy", s = ExpandLinux(h, kind)
      PROVE  /\ s \in Seq(PlatformTag)
             /\ \A q \in PlatformTag :
                  q \in ToSet(s) <=>
                    \/ q.family = kind /\ q.major = h.major /\ q.minor <= h.minor /\ q.arch = h.arch
                    \/ /\ kind = "manylinux" /\ q.family = "legacy" /\ Version(q) \in Legacy
                       /\ q.major = h.major /\ q.minor <= h.minor /\ q.arch = h.arch
                    \/ q.family = "linux" /\ q.arch = h.arch
             /\ \A t, u \in ToSet(s) : NewerPlatform(t, u) => Before(s, t, u)
  <2> HIDE DEF s
  <2>1. /\ s \in Seq(PlatformTag)
        /\ \A q \in PlatformTag :
             q \in ToSet(s) <=>
               \/ q.family = kind /\ q.major = h.major /\ q.minor <= h.minor /\ q.arch = h.arch
               \/ /\ kind = "manylinux" /\ q.family = "legacy" /\ Version(q) \in Legacy
                  /\ q.major = h.major /\ q.minor <= h.minor /\ q.arch = h.arch
               \/ q.family = "linux" /\ q.arch = h.arch
        /\ \A t, u \in ToSet(s) : t.family = u.family /\ u.minor < t.minor => Before(s, t, u)
    BY <1>1, LinuxExpansion
  <2>2. ASSUME NEW t \in ToSet(s), NEW u \in ToSet(s), NewerPlatform(t, u) PROVE Before(s, t, u)
    <3>1. t \in PlatformTag /\ u \in PlatformTag BY <2>1 DEF ToSet
    <3>2. /\ u.family # "linux" /\ t.family = u.family
          /\ u.major < t.major \/ (u.major = t.major /\ u.minor < t.minor)
      BY <2>2, <3>1, NewerDiffers DEF NewerPlatform
    <3>3. t.major = h.major /\ u.major = h.major BY <2>1, <3>1, <3>2
    <3>4. u.minor < t.minor BY <1>a, <3>2, <3>3
    <3> QED BY <2>1, <3>2, <3>4
  <2> QED BY <2>1, <2>2
<1>2. CASE IsGlibc(h)
  <2>1. s = ExpandLinux(h, "manylinux") BY <1>2 DEF ExpandPlatform, IsGlibc
  <2> HIDE DEF s
  <2>2. /\ s \in Seq(PlatformTag)
        /\ \A q \in PlatformTag :
             q \in ToSet(s) <=>
               \/ q.family = "manylinux" /\ q.major = h.major /\ q.minor <= h.minor /\ q.arch = h.arch
               \/ /\ q.family = "legacy" /\ Version(q) \in Legacy
                  /\ q.major = h.major /\ q.minor <= h.minor /\ q.arch = h.arch
               \/ q.family = "linux" /\ q.arch = h.arch
        /\ \A t, u \in ToSet(s) : NewerPlatform(t, u) => Before(s, t, u)
    BY <1>0, <1>1, <2>1
  <2>3. ASSUME NEW q \in PlatformTag PROVE q \in ToSet(s) <=> Expands(h, q)
    <3>1. Expands(h, q) <=>
                 \/ /\ IsGlibc(q) /\ q.arch = h.arch /\ q.major = h.major /\ q.minor <= h.minor
                    /\ q.family = "legacy" => Version(q) \in Legacy
                 \/ q.family = "linux" /\ q.arch = h.arch
      BY <1>2, RunsByFamily
    <3> QED BY <2>2, <3>1 DEF IsGlibc
  <2> QED BY <2>2, <2>3 DEF s
<1>3. CASE h.family = "musllinux"
  <2>1. s = ExpandLinux(h, "musllinux") BY <1>3 DEF ExpandPlatform
  <2> HIDE DEF s
  <2>2. /\ s \in Seq(PlatformTag)
        /\ \A q \in PlatformTag :
             q \in ToSet(s) <=>
               \/ q.family = "musllinux" /\ q.major = h.major /\ q.minor <= h.minor /\ q.arch = h.arch
               \/ q.family = "linux" /\ q.arch = h.arch
        /\ \A t, u \in ToSet(s) : NewerPlatform(t, u) => Before(s, t, u)
    BY <1>0, <1>1, <2>1
  <2>3. ASSUME NEW q \in PlatformTag PROVE q \in ToSet(s) <=> Expands(h, q)
    BY <1>3, <2>2, RunsByFamily
  <2> QED BY <2>2, <2>3 DEF s
<1>4. CASE h.family = "macosx"
  <2>1. s = ExpandMacos(h) BY <1>4 DEF ExpandPlatform
  <2> HIDE DEF s
  <2>2. /\ s \in Seq(PlatformTag)
        /\ \A q \in PlatformTag :
              q \in ToSet(s) <=> /\ q.family = "macosx" /\ MacRuns(h.major, h.minor, Version(q))
                                 /\ q.arch \in ToSet(Formats(h.arch))
        /\ \A t, u \in ToSet(s) :
              AtMost(Version(u), Version(t)) /\ Version(u) # Version(t) => Before(s, t, u)
    BY <2>1, MacosExpansion
  <2>3. ASSUME NEW q \in PlatformTag PROVE q \in ToSet(s) <=> Expands(h, q)
    <3>1. Expands(h, q) <=>
                 /\ q.family = "macosx" /\ q.arch \in ToSet(Formats(h.arch))
                 /\ AtMost(Version(q), Version(h))
                 /\ IF h.major >= 11
                    THEN (q.major >= 11 /\ q.minor = 0) \/ (q.major = 10 /\ q.minor \in 4..16)
                    ELSE q.major = h.major
      BY <1>4, RunsByFamily
    <3>2. /\ Version(q)[1] = q.major /\ Version(q)[2] = q.minor /\ q.major \in Nat /\ q.minor \in Nat
          /\ Version(h)[1] = h.major /\ Version(h)[2] = h.minor
      BY VersionIs, PlatformEq
    <3>3. MacRuns(h.major, h.minor, Version(q)) <=>
                 /\ AtMost(Version(q), Version(h))
                 /\ IF h.major >= 11
                    THEN (q.major >= 11 /\ q.minor = 0) \/ (q.major = 10 /\ q.minor \in 4..16)
                    ELSE q.major = h.major
      BY <1>a, <3>2 DEF MacRuns, AtMost
    <3> QED BY <2>2, <3>1, <3>3
  <2>4. ASSUME NEW t \in ToSet(s), NEW u \in ToSet(s), NewerPlatform(t, u) PROVE Before(s, t, u)
    <3>1. t \in PlatformTag /\ u \in PlatformTag BY <2>2 DEF ToSet
    <3>2. AtMost(Version(u), Version(t)) /\ Version(u) # Version(t)
      BY <2>4, <3>1, NewerDiffers DEF NewerPlatform
    <3> QED BY <2>2, <3>2
  <2> QED BY <2>2, <2>3, <2>4 DEF s
<1>5. CASE ~IsGlibc(h) /\ h.family \notin {"musllinux", "macosx"}
  <2>1. s = <<h>> BY <1>5 DEF ExpandPlatform, IsGlibc
  <2> HIDE DEF s
  <2>2. s \in Seq(PlatformTag) /\ ToSet(s) = {h} BY <2>1, Single
  <2>3. ASSUME NEW q \in PlatformTag PROVE q \in ToSet(s) <=> Expands(h, q)
    BY <1>5, <2>2, RunsByFamily
  <2>4. ASSUME NEW t \in ToSet(s), NEW u \in ToSet(s), NewerPlatform(t, u) PROVE Before(s, t, u)
    BY <2>2, <2>4 DEF NewerPlatform
  <2> QED BY <2>2, <2>3, <2>4 DEF s
<1> QED BY <1>2, <1>3, <1>4, <1>5

\* A platform declared later does not add a newer version of one that an earlier
\* declared platform runs.
LEMMA KeepsNewer ==
  ASSUME NEW g \in PlatformTag, NEW h \in PlatformTag, LastTen(g), LastTen(h),
         OneLine(g, h) => AtMost(Version(h), Version(g)),
         NEW t \in PlatformTag, NEW u \in PlatformTag, NewerPlatform(t, u),
         Expands(g, u), Expands(h, t)
  PROVE  Expands(g, t)
<1>1. /\ t.family = u.family /\ t.arch = u.arch /\ u.family # "linux" /\ t # u
      /\ u.major < t.major \/ (u.major = t.major /\ u.minor < t.minor)
  BY NewerDiffers DEF NewerPlatform
<1>2. /\ t.major \in Nat /\ u.major \in Nat /\ t.minor \in Nat /\ u.minor \in Nat
      /\ g.major \in Nat /\ h.major \in Nat /\ g.minor \in Nat /\ h.minor \in Nat
  BY PlatformEq
<1>3. \A p, q : AtMost(Version(p), Version(q))
                  <=> p.major < q.major \/ (p.major = q.major /\ p.minor <= q.minor)
  BY DEF AtMost, Version
<1>4. CASE IsGlibc(g)
  <2>1. IsGlibc(u) /\ u.arch = g.arch /\ u.major = g.major
    BY <1>1, <1>4, RunsByFamily
  <2>2. IsGlibc(t) /\ t.arch = g.arch BY <1>1, <2>1 DEF IsGlibc
  <2>3. IsGlibc(h)
    <3>1. CASE h.family = "musllinux" BY <1>1, <2>2, <3>1, RunsByFamily DEF IsGlibc
    <3>2. CASE h.family = "macosx" BY <2>2, <3>2, RunsByFamily DEF IsGlibc
    <3>3. CASE ~IsGlibc(h) /\ h.family \notin {"musllinux", "macosx"}
      <4>1. t = h BY <3>3, RunsByFamily
      <4> QED BY <2>2, <3>3, <4>1
    <3> QED BY <3>1, <3>2, <3>3
  <2>4. /\ t.arch = h.arch /\ t.major = h.major /\ t.minor <= h.minor
        /\ t.family = "legacy" => Version(t) \in Legacy
    BY <1>1, <2>3, RunsByFamily
  <2>5. OneLine(g, h) BY <1>4, <2>2, <2>3, <2>4 DEF OneLine, Line
  <2>6. t.major = g.major /\ t.minor <= g.minor
    BY <1>1, <1>2, <1>3, <2>1, <2>4, <2>5
  <2> QED BY <1>4, <2>2, <2>4, <2>6, RunsByFamily
<1>5. CASE g.family = "musllinux"
  <2>1. u.family = "musllinux" /\ u.arch = g.arch /\ u.major = g.major
    BY <1>1, <1>5, RunsByFamily
  <2>2. t.family = "musllinux" /\ t.arch = g.arch BY <1>1, <2>1
  <2>3. h.family = "musllinux"
    <3>1. CASE IsGlibc(h) BY <1>1, <2>2, <3>1, RunsByFamily DEF IsGlibc
    <3>2. CASE h.family = "macosx" BY <2>2, <3>2, RunsByFamily
    <3>3. CASE ~IsGlibc(h) /\ h.family \notin {"musllinux", "macosx"}
      <4>1. t = h BY <3>3, RunsByFamily
      <4> QED BY <2>2, <3>3, <4>1
    <3> QED BY <3>1, <3>2, <3>3
  <2>4. t.arch = h.arch /\ t.major = h.major /\ t.minor <= h.minor
    BY <1>1, <2>3, RunsByFamily
  <2>5. OneLine(g, h) BY <1>5, <2>2, <2>3, <2>4 DEF OneLine, Line, IsGlibc
  <2>6. t.major = g.major /\ t.minor <= g.minor
    BY <1>1, <1>2, <1>3, <2>1, <2>4, <2>5
  <2> QED BY <1>5, <2>2, <2>6, RunsByFamily
<1>6. CASE g.family = "macosx"
  <2>1. /\ u.family = "macosx" /\ u.arch \in ToSet(Formats(g.arch))
        /\ u.major < g.major \/ (u.major = g.major /\ u.minor <= g.minor)
        /\ IF g.major >= 11
           THEN (u.major >= 11 /\ u.minor = 0) \/ (u.major = 10 /\ u.minor \in 4..16)
           ELSE u.major = g.major
    BY <1>3, <1>6, RunsByFamily
  <2>2. t.family = "macosx" /\ t.arch \in ToSet(Formats(g.arch)) BY <1>1, <2>1
  <2>3. h.family = "macosx"
    <3>1. CASE IsGlibc(h) BY <2>2, <3>1, RunsByFamily DEF IsGlibc
    <3>2. CASE h.family = "musllinux" BY <2>2, <3>2, RunsByFamily
    <3>3. CASE ~IsGlibc(h) /\ h.family \notin {"musllinux", "macosx"}
      <4>1. t = h BY <3>3, RunsByFamily
      <4> QED BY <2>2, <3>3, <4>1
    <3> QED BY <3>1, <3>2, <3>3
  <2>4. /\ t.major < h.major \/ (t.major = h.major /\ t.minor <= h.minor)
        /\ IF h.major >= 11
           THEN (t.major >= 11 /\ t.minor = 0) \/ (t.major = 10 /\ t.minor \in 4..16)
           ELSE t.major = h.major
    BY <1>3, <2>3, RunsByFamily
  <2>5. OneLine(g, h) BY <1>6, <2>3 DEF OneLine, Line, IsGlibc
  <2>6. h.major < g.major \/ (h.major = g.major /\ h.minor <= g.minor) BY <1>3, <2>5
  <2>7. h.major = 10 => h.minor <= 16 BY <2>3 DEF LastTen
  <2>8. /\ t.major < g.major \/ (t.major = g.major /\ t.minor <= g.minor)
        /\ IF g.major >= 11
           THEN (t.major >= 11 /\ t.minor = 0) \/ (t.major = 10 /\ t.minor \in 4..16)
           ELSE t.major = g.major
    <3>1. CASE g.major >= 11
      <4>1. u.major >= 10 /\ (u.major = 10 => u.minor >= 4) BY <1>2, <2>1, <3>1
      <4>2. t.major >= 10 /\ (t.major = 10 => t.minor >= 4) BY <1>1, <1>2, <4>1
      <4>3. CASE h.major >= 11 BY <1>2, <2>4, <2>6, <3>1, <4>3
      <4>4. CASE ~(h.major >= 11)
        <5>1. t.major = h.major /\ h.major = 10 /\ t.minor <= 16 BY <1>2, <2>4, <2>7, <4>2, <4>4
        <5> QED BY <1>2, <3>1, <4>2, <5>1
      <4> QED BY <4>3, <4>4
    <3>2. CASE ~(g.major >= 11)
      <4>1. u.major = g.major /\ ~(h.major >= 11) BY <1>2, <2>1, <2>6, <3>2
      <4>2. t.major = h.major BY <2>4, <4>1
      <4>3. t.major = g.major BY <1>1, <1>2, <2>6, <4>1, <4>2
      <4> QED BY <1>2, <2>4, <2>6, <3>2, <4>2, <4>3
    <3> QED BY <3>1, <3>2
  <2> QED BY <1>3, <1>6, <2>2, <2>8, RunsByFamily
<1>7. CASE ~IsGlibc(g) /\ g.family \notin {"musllinux", "macosx"}
  <2>1. u = g BY <1>7, RunsByFamily
  <2>2. ~IsGlibc(t) /\ t.family \notin {"musllinux", "macosx", "linux"}
    BY <1>1, <1>7, <2>1 DEF IsGlibc
  <2>3. t = h
    <3>1. CASE IsGlibc(h) BY <2>2, <3>1, RunsByFamily
    <3>2. CASE h.family = "musllinux" BY <2>2, <3>2, RunsByFamily
    <3>3. CASE h.family = "macosx" BY <2>2, <3>3, RunsByFamily
    <3>4. CASE ~IsGlibc(h) /\ h.family \notin {"musllinux", "macosx"} BY <3>4, RunsByFamily
    <3> QED BY <3>1, <3>2, <3>3, <3>4
  <2>4. OneLine(g, h) BY <1>1, <1>7, <2>1, <2>2, <2>3 DEF OneLine, Line
  <2>5. h.major < g.major \/ (h.major = g.major /\ h.minor <= g.minor) BY <1>3, <2>4
  <2> QED BY <1>1, <1>2, <2>1, <2>3, <2>5
<1> QED BY <1>4, <1>5, <1>6, <1>7

-----------------------------------------------------------------------------
(* The platforms and prefixes of a target.                                 *)

\* What an environment's platforms are, and that a newer one comes before an older.
LEMMA PlatformsAre ==
  ASSUME NEW target, IsTarget(target)
  PROVE  LET P == Platforms(target) IN
         /\ P \in Seq(PlatformTag)
         /\ \A q \in PlatformTag :
              q \in ToSet(P) <=> \E d \in ToSet(target.declared) : Expands(d[3], q)
         /\ \A t, u \in ToSet(P) : NewerPlatform(t, u) => Before(P, t, u)
<1> DEFINE D == target.declared
           P == Platforms(target)
           pieces == [i \in DOMAIN D |-> ExpandPlatform(D[i][3])]
<1>1. /\ D \in Seq(Tag) /\ DOMAIN D = 1..Len(D) /\ Len(D) \in Nat
      /\ \A i \in 1..Len(D) : D[i] \in Tag
  <2>1. D \in Seq(Tag) BY DEF IsTarget
  <2> HIDE DEF D
  <2> QED BY <2>1
<1>2. ASSUME NEW i \in 1..Len(D) PROVE D[i][3] \in PlatformTag /\ LastTen(D[i][3])
  <2>1. D[i] \in Tag BY <1>1
  <2>2. D[i][3] \in PlatformTag
    <3> HIDE DEF D
    <3> QED BY <2>1 DEF Tag
  <2> QED BY <1>1, <2>2 DEF IsTarget
<1>3. \A i, j \in 1..Len(D) : i < j /\ OneLine(D[i][3], D[j][3])
        => AtMost(Version(D[j][3]), Version(D[i][3])) \/ \E k \in 1..(i - 1) : D[k][3] = D[j][3]
  BY <1>1 DEF IsTarget, NewestFirst
<1>4. P = FlattenSeq(pieces)
  BY DEF Platforms, Each
<1> HIDE DEF D, P
<1>5. ASSUME NEW i \in 1..Len(D)
      PROVE  /\ ExpandPlatform(D[i][3]) \in Seq(PlatformTag)
             /\ \A q \in PlatformTag : q \in ToSet(ExpandPlatform(D[i][3])) <=> Expands(D[i][3], q)
             /\ \A t, u \in ToSet(ExpandPlatform(D[i][3])) :
                  NewerPlatform(t, u) => Before(ExpandPlatform(D[i][3]), t, u)
  BY <1>2, ExpansionIs
<1>6. /\ pieces \in Seq(Seq(PlatformTag)) /\ DOMAIN pieces = 1..Len(D)
      /\ \A i \in 1..Len(D) : pieces[i] = ExpandPlatform(D[i][3])
  <2>1. pieces = [i \in 1..Len(D) |-> pieces[i]] /\ \A i \in 1..Len(D) : pieces[i] = ExpandPlatform(D[i][3])
    BY <1>1
  <2> HIDE DEF pieces
  <2>2. ASSUME NEW i \in 1..Len(D) PROVE pieces[i] \in Seq(PlatformTag)
    BY <1>5, <2>1
  <2>3. pieces \in Seq(Seq(PlatformTag)) /\ DOMAIN pieces = 1..Len(D)
    BY <1>1, <2>1, <2>2
  <2> QED BY <2>1, <2>3
<1> HIDE DEF pieces
<1>7. /\ P \in Seq(PlatformTag)
      /\ \A e : e \in ToSet(P) <=> \E i \in 1..Len(D) : e \in ToSet(pieces[i])
  <2>1. pieces \in Seq(Seq(PlatformTag)) BY <1>6
  <2>2. /\ FlattenSeq(pieces) \in Seq(PlatformTag)
        /\ \A e : e \in ToSet(FlattenSeq(pieces)) <=> \E i \in DOMAIN pieces : e \in ToSet(pieces[i])
    BY <2>1, FlattenMembers
  <2> QED BY <1>4, <1>6, <2>2
<1>8. ASSUME NEW q \in PlatformTag, NEW i \in 1..Len(D)
      PROVE  q \in ToSet(pieces[i]) <=> Expands(D[i][3], q)
  BY <1>5, <1>6
<1>9. ASSUME NEW q \in PlatformTag
      PROVE  q \in ToSet(P) <=> \E d \in ToSet(D) : Expands(d[3], q)
  <2>1. q \in ToSet(P) <=> \E i \in 1..Len(D) : Expands(D[i][3], q) BY <1>7, <1>8
  <2>2. ToSet(D) = {D[i] : i \in 1..Len(D)} BY <1>1 DEF ToSet
  <2> QED BY <2>1, <2>2
<1>10. ASSUME NEW t \in ToSet(P), NEW u \in ToSet(P), NewerPlatform(t, u) PROVE Before(P, t, u)
  <2>1. t \in PlatformTag /\ u \in PlatformTag BY <1>7 DEF ToSet
  <2> DEFINE T == {i \in 1..Len(D) : t \in ToSet(pieces[i]) \/ u \in ToSet(pieces[i])}
  <2>2. T \subseteq Nat /\ T # {} BY <1>7
  <2>3. PICK m \in T : \A i \in T : m <= i BY <2>2, LeastNumber
  <2>4. /\ m \in 1..Len(D) /\ (t \in ToSet(pieces[m]) \/ u \in ToSet(pieces[m]))
        /\ \A i \in 1..(m - 1) : t \notin ToSet(pieces[i]) /\ u \notin ToSet(pieces[i])
    <3>1. m \in 1..Len(D) OBVIOUS
    <3>2. \A i \in 1..(m - 1) : i \in 1..Len(D) /\ ~(m <= i) BY <1>1, <3>1
    <3> QED BY <2>3, <3>1, <3>2
  <2> HIDE DEF T
  <2>5. t \in ToSet(pieces[m])
    <3> SUFFICES ASSUME t \notin ToSet(pieces[m]), u \in ToSet(pieces[m]) PROVE FALSE
      BY <2>4
    <3>1. PICK n \in 1..Len(D) : t \in ToSet(pieces[n]) BY <1>7
    <3>2. m < n
      <4>1. ~(n \in 1..(m - 1)) /\ n # m BY <2>4, <3>1
      <4> QED BY <1>1, <2>4, <4>1
    <3>3. Expands(D[m][3], u) /\ Expands(D[n][3], t) BY <1>8, <2>1, <2>4, <3>1
    <3>4. OneLine(D[m][3], D[n][3]) => AtMost(Version(D[n][3]), Version(D[m][3]))
      <4>1. SUFFICES ASSUME NEW k \in 1..(m - 1), D[k][3] = D[n][3] PROVE FALSE
        BY <1>3, <2>4, <3>2
      <4>2. k \in 1..Len(D) BY <1>1, <2>4, <4>1
      <4>3. pieces[k] = pieces[n] BY <1>6, <4>1, <4>2
      <4> QED BY <2>4, <3>1, <4>1, <4>3
    <3>5. D[m][3] \in PlatformTag /\ D[n][3] \in PlatformTag /\ LastTen(D[m][3]) /\ LastTen(D[n][3])
      BY <1>2, <2>4
    <3>6. Expands(D[m][3], t) BY <1>10, <2>1, <3>3, <3>4, <3>5, KeepsNewer
    <3> QED BY <1>8, <2>1, <2>4, <3>6
  <2>6. Before(pieces[m], t, u)
    <3>1. CASE u \in ToSet(pieces[m])
      BY <1>5, <1>6, <1>10, <2>4, <2>5, <3>1
    <3>2. CASE u \notin ToSet(pieces[m])
      <4>1. PICK k \in DOMAIN pieces[m] : pieces[m][k] = t BY <2>5 DEF ToSet
      <4>2. pieces[m] \in Seq(PlatformTag) BY <1>5, <1>6, <2>4
      <4>3. \A j \in 1..k : j \in DOMAIN pieces[m] BY <4>2
      <4> QED BY <3>2, <4>1, <4>3 DEF Before, ToSet
    <3> QED BY <3>1, <3>2
  <2>7. Before(FlattenSeq(pieces), t, u)
    <3>1. m \in DOMAIN pieces /\ \A i \in 1..(m - 1) : u \notin ToSet(pieces[i])
      BY <1>6, <2>4
    <3>2. pieces \in Seq(Seq(PlatformTag)) BY <1>6
    <3> QED BY <2>6, <3>1, <3>2, FlattenBefore
  <2> QED BY <1>4, <2>7
<1>11. P \in Seq(PlatformTag) BY <1>7
<1> QED BY <1>9, <1>10, <1>11 DEF P, D

Prefix == PythonTag \X Word

\* A python tag and an ABI are a prefix.
LEMMA PrefixOf ==
  ASSUME NEW impl \in Word, NEW major \in Nat, NEW minor \in Nat \cup {NoMinor}, NEW abi \in Word
  PROVE  /\ Python(impl, major, minor) \in PythonTag
         /\ <<Python(impl, major, minor), abi>> \in Prefix
BY DEF Python, PythonTag, Prefix

\* The prefixes of the interpreters before this one, down to a first.
Older(major, minor, lo, impl, abi) ==
  [i \in DOMAIN Down(minor - 1, lo) |-> <<Python(impl, major, Down(minor - 1, lo)[i]), abi>>]
\* They are those, from the last before this one down to the first.
LEMMA OlderAre ==
  ASSUME NEW major \in Nat, NEW minor \in Nat, NEW lo \in Nat, NEW impl \in Word, NEW abi \in Word
  PROVE  /\ Older(major, minor, lo, impl, abi) \in Seq(Prefix)
         /\ \A x : x \in ToSet(Older(major, minor, lo, impl, abi)) <=>
                   \E m \in lo..(minor - 1) : x = <<Python(impl, major, m), abi>>
<1> DEFINE D == Down(minor - 1, lo)
           s == [i \in DOMAIN D |-> <<Python(impl, major, D[i]), abi>>]
           n == minor - lo
<1>1. DOMAIN D = 1..n /\ \A i \in 1..n : D[i] = minor - i /\ D[i] \in lo..(minor - 1)
  <2>1. /\ DOMAIN D = 1..(minor - 1 - lo + 1)
        /\ \A i \in 1..(minor - 1 - lo + 1) : D[i] = minor - 1 - i + 1 /\ D[i] \in lo..(minor - 1)
    <3>1. minor - 1 \in Int /\ lo \in Int OBVIOUS
    <3> QED BY <3>1, DownIs
  <2>2. minor - 1 - lo + 1 = n
    OBVIOUS
  <2> HIDE DEF D
  <2> QED BY <2>1, <2>2
<1> HIDE DEF D
<1>2. /\ s = [i \in 1..n |-> s[i]]
      /\ \A i \in 1..n : s[i] = <<Python(impl, major, minor - i), abi>>
  BY <1>1
<1> HIDE DEF s
<1>3. ASSUME NEW i \in 1..n PROVE s[i] \in Prefix
  <2>1. minor - i \in Nat BY <1>1
  <2> QED BY <1>2, <2>1, PrefixOf
<1>4. s \in Seq(Prefix) /\ DOMAIN s = 1..n
  <2>1. n \in Int OBVIOUS
  <2> HIDE DEF n
  <2> QED BY <1>2, <1>3, <2>1, IsSequence
<1>5. ASSUME NEW x
      PROVE  x \in ToSet(s) <=> \E m \in lo..(minor - 1) : x = <<Python(impl, major, m), abi>>
  <2>1. ASSUME x \in ToSet(s)
        PROVE  \E m \in lo..(minor - 1) : x = <<Python(impl, major, m), abi>>
    <3>1. PICK i \in 1..n : s[i] = x BY <1>4, <2>1 DEF ToSet
    <3>2. minor - i \in lo..(minor - 1)
      BY <3>1
    <3>3. x = <<Python(impl, major, minor - i), abi>>
      BY <1>2, <3>1
    <3> QED BY <3>2, <3>3
  <2>2. ASSUME NEW m \in lo..(minor - 1), x = <<Python(impl, major, m), abi>>
        PROVE  x \in ToSet(s)
    <3>1. minor - m \in 1..n /\ minor - (minor - m) = m BY <2>2
    <3>2. s[minor - m] = x BY <1>2, <2>2, <3>1
    <3> QED BY <1>4, <3>1, <3>2 DEF ToSet
  <2> QED BY <2>1, <2>2
<1> QED BY <1>4, <1>5 DEF s, D, Older

\* The prefixes an interpreter has of its own: those declared for it.
LEMMA OwnAre ==
  ASSUME NEW declared \in Seq(Tag)
  PROVE  LET own == Each(declared, LAMBDA d : IF d[2] \in {"abi3", "none"} THEN <<>>
                                              ELSE <<<<d[1], d[2]>>>>)
         IN  /\ own \in Seq(Prefix)
             /\ \A x : x \in ToSet(own) <=>
                  \E d \in ToSet(declared) : d[2] \notin {"abi3", "none"} /\ x = <<d[1], d[2]>>
<1> DEFINE Piece(d) == IF d[2] \in {"abi3", "none"} THEN <<>> ELSE <<<<d[1], d[2]>>>>
           pieces == [i \in DOMAIN declared |-> Piece(declared[i])]
           own == Each(declared, LAMBDA d : IF d[2] \in {"abi3", "none"} THEN <<>>
                                              ELSE <<<<d[1], d[2]>>>>)
<1>1. DOMAIN declared = 1..Len(declared) /\ Len(declared) \in Nat /\ \A i \in 1..Len(declared) : declared[i] \in Tag
  OBVIOUS
<1>2. own = FlattenSeq(pieces)
  BY DEF Each
<1> HIDE DEF own
<1>3. ASSUME NEW d \in Tag
      PROVE  /\ Piece(d) \in Seq(Prefix)
             /\ \A x : x \in ToSet(Piece(d)) <=> d[2] \notin {"abi3", "none"} /\ x = <<d[1], d[2]>>
  <2>1. <<d[1], d[2]>> \in Prefix BY DEF Tag, Prefix
  <2>2. CASE d[2] \in {"abi3", "none"}
    <3>1. Piece(d) = <<>> BY <2>2
    <3>2. <<>> \in Seq(Prefix) /\ ToSet(<<>>) = {} BY DEF ToSet
    <3> HIDE DEF Piece
    <3> QED BY <2>2, <3>1, <3>2
  <2>3. CASE d[2] \notin {"abi3", "none"}
    <3>1. Piece(d) = <<<<d[1], d[2]>>>> BY <2>3
    <3> DEFINE y == <<d[1], d[2]>>
    <3>2. Piece(d) = <<y>> /\ y \in Prefix BY <2>1, <3>1
    <3> HIDE DEF Piece, y
    <3>3. <<y>> \in Seq(Prefix) /\ ToSet(<<y>>) = {y} BY <3>2, Single
    <3>4. Piece(d) \in Seq(Prefix) /\ \A x : x \in ToSet(Piece(d)) <=> x = y BY <3>2, <3>3
    <3> QED BY <2>3, <3>4 DEF y
  <2> QED BY <2>2, <2>3
<1> HIDE DEF Piece
<1>4. /\ pieces \in Seq(Seq(Prefix)) /\ DOMAIN pieces = 1..Len(declared)
      /\ \A i \in 1..Len(declared) : pieces[i] = Piece(declared[i])
  <2>1. /\ pieces = [i \in 1..Len(declared) |-> pieces[i]]
        /\ \A i \in 1..Len(declared) : pieces[i] = Piece(declared[i])
    BY <1>1
  <2> HIDE DEF pieces
  <2>2. ASSUME NEW i \in 1..Len(declared) PROVE pieces[i] \in Seq(Prefix)
    BY <1>1, <1>3, <2>1
  <2>3. pieces \in Seq(Seq(Prefix)) /\ DOMAIN pieces = 1..Len(declared)
    BY <1>1, <2>1, <2>2
  <2> QED BY <2>1, <2>3
<1> HIDE DEF pieces
<1>5. /\ own \in Seq(Prefix)
      /\ \A x : x \in ToSet(own) <=> \E i \in 1..Len(declared) : x \in ToSet(pieces[i])
  <2>1. pieces \in Seq(Seq(Prefix)) BY <1>4
  <2>2. /\ FlattenSeq(pieces) \in Seq(Prefix)
        /\ \A e : e \in ToSet(FlattenSeq(pieces)) <=> \E i \in DOMAIN pieces : e \in ToSet(pieces[i])
    BY <2>1, FlattenMembers
  <2> QED BY <1>2, <1>4, <2>2
<1>6. ToSet(declared) = {declared[i] : i \in 1..Len(declared)} BY <1>1 DEF ToSet
<1>7. ASSUME NEW x
      PROVE  x \in ToSet(own) <=>
               \E d \in ToSet(declared) : d[2] \notin {"abi3", "none"} /\ x = <<d[1], d[2]>>
  <2>1. \A i \in 1..Len(declared) :
          x \in ToSet(pieces[i]) <=> declared[i][2] \notin {"abi3", "none"} /\ x = <<declared[i][1], declared[i][2]>>
    BY <1>1, <1>3, <1>4
  <2> QED BY <1>5, <1>6, <2>1
<1>8. own \in Seq(Prefix) BY <1>5
<1> QED BY <1>7, <1>8 DEF own

\* What an environment's prefixes are.
LEMMA PrefixesAre ==
  ASSUME NEW target, IsTarget(target)
  PROVE  /\ PythonPrefixes(target) \in Seq(Prefix)
         /\ \A py \in PythonTag, abi \in Word :
              <<py, abi>> \in ToSet(PythonPrefixes(target)) <=> RunsPython(target, py, abi)
<1> DEFINE impl == target.impl
           major == target.major
           minor == target.minor
           me == Python(impl, major, minor)
           own == Each(target.declared, LAMBDA d : IF d[2] \in {"abi3", "none"} THEN <<>>
                                              ELSE <<<<d[1], d[2]>>>>)
           older(lo, i, abi) == Older(major, minor, lo, i, abi)
           a2 == IF impl = "cp" THEN <<<<me, "abi3">>>> ELSE <<>>
           a3 == <<<<me, "none">>>>
           a4 == IF impl = "cp" THEN older(2, "cp", "abi3") ELSE <<>>
           a5 == <<<<Python("py", major, minor), "none">>, <<Python("py", major, NoMinor), "none">>>>
           a6 == older(0, "py", "none")
           all == PythonPrefixes(target)
<1>1. /\ impl \in Word /\ major \in Nat /\ minor \in Nat /\ target.declared \in Seq(Tag)
      /\ {"abi3", "none", "cp", "py"} \subseteq Word
  BY DEF IsTarget, Word
<1>2. all = own \o a2 \o a3 \o a4 \o a5 \o a6
  BY DEF PythonPrefixes, ExpandInterpreters, Older
<1>3. /\ own \in Seq(Prefix)
      /\ \A x : x \in ToSet(own) <=>
           \E d \in ToSet(target.declared) : d[2] \notin {"abi3", "none"} /\ x = <<d[1], d[2]>>
  BY <1>1, OwnAre
<1> HIDE DEF own, all
<1>4. a2 \in Seq(Prefix) /\ \A x : x \in ToSet(a2) <=> impl = "cp" /\ x = <<me, "abi3">>
  <2> DEFINE y == <<me, "abi3">>
  <2>1. y \in Prefix BY <1>1, PrefixOf
  <2>2. impl = "cp" => a2 = <<y>> OBVIOUS
  <2>3. impl # "cp" => a2 = <<>> OBVIOUS
  <2> HIDE DEF y, a2
  <2>4. <<y>> \in Seq(Prefix) /\ ToSet(<<y>>) = {y} BY <2>1, Single
  <2>5. <<>> \in Seq(Prefix) /\ ToSet(<<>>) = {} BY DEF ToSet
  <2>6. a2 \in Seq(Prefix) /\ \A x : x \in ToSet(a2) <=> impl = "cp" /\ x = y
    BY <2>2, <2>3, <2>4, <2>5
  <2> QED BY <2>6 DEF y
<1>5. a3 \in Seq(Prefix) /\ \A x : x \in ToSet(a3) <=> x = <<me, "none">>
  <2> DEFINE y == <<me, "none">>
  <2>1. y \in Prefix BY <1>1, PrefixOf
  <2>2. a3 = <<y>> OBVIOUS
  <2> HIDE DEF y, a3
  <2>4. <<y>> \in Seq(Prefix) /\ ToSet(<<y>>) = {y} BY <2>1, Single
  <2>6. a3 \in Seq(Prefix) /\ \A x : x \in ToSet(a3) <=> x = y
    BY <2>2, <2>4
  <2> QED BY <2>6 DEF y
<1>6. /\ a4 \in Seq(Prefix)
      /\ \A x : x \in ToSet(a4) <=>
           impl = "cp" /\ \E m \in 2..(minor - 1) : x = <<Python("cp", major, m), "abi3">>
  <2> DEFINE z == older(2, "cp", "abi3")
  <2>1. /\ z \in Seq(Prefix)
        /\ \A x : x \in ToSet(z) <=> \E m \in 2..(minor - 1) : x = <<Python("cp", major, m), "abi3">>
    <3>1. 2 \in Nat /\ "cp" \in Word /\ "abi3" \in Word BY <1>1
    <3>2. z \in Seq(Prefix) BY <1>1, <3>1, OlderAre
    <3>3. major \in Nat /\ minor \in Nat BY <1>1
    <3>4. ASSUME NEW x
          PROVE  x \in ToSet(z) <=> \E m \in 2..(minor - 1) : x = <<Python("cp", major, m), "abi3">>
      <4> HIDE DEF major, minor
      <4> QED BY <3>1, <3>3, OlderAre
    <3> QED BY <3>2, <3>4
  <2>2. impl = "cp" => a4 = z OBVIOUS
  <2>3. impl # "cp" => a4 = <<>> OBVIOUS
  <2> HIDE DEF z, a4
  <2>5. <<>> \in Seq(Prefix) /\ ToSet(<<>>) = {} BY DEF ToSet
  <2> QED BY <2>1, <2>2, <2>3, <2>5
<1>7. /\ a5 \in Seq(Prefix)
      /\ \A x : x \in ToSet(a5) <=> \/ x = <<Python("py", major, minor), "none">>
                                    \/ x = <<Python("py", major, NoMinor), "none">>
  <2> DEFINE y == <<Python("py", major, minor), "none">>
             z == <<Python("py", major, NoMinor), "none">>
  <2>1. y \in Prefix /\ z \in Prefix
    <3>1. minor \in Nat \cup {NoMinor} /\ NoMinor \in Nat \cup {NoMinor} BY <1>1
    <3> QED BY <1>1, <3>1, PrefixOf
  <2>2. a5 = <<y, z>> OBVIOUS
  <2> HIDE DEF y, z, a5
  <2>4. <<y, z>> \in Seq(Prefix) /\ ToSet(<<y, z>>) = {y, z} BY <2>1 DEF ToSet
  <2>6. a5 \in Seq(Prefix) /\ \A x : x \in ToSet(a5) <=> x = y \/ x = z
    BY <2>2, <2>4
  <2> QED BY <2>6 DEF y, z
<1>8. /\ a6 \in Seq(Prefix)
      /\ \A x : x \in ToSet(a6) <=> \E m \in 0..(minor - 1) : x = <<Python("py", major, m), "none">>
  <2>1. 0 \in Nat /\ "py" \in Word /\ "none" \in Word BY <1>1
  <2>2. a6 \in Seq(Prefix) BY <1>1, <2>1, OlderAre
  <2>3. \A x : x \in ToSet(a6) <=> \E m \in 0..(minor - 1) : x = <<Python("py", major, m), "none">>
    <3>1. ASSUME NEW x
          PROVE  x \in ToSet(a6) <=> \E m \in 0..(minor - 1) : x = <<Python("py", major, m), "none">>
      <4>1. major \in Nat /\ minor \in Nat BY <1>1
      <4> HIDE DEF major, minor
      <4> QED BY <2>1, <4>1, OlderAre
    <3> QED BY <3>1
  <2> QED BY <2>2, <2>3
<1> HIDE DEF a2, a3, a4, a5, a6, older
<1> DEFINE b2 == own \o a2
           b3 == b2 \o a3
           b4 == b3 \o a4
           b5 == b4 \o a5
           b6 == b5 \o a6
<1>9. /\ all \in Seq(Prefix)
      /\ ToSet(all) = ToSet(own) \cup ToSet(a2) \cup ToSet(a3) \cup ToSet(a4) \cup ToSet(a5) \cup ToSet(a6)
  <2>0. /\ own \in Seq(Prefix) /\ a2 \in Seq(Prefix) /\ a3 \in Seq(Prefix)
        /\ a4 \in Seq(Prefix) /\ a5 \in Seq(Prefix) /\ a6 \in Seq(Prefix)
    BY <1>3, <1>4, <1>5, <1>6, <1>7, <1>8
  <2>1. b2 \in Seq(Prefix) /\ ToSet(b2) = ToSet(own) \cup ToSet(a2)
    BY <2>0, JoinMembers
  <2> HIDE DEF b2
  <2>2. b3 \in Seq(Prefix) /\ ToSet(b3) = ToSet(b2) \cup ToSet(a3)
    BY <2>0, <2>1, JoinMembers
  <2> HIDE DEF b3
  <2>3. b4 \in Seq(Prefix) /\ ToSet(b4) = ToSet(b3) \cup ToSet(a4)
    BY <2>0, <2>2, JoinMembers
  <2> HIDE DEF b4
  <2>4. b5 \in Seq(Prefix) /\ ToSet(b5) = ToSet(b4) \cup ToSet(a5)
    BY <2>0, <2>3, JoinMembers
  <2> HIDE DEF b5
  <2>5. b6 \in Seq(Prefix) /\ ToSet(b6) = ToSet(b5) \cup ToSet(a6)
    BY <2>0, <2>4, JoinMembers
  <2>6. all = b6 BY <1>2 DEF b2, b3, b4, b5
  <2> HIDE DEF b6
  <2> QED BY <2>1, <2>2, <2>3, <2>4, <2>5, <2>6
<1>10. ASSUME NEW py \in PythonTag, NEW abi \in Word
       PROVE  <<py, abi>> \in ToSet(all) <=> RunsPython(target, py, abi)
  <2>1. py = <<py[1], py[2], py[3]>> /\ py[1] \in Word /\ py[2] \in Nat /\ py[3] \in Nat \cup {NoMinor}
    BY DEF PythonTag
  <2>2. \A i, m, n : py = Python(i, m, n) <=> py[1] = i /\ py[2] = m /\ py[3] = n
    BY <2>1 DEF Python
  <2>3. \A x, y : <<py, abi>> = <<x, y>> <=> py = x /\ abi = y
    OBVIOUS
  <2>4. <<py, abi>> \in ToSet(own) <=>
          \E d \in ToSet(target.declared) : d[1] = py /\ d[2] = abi /\ abi \notin {"abi3", "none"}
    BY <1>3
  <2>5. <<py, abi>> \in ToSet(a3) <=> abi = "none" /\ py = me BY <1>5
  <2>6. <<py, abi>> \in ToSet(a5) \cup ToSet(a6) <=>
          abi = "none" /\ py[1] = "py" /\ py[2] = major /\ py[3] <= minor
    <3>1. <<py, abi>> \in ToSet(a5) <=>
            abi = "none" /\ py[1] = "py" /\ py[2] = major /\ (py[3] = minor \/ py[3] = NoMinor)
      BY <1>7, <2>2, <2>3
    <3>2. <<py, abi>> \in ToSet(a6) <=>
            abi = "none" /\ py[1] = "py" /\ py[2] = major /\ py[3] \in 0..(minor - 1)
      BY <1>8, <2>2, <2>3
    <3>3. py[3] <= minor <=> py[3] = minor \/ py[3] = NoMinor \/ py[3] \in 0..(minor - 1)
      BY <1>1, <2>1 DEF NoMinor
    <3> QED BY <3>1, <3>2, <3>3
  <2>7. <<py, abi>> \in ToSet(a2) \cup ToSet(a4) <=>
          /\ abi = "abi3" /\ impl = "cp" /\ py[1] = "cp" /\ py[2] = major
          /\ py[3] \in (2..minor) \cup {minor}
    <3>1. <<py, abi>> \in ToSet(a2) <=>
            abi = "abi3" /\ impl = "cp" /\ py[1] = "cp" /\ py[2] = major /\ py[3] = minor
      BY <1>4, <2>2, <2>3
    <3>2. <<py, abi>> \in ToSet(a4) <=>
            abi = "abi3" /\ impl = "cp" /\ py[1] = "cp" /\ py[2] = major /\ py[3] \in 2..(minor - 1)
      BY <1>6, <2>2, <2>3
    <3>3. py[3] \in (2..minor) \cup {minor} <=> py[3] = minor \/ py[3] \in 2..(minor - 1)
      BY <1>1, <2>1 DEF NoMinor
    <3> QED BY <3>1, <3>2, <3>3
  <2>8. <<py, abi>> \in ToSet(all) <=>
          \/ <<py, abi>> \in ToSet(own) \/ <<py, abi>> \in ToSet(a3)
          \/ <<py, abi>> \in ToSet(a5) \cup ToSet(a6) \/ <<py, abi>> \in ToSet(a2) \cup ToSet(a4)
    BY <1>9
  <2> QED BY <2>4, <2>5, <2>6, <2>7, <2>8 DEF RunsPython
<1> QED BY <1>9, <1>10 DEF all

-----------------------------------------------------------------------------
(* The wheel that is picked.                                               *)

\* The parts of a tag.
LEMMA TagParts ==
  ASSUME NEW tag \in Tag
  PROVE  tag[1] \in PythonTag /\ tag[2] \in Word /\ tag[3] \in PlatformTag
BY DEF Tag

\* The ranks of a target are where its tags first occur.
LEMMA RanksAre ==
  ASSUME NEW target, IsTarget(target), NEW tag \in Tag
  PROVE  LET P == PythonPrefixes(target)
             Q == Platforms(target)
             x == <<tag[1], tag[2]>>
         IN  /\ Compatible(Ranks(target), tag) <=> x \in ToSet(P) /\ tag[3] \in ToSet(Q)
             /\ Compatible(Ranks(target), tag) =>
                  Rank(Ranks(target), tag) = First(P, x) * Len(Q) + First(Q, tag[3])
<1> DEFINE P == PythonPrefixes(target)
           Q == Platforms(target)
           x == <<tag[1], tag[2]>>
           R == Ranks(target)
<1>1. /\ R.prefix = [p \in ToSet(P) |-> First(P, p)]
      /\ R.platform = [p \in ToSet(Q) |-> First(Q, p)]
      /\ R.width = Len(Q)
  BY DEF Ranks
<1> HIDE DEF P, Q, R
<1>2. Compatible(R, tag) <=> x \in ToSet(P) /\ tag[3] \in ToSet(Q)
  BY <1>1 DEF Compatible
<1>3. ASSUME Compatible(R, tag)
      PROVE  Rank(R, tag) = First(P, x) * Len(Q) + First(Q, tag[3])
  BY <1>1, <1>2, <1>3 DEF Rank
<1> QED BY <1>2, <1>3 DEF P, Q, R

\* tags.py:212-253, against the meaning of the tags (PEP 425 and 600): for every
\* environment, the tags that rank are those the environment installs, but for the
\* versions that are overlooked.
THEOREM CompatibleInstalls ==
  ASSUME NEW target, IsTarget(target), NEW tag \in Tag
  PROVE  /\ Compatible(Ranks(target), tag) <=> Installs(target, tag) /\ ~Overlooked(target, tag)
         /\ Compatible(Ranks(target), tag) => Rank(Ranks(target), tag) \in Nat
<1> DEFINE P == PythonPrefixes(target)
           Q == Platforms(target)
           x == <<tag[1], tag[2]>>
           R == Ranks(target)
<1>1. tag[1] \in PythonTag /\ tag[2] \in Word /\ tag[3] \in PlatformTag
  BY TagParts
<1>2. /\ P \in Seq(Prefix)
      /\ x \in ToSet(P) <=> RunsPython(target, tag[1], tag[2])
  BY <1>1, PrefixesAre
<1>3. /\ Q \in Seq(PlatformTag)
      /\ tag[3] \in ToSet(Q) <=> \E d \in ToSet(target.declared) : Expands(d[3], tag[3])
  BY <1>1, PlatformsAre
<1>4. /\ Compatible(R, tag) <=> x \in ToSet(P) /\ tag[3] \in ToSet(Q)
      /\ Compatible(R, tag) => Rank(R, tag) = First(P, x) * Len(Q) + First(Q, tag[3])
  BY RanksAre
<1> HIDE DEF P, Q, R, x
<1>5. Compatible(R, tag) <=> Installs(target, tag) /\ ~Overlooked(target, tag)
  BY <1>2, <1>3, <1>4 DEF Installs, Overlooked, Expands
<1>6. ASSUME Compatible(R, tag) PROVE Rank(R, tag) \in Nat
  <2>1. First(P, x) \in Nat BY <1>2, <1>4, <1>6, FirstOccurs
  <2>2. First(Q, tag[3]) \in Nat BY <1>3, <1>4, <1>6, FirstOccurs
  <2>3. Len(Q) \in Nat BY <1>3
  <2>4. First(P, x) * Len(Q) \in Nat BY <2>1, <2>3
  <2> QED BY <1>4, <1>6, <2>2, <2>4
<1> QED BY <1>5, <1>6 DEF R

\* A tag for a newer system ranks before one like it for an older.
LEMMA NewerRanksBefore ==
  ASSUME NEW target, IsTarget(target), NEW t \in Tag, NEW u \in Tag, Newer(t, u),
         Compatible(Ranks(target), t), Compatible(Ranks(target), u)
  PROVE  Rank(Ranks(target), t) < Rank(Ranks(target), u)
<1> DEFINE P == PythonPrefixes(target)
           Q == Platforms(target)
           x == <<t[1], t[2]>>
           R == Ranks(target)
<1>1. x = <<u[1], u[2]>> /\ NewerPlatform(t[3], u[3]) BY DEF Newer
<1>2. /\ x \in ToSet(P) /\ t[3] \in ToSet(Q)
      /\ Rank(R, t) = First(P, x) * Len(Q) + First(Q, t[3])
  BY RanksAre
<1>3. u[3] \in ToSet(Q) /\ Rank(R, u) = First(P, x) * Len(Q) + First(Q, u[3])
  BY <1>1, RanksAre
<1>4. P \in Seq(Prefix) BY PrefixesAre
<1>5. Q \in Seq(PlatformTag) /\ Before(Q, t[3], u[3])
  BY <1>1, <1>2, <1>3, PlatformsAre
<1> HIDE DEF P, Q, R, x
<1>6. First(Q, t[3]) < First(Q, u[3]) BY <1>3, <1>5, FirstBefore
<1>7. First(Q, t[3]) \in Nat /\ First(Q, u[3]) \in Nat /\ First(P, x) \in Nat /\ Len(Q) \in Nat
  BY <1>2, <1>3, <1>4, <1>5, FirstOccurs
<1>8. First(P, x) * Len(Q) \in Nat BY <1>7
<1>9. Rank(R, t) < Rank(R, u) BY <1>2, <1>3, <1>6, <1>7, <1>8
<1> QED BY <1>9 DEF R

\* There is a least rank, and under it a least file.
LEMMA PickedIsLeast ==
  ASSUME NEW scores, scores # {}, \A s \in scores : s[1] \in Nat /\ s[2] \in Nat
  PROVE  Picked(scores) \in scores /\ \A s \in scores : Picked(scores)[1] <= s[1]
<1>1. PICK n \in {s[1] : s \in scores} : \A m \in {s[1] : s \in scores} : n <= m
  <2>1. {s[1] : s \in scores} \subseteq Nat /\ {s[1] : s \in scores} # {} OBVIOUS
  <2> QED BY <2>1, LeastNumber
<1> DEFINE T == {s \in scores : s[1] = n}
<1>2. PICK f \in {s[2] : s \in T} : \A m \in {s[2] : s \in T} : f <= m
  <2>1. {s[2] : s \in T} \subseteq Nat /\ {s[2] : s \in T} # {} BY <1>1
  <2> QED BY <2>1, LeastNumber
<1>3. PICK s \in T : s[2] = f BY <1>2
<1>4. \A t \in scores : s[1] < t[1] \/ (s[1] = t[1] /\ s[2] <= t[2])
  <2> SUFFICES ASSUME NEW t \in scores PROVE s[1] < t[1] \/ (s[1] = t[1] /\ s[2] <= t[2]) OBVIOUS
  <2>1. n <= t[1] /\ s[1] = n /\ n \in Nat /\ t[1] \in Nat BY <1>1, <1>3
  <2>2. CASE t[1] = n BY <1>2, <1>3, <2>1, <2>2
  <2>3. CASE t[1] # n BY <2>1, <2>3
  <2> QED BY <2>2, <2>3
<1>5. /\ Picked(scores) \in scores
      /\ \A t \in scores : \/ Picked(scores)[1] < t[1]
                           \/ Picked(scores)[1] = t[1] /\ Picked(scores)[2] <= t[2]
  BY <1>3, <1>4 DEF Picked
<1>6. \A t \in scores : Picked(scores)[1] <= t[1] BY <1>5
<1> QED BY <1>5, <1>6

\* resolution.py:380-405: for every environment and any wheels, one is picked unless
\* all that install are overlooked, it installs, and none for a newer system was
\* passed over but one that is overlooked.
THEOREM WheelIsBest ==
  ASSUME NEW target, IsTarget(target), NEW wheels,
         \A w \in wheels : w.file \in Nat /\ w.tags \subseteq Tag
  PROVE  LET pick == PickWheel(Ranks(target), wheels) IN
         /\ pick = <<>> => \A w \in wheels : \A t \in w.tags : Installs(target, t) => Overlooked(target, t)
         /\ pick # <<>> =>
              /\ pick[1] \in wheels
              /\ \E u \in pick[1].tags :
                   /\ Installs(target, u)
                   /\ \A w \in wheels : \A t \in w.tags :
                        Installs(target, t) /\ Newer(t, u) => Overlooked(target, t)
<1> DEFINE R == Ranks(target)
           Ok(t) == Compatible(R, t)
           Score(w, t) == <<Rank(R, t), w.file, w>>
           scores == UNION {{Score(w, t) : t \in {u \in w.tags : Ok(u)}} : w \in wheels}
           pick == PickWheel(R, wheels)
<1>1. \A w \in wheels : \A t \in w.tags :
        /\ t \in Tag /\ (Ok(t) <=> Installs(target, t) /\ ~Overlooked(target, t))
        /\ Ok(t) => Rank(R, t) \in Nat
  BY CompatibleInstalls
<1>2. pick = IF scores = {} THEN <<>> ELSE <<Picked(scores)[3]>>
  BY DEF PickWheel
<1>3. \A w \in wheels : \A t \in w.tags : Ok(t) => Score(w, t) \in scores
  OBVIOUS
<1>4. \A s \in scores : \E w \in wheels : \E t \in w.tags : Ok(t) /\ s = Score(w, t)
  OBVIOUS
<1>5. \A w, t : Score(w, t)[1] = Rank(R, t) /\ Score(w, t)[2] = w.file /\ Score(w, t)[3] = w
  OBVIOUS
<1>6. ASSUME NEW t \in Tag, NEW u \in Tag, Newer(t, u), Ok(t), Ok(u)
      PROVE  Rank(R, t) < Rank(R, u)
  BY <1>6, NewerRanksBefore
<1> HIDE DEF scores, Score, Ok, R, pick
<1>7. CASE scores = {}
  <2>1. pick = <<>> BY <1>2, <1>7
  <2>2. \A w \in wheels : \A t \in w.tags : Installs(target, t) => Overlooked(target, t) BY <1>1, <1>3, <1>7
  <2> QED BY <2>1, <2>2 DEF pick, R
<1>8. CASE scores # {}
  <2> DEFINE p == Picked(scores)
  <2>1. pick = <<p[3]>> BY <1>2, <1>8
  <2>2. \A s \in scores : s[1] \in Nat /\ s[2] \in Nat BY <1>1, <1>4, <1>5
  <2>3. p \in scores /\ \A s \in scores : p[1] <= s[1] BY <1>8, <2>2, PickedIsLeast
  <2> HIDE DEF p
  <2>4. PICK w \in wheels : \E u \in w.tags : Ok(u) /\ p = Score(w, u) BY <1>4, <2>3
  <2>5. PICK u \in w.tags : Ok(u) /\ p = Score(w, u) BY <2>4
  <2>6. p[3] = w /\ p[1] = Rank(R, u) BY <1>5, <2>5
  <2>7. pick[1] = w /\ pick # <<>> BY <2>1, <2>6
  <2>8. Installs(target, u) BY <1>1, <2>5
  <2>9. ASSUME NEW v \in wheels, NEW t \in v.tags, Installs(target, t), Newer(t, u), ~Overlooked(target, t)
        PROVE  FALSE
    <3>1. Ok(t) /\ t \in Tag /\ u \in Tag /\ Rank(R, t) \in Nat /\ Rank(R, u) \in Nat
      BY <1>1, <2>5, <2>9
    <3>2. Rank(R, t) < Rank(R, u) BY <1>6, <2>5, <2>9, <3>1
    <3>3. Score(v, t) \in scores /\ Score(v, t)[1] = Rank(R, t) BY <1>3, <1>5, <3>1
    <3>4. Rank(R, u) <= Rank(R, t) BY <2>3, <2>6, <3>3
    <3> QED BY <3>1, <3>2, <3>4
  <2> QED BY <2>7, <2>8, <2>9 DEF pick, R
<1> QED BY <1>7, <1>8

\* What the closure holds of a package is what is picked for it, and a build is
\* refused for want of an artifact only if nothing is.
ClosureIsPicked ==
  /\ step # "idle" => request \in Requests
  /\ step \in {"idle", "pick"} => cause = "none"
  /\ closure # [p \in {} |-> 0] =>
       /\ step \notin {"idle", "pick"}
       /\ \A p \in Deps : PickArtifact(p) # <<>> /\ closure[p] = PickArtifact(p)[1]
  /\ cause = "no_compatible_artifact" =>
       step # "idle" /\ \E p \in Deps : PickArtifact(p) = <<>>

\* A step after the choice leaves it.
LEMMA ChoiceStays ==
  ASSUME ClosureIsPicked, UNCHANGED <<request, closure>>, step \notin {"idle", "pick"},
         step' \notin {"idle", "pick"},
         cause' = cause \/ cause' # "no_compatible_artifact"
  PROVE  ClosureIsPicked'
<1>1. \A p : PickArtifact(p)' = PickArtifact(p) BY DEF PickArtifact, TagRanks
<1> QED BY <1>1 DEF ClosureIsPicked

\* Only the choice refuses for want of an artifact.
LEMMA OtherCauses ==
  ASSUME BuildNext, ~Pick, \A r \in Requests : ~Ask(r)
  PROVE  /\ UNCHANGED <<request, closure>>
         /\ step \notin {"idle", "pick"} /\ step' \notin {"idle", "pick"}
         /\ cause' = cause \/ cause' # "no_compatible_artifact"
<1> DEFINE Fine == /\ UNCHANGED <<request, closure>>
                   /\ step \notin {"idle", "pick"} /\ step' \notin {"idle", "pick"}
                   /\ cause' = cause \/ cause' # "no_compatible_artifact"
<1>1. ASSUME NEW why, Refuse(why), why # "no_compatible_artifact", step \notin {"idle", "pick"}
      PROVE  Fine
  BY <1>1 DEF Refuse
<1>2. ASSUME NEW p, NEW next, Fetch(p, next), next => step' \notin {"idle", "pick"},
             step \notin {"idle", "pick"}
      PROVE  Fine
  <2>1. CASE \E why : Refuse(why) /\ why # "no_compatible_artifact"
    BY <1>1, <1>2, <2>1
  <2>2. CASE next /\ UNCHANGED <<request, closure, cause>>
    BY <1>2, <2>2
  <2>3. \A a, hash : AnswerFault(a, hash) # "no_compatible_artifact"
    BY DEF AnswerFault
  <2> QED BY <1>2, <2>1, <2>2, <2>3 DEF Fetch
<1>3. CASE Begin BY <1>1, <1>3 DEF Begin
<1>4. CASE FetchRoot BY <1>2, <1>4 DEF FetchRoot
<1>5. ASSUME NEW p \in Deps, FetchWheel(p) PROVE Fine
  BY <1>1, <1>2, <1>5 DEF FetchWheel
<1>6. CASE CreateVenv BY <1>1, <1>6 DEF CreateVenv
<1>7. CASE Sync BY <1>1, <1>7 DEF Sync
<1>8. CASE InstallRoot BY <1>1, <1>8 DEF InstallRoot
<1>9. CASE VerifyEnvironment BY <1>1, <1>9 DEF VerifyEnvironment
<1>10. CASE CopyInterpreter BY <1>10 DEF CopyInterpreter
<1>11. ASSUME NEW n \in Aliases, RelinkAlias(n) PROVE Fine
  BY <1>11 DEF RelinkAlias
<1>12. CASE Seal BY <1>1, <1>12 DEF Seal
<1>13. CASE Break BY <1>1, <1>13 DEF Break
<1> QED BY <1>3, <1>4, <1>5, <1>6, <1>7, <1>8, <1>9, <1>10, <1>11, <1>12, <1>13
        DEF BuildNext, BuildStep

\* Asking and choosing keep the invariant.
LEMMA ChoosingKeeps ==
  ASSUME ClosureIsPicked, Pick \/ \E r \in Requests : Ask(r)
  PROVE  ClosureIsPicked'
<1>1. ASSUME NEW r \in Requests, Ask(r) PROVE ClosureIsPicked'
  BY <1>1 DEF Ask, ClosureIsPicked
<1>2. CASE Pick
  <2> DEFINE picked == [p \in Deps |-> PickArtifact(p)]
  <2>1. /\ step = "pick" /\ request' = request /\ closure = [p \in {} |-> 0]
        /\ request \in Requests /\ cause = "none"
    BY <1>2 DEF Pick, Refuse, ClosureIsPicked
  <2>2. \A p : PickArtifact(p)' = PickArtifact(p) BY <2>1 DEF PickArtifact, TagRanks
  <2>3. \/ (\E p \in Deps : picked[p] = <<>>) /\ Refuse("no_compatible_artifact")
        \/ Refuse("lock_missing_hash")
        \/ /\ \A p \in Deps : picked[p] # <<>>
           /\ closure' = [p \in Packages |->
                           IF p = Root THEN [kind |-> "wheel", of |-> request.root] ELSE picked[p][1]]
           /\ step' = "begin" /\ cause' = cause
    BY <1>2 DEF Pick
  <2>4. CASE (\E p \in Deps : picked[p] = <<>>) /\ Refuse("no_compatible_artifact")
    BY <2>1, <2>2, <2>4 DEF Refuse, ClosureIsPicked
  <2>5. CASE Refuse("lock_missing_hash")
    BY <2>1, <2>5 DEF Refuse, ClosureIsPicked
  <2>6. CASE /\ \A p \in Deps : picked[p] # <<>>
             /\ closure' = [p \in Packages |->
                           IF p = Root THEN [kind |-> "wheel", of |-> request.root] ELSE picked[p][1]]
             /\ step' = "begin" /\ cause' = cause
    <3>1. \A p \in Deps : p \in Packages /\ p # Root BY BuildAssumption DEF Packages
    <3>2. \A p \in Deps : PickArtifact(p) # <<>> /\ closure'[p] = PickArtifact(p)[1]
      BY <2>6, <3>1
    <3> QED BY <2>1, <2>2, <2>6, <3>2 DEF ClosureIsPicked
  <2> QED BY <2>3, <2>4, <2>5, <2>6
<1> QED BY <1>1, <1>2

\* The invariant holds in every reachable state.
THEOREM ClosureInvariance == IntakeSpec => []ClosureIsPicked
<1>1. IntakeInit => ClosureIsPicked
  BY DEF IntakeInit, BuildInit, ClosureIsPicked
<1>2. ClosureIsPicked /\ [IntakeNext]_intake => ClosureIsPicked'
  <2> SUFFICES ASSUME ClosureIsPicked, [IntakeNext]_intake PROVE ClosureIsPicked' OBVIOUS
  <2>1. CASE BuildNext BY <2>1, ChoosingKeeps, OtherCauses, ChoiceStays
  <2>2. CASE UNCHANGED build
    <3>1. \A p : PickArtifact(p)' = PickArtifact(p) BY <2>2 DEF build, PickArtifact, TagRanks
    <3> QED BY <2>2, <3>1 DEF build, ClosureIsPicked
  <2> QED BY <2>1, <2>2, BuildSteps
<1> QED BY <1>1, <1>2, PTL DEF IntakeSpec

\* resolution.py:380-410, tags.py:230: for every environment and every set of
\* wheels, the one chosen installs and no newer one was passed over; a package is
\* built from source, or the lock refused, only if no wheel installs; but for what
\* the expansion overlooks.
THEOREM BestWheelPickedHolds == IntakeSpec => []BestWheelPicked
<1>1. ASSUME ClosureIsPicked PROVE BestWheelPicked
  <2>1. ASSUME request \in Requests, NEW p \in Deps
        PROVE  LET wheels == request.offers[p].wheels
                   pick == PickWheel(TagRanks[request.target], wheels)
               IN  /\ pick = <<>> => AllOverlooked(p)
                   /\ pick # <<>> =>
                        /\ pick[1] \in wheels
                        /\ \E u \in pick[1].tags :
                             /\ Installs(request.target, u)
                             /\ \A w \in wheels : \A t \in w.tags :
                                  Installs(request.target, t) /\ Newer(t, u) => Overlooked(request.target, t)
    <3> DEFINE target == request.target
               wheels == request.offers[p].wheels
               pick == PickWheel(Ranks(target), wheels)
    <3>1. /\ target \in Targets /\ IsTarget(target)
          /\ \A w \in wheels : w.file \in Nat /\ w.tags \subseteq Tag
      BY <2>1, BuildAssumption
    <3>2. TagRanks[target] = Ranks(target) BY <3>1 DEF TagRanks
    <3> HIDE DEF target, wheels
    <3>3. /\ pick = <<>> => \A w \in wheels : \A t \in w.tags : Installs(target, t) => Overlooked(target, t)
          /\ pick # <<>> =>
               /\ pick[1] \in wheels
               /\ \E u \in pick[1].tags :
                    /\ Installs(target, u)
                    /\ \A w \in wheels : \A t \in w.tags :
                         Installs(target, t) /\ Newer(t, u) => Overlooked(target, t)
      BY <3>1, WheelIsBest
    <3> HIDE DEF pick
    <3>4. pick = PickWheel(TagRanks[target], wheels) BY <3>2 DEF pick
    <3> QED BY <3>3, <3>4 DEF AllOverlooked, target, wheels
  <2>2. ASSUME step \notin {"idle", "pick"}, closure # [p \in {} |-> 0], NEW p \in Deps
        PROVE  LET wheels == request.offers[p].wheels
                   of == closure[p].of
               IN  IF closure[p].kind = "sdist" THEN AllOverlooked(p)
                   ELSE /\ of \in wheels
                        /\ \E u \in of.tags :
                             /\ Installs(request.target, u)
                             /\ \A w \in wheels : \A t \in w.tags :
                                  Installs(request.target, t) /\ Newer(t, u) => Overlooked(request.target, t)
    <3> DEFINE wheels == request.offers[p].wheels
               pick == PickWheel(TagRanks[request.target], wheels)
               Best(of) == /\ of \in wheels
                           /\ \E u \in of.tags :
                                /\ Installs(request.target, u)
                                /\ \A w \in wheels : \A t \in w.tags :
                                     Installs(request.target, t) /\ Newer(t, u) => Overlooked(request.target, t)
    <3>1. /\ request \in Requests
          /\ PickArtifact(p) # <<>> /\ closure[p] = PickArtifact(p)[1]
      BY <1>1, <2>2 DEF ClosureIsPicked
    <3>2. /\ pick = <<>> => AllOverlooked(p)
          /\ pick # <<>> => Best(pick[1])
      BY <2>1, <3>1
    <3>3. \/ pick # <<>> /\ closure[p].kind = "wheel" /\ closure[p].of = pick[1]
          \/ pick = <<>> /\ closure[p].kind = "sdist"
      BY <3>1 DEF PickArtifact
    <3> HIDE DEF pick, Best
    <3>4. IF closure[p].kind = "sdist" THEN AllOverlooked(p) ELSE Best(closure[p].of)
      BY <3>2, <3>3
    <3> QED BY <3>4 DEF Best
  <2>3. ASSUME cause = "no_compatible_artifact" PROVE \E p \in Deps : AllOverlooked(p)
    <3>1. PICK p \in Deps : PickArtifact(p) = <<>> BY <1>1, <2>3 DEF ClosureIsPicked
    <3>2. request \in Requests BY <1>1, <2>3 DEF ClosureIsPicked
    <3>3. PickWheel(TagRanks[request.target], request.offers[p].wheels) = <<>>
      BY <3>1 DEF PickArtifact
    <3> QED BY <2>1, <3>1, <3>2, <3>3
  <2> QED BY <2>2, <2>3 DEF BestWheelPicked
<1> QED BY <1>1, ClosureInvariance, PTL

-----------------------------------------------------------------------------
(* The answers: what each adapter computes is of the input that was         *)
(* measured.  First what the operators they are built from compute.         *)

\* A segment with a name has two parts.
LEMMA PairHasTwo == ASSUME NEW x, NEW y PROVE Len(<<x, y>>) = 2 /\ <<x, y>>[1] = x /\ <<x, y>>[2] = y
<1>1. <<x, y>> \in Seq({x, y}) OBVIOUS
<1>2. DOMAIN <<x, y>> = 1..2 OBVIOUS
<1> QED BY <1>1, <1>2

\* A bucket is an assignment, segment by segment.
LEMMA BucketIs ==
  ASSUME NEW dims, NEW asg, BucketId(dims, asg) # Malformed
  PROVE  /\ DOMAIN BucketId(dims, asg) = DOMAIN dims
         /\ \A i \in DOMAIN dims : BucketId(dims, asg)[i] = <<dims[i][1], asg[dims[i][1]]>>
  BY DEF BucketId

\* An assignment's class is a segment of its bucket.
LEMMA SegmentOf ==
  ASSUME NEW dims, NEW asg, BucketId(dims, asg) # Malformed, NEW i \in DOMAIN dims
  PROVE  <<dims[i][1], asg[dims[i][1]]>> \in Range(BucketId(dims, asg))
<1>1. BucketId(dims, asg)[i] = <<dims[i][1], asg[dims[i][1]]>> /\ i \in DOMAIN BucketId(dims, asg)
  BY BucketIs
<1> QED BY <1>1 DEF Range

\* The pattern of a selector that spells every dimension of a vocabulary.
LEMMA SpelledParses ==
  ASSUME NEW dims, NEW claim, dims # <<>>,
         \A i, j \in DOMAIN dims : dims[i][1] = dims[j][1] => i = j,
         \A i \in DOMAIN dims : dims[i][1] \in DOMAIN claim => claim[dims[i][1]] \in dims[i][2]
  PROVE  ParseSelector(dims, Spelled(claim, dims)) = Spelled(claim, dims)
<1> DEFINE s == Spelled(claim, dims)
           Class(i) == IF dims[i][1] \in DOMAIN claim THEN claim[dims[i][1]] ELSE Star
<1>1. DOMAIN s = DOMAIN dims /\ \A i \in DOMAIN dims : s[i] = <<dims[i][1], Class(i)>>
  BY DEF Spelled
<1>1a. \A i \in DOMAIN dims : Class(i) \in dims[i][2] \cup {Star}
  OBVIOUS
<1>1b. s = [i \in DOMAIN dims |-> <<dims[i][1], Class(i)>>]
  BY DEF Spelled
<1> HIDE DEF s, Class
<1>2. ASSUME NEW i \in DOMAIN dims PROVE Len(s[i]) = 2 /\ s[i][1] = dims[i][1] /\ s[i][2] = Class(i)
  <2> DEFINE x == dims[i][1]
             y == Class(i)
  <2>1. s[i] = <<x, y>> BY <1>1
  <2> HIDE DEF x, y
  <2>2. Len(s[i]) = 2 /\ s[i][1] = x /\ s[i][2] = y BY <2>1, PairHasTwo
  <2> QED BY <2>2 DEF x, y
<1>3. s # <<>>
  BY <1>1b
<1>4. Parses(s)
  BY <1>1, <1>2, <1>3 DEF Parses
<1>5. ASSUME NEW i \in DOMAIN dims PROVE Assignment(s)[dims[i][1]] = Class(i)
  <2>1. s[i] \in ToSet(s) BY <1>1 DEF ToSet
  <2> QED BY <1>2, <1>4, <2>1, AssignmentOfSegment
<1>6. DOMAIN Assignment(s) = NamesOfDims(dims)
  <2>1. DOMAIN Assignment(s) = {seg[1] : seg \in ToSet(s)} BY DEF Assignment
  <2>2. ToSet(s) = {s[i] : i \in DOMAIN dims} BY <1>1 DEF ToSet
  <2>3. ToSet(dims) = {dims[i] : i \in DOMAIN dims} BY DEF ToSet
  <2> QED BY <1>2, <2>1, <2>2, <2>3 DEF NamesOfDims
<1>7. ASSUME NEW d \in ToSet(dims) PROVE Assignment(s)[d[1]] \in d[2] \cup {Star}
  <2>1. PICK i \in DOMAIN dims : d = dims[i] BY DEF ToSet
  <2> QED BY <1>1a, <1>5, <2>1
<1>8. ParseSelector(dims, s) = [i \in DOMAIN dims |-> <<dims[i][1], Assignment(s)[dims[i][1]]>>]
  BY <1>4, <1>6, <1>7 DEF ParseSelector
<1>9. ParseSelector(dims, s) = s
  BY <1>1b, <1>5, <1>8
<1> QED BY <1>9 DEF s

\* What a bucket that parses says of a dimension is what was measured.
LEMMA BucketAssigns ==
  ASSUME NEW dims, NEW asg, BucketId(dims, asg) # Malformed, dims # <<>>,
         \A i, j \in DOMAIN dims : dims[i][1] = dims[j][1] => i = j,
         NEW i \in DOMAIN dims
  PROVE  Assignment(BucketId(dims, asg))[dims[i][1]] = asg[dims[i][1]]
<1> DEFINE b == BucketId(dims, asg)
<1>1. DOMAIN b = DOMAIN dims /\ \A k \in DOMAIN dims : b[k] = <<dims[k][1], asg[dims[k][1]]>>
  BY BucketIs
<1>2. b = [k \in DOMAIN dims |-> <<dims[k][1], asg[dims[k][1]]>>]
  BY DEF BucketId
<1> HIDE DEF b
<1>3. ASSUME NEW k \in DOMAIN dims PROVE Len(b[k]) = 2 /\ b[k][1] = dims[k][1] /\ b[k][2] = asg[dims[k][1]]
  <2> DEFINE x == dims[k][1]
             y == asg[dims[k][1]]
  <2>1. b[k] = <<x, y>> BY <1>1
  <2> HIDE DEF x, y
  <2>2. Len(b[k]) = 2 /\ b[k][1] = x /\ b[k][2] = y BY <2>1, PairHasTwo
  <2> QED BY <2>2 DEF x, y
<1>4. b # <<>>
  BY <1>2
<1>5. Parses(b)
  BY <1>1, <1>3, <1>4 DEF Parses
<1>6. b[i] \in ToSet(b)
  BY <1>1 DEF ToSet
<1>7. Assignment(b)[dims[i][1]] = asg[dims[i][1]]
  BY <1>3, <1>5, <1>6, AssignmentOfSegment
<1> QED BY <1>7 DEF b

\* manifest.yaml:47-51: what the anomaly package claims has no gaps.
LEMMA ClaimedIsRegular ==
  ASSUME NEW m, NEW s \in Selectors("ts.anomaly"), BucketId(Dimensions("ts.anomaly"), m) # Malformed,
         Matches(ParseSelector(Dimensions("ts.anomaly"), s), BucketId(Dimensions("ts.anomaly"), m))
  PROVE  m.gap_profile = "regular"
<1> DEFINE dims == Dimensions("ts.anomaly")
<1>1. PICK claim \in AnomalyClaims : s = Spelled(claim, dims)
  BY DEF Selectors, ClaimsOf
<1>2. PICK d \in {"counts", "rates", "continuous_bounded", "continuous_unbounded"} :
        claim = [series_length |-> "short", series_count |-> "single", domain_class |-> d, gap_profile |-> "regular"]
  BY DEF AnomalyClaims
<1>3. /\ DOMAIN claim = {"series_length", "series_count", "domain_class", "gap_profile"}
      /\ claim["series_length"] = "short" /\ claim["series_count"] = "single"
      /\ claim["domain_class"] = d /\ claim["gap_profile"] = "regular"
  BY <1>2
<1>4. /\ DOMAIN dims = 1..6
      /\ dims[1][1] = "frequency" /\ dims[2][1] = "series_length" /\ dims[3][1] = "series_count"
      /\ dims[4][1] = "domain_class" /\ dims[5][1] = "seasonality" /\ dims[6][1] = "gap_profile"
      /\ "short" \in dims[2][2] /\ "single" \in dims[3][2] /\ "regular" \in dims[6][2]
      /\ {"counts", "rates", "continuous_bounded", "continuous_unbounded"} \subseteq dims[4][2]
  BY DEF Dimensions, SeriesDims
<1> HIDE DEF dims
<1>5. \A i, j \in DOMAIN dims : dims[i][1] = dims[j][1] => i = j
  BY <1>4
<1>6. \A i \in DOMAIN dims : dims[i][1] \in DOMAIN claim => claim[dims[i][1]] \in dims[i][2]
  BY <1>3, <1>4
<1>7. dims # <<>>
  <2>1. 1 \in DOMAIN dims BY <1>4
  <2>2. DOMAIN <<>> = {} OBVIOUS
  <2> QED BY <2>1, <2>2
<1>8. ParseSelector(dims, s) = Spelled(claim, dims)
  BY <1>1, <1>5, <1>6, <1>7, SpelledParses
<1>9. 6 \in DOMAIN dims /\ Spelled(claim, dims)[6] = <<"gap_profile", "regular">> /\ 6 \in DOMAIN Spelled(claim, dims)
  BY <1>3, <1>4 DEF Spelled
<1>10. "regular" # Star
  BY DEF Star
<1>11. Assignment(BucketId(dims, m))["gap_profile"] = "regular"
  BY <1>8, <1>9, <1>10 DEF Matches, dims
<1>12. Assignment(BucketId(dims, m))["gap_profile"] = m["gap_profile"]
  BY <1>4, <1>5, <1>7, <1>9, BucketAssigns DEF dims
<1> QED BY <1>11, <1>12

\* A series without gaps is its values.
LEMMA ValuesWhole ==
  ASSUME NEW c, c.val \in Seq(Int), Missing(c) = {}
  PROVE  Values(c) = c.val
<1> DEFINE v == c.val
           pieces == [i \in DOMAIN v |-> IF v[i] = Null THEN <<>> ELSE <<v[i]>>]
<1>1. v \in Seq(Int) /\ DOMAIN v = 1..Len(v) /\ Len(v) \in Nat /\ \A i \in 1..Len(v) : v[i] \in Int /\ v[i] # Null
  BY DEF Missing
<1>2. Values(c) = FlattenSeq(pieces)
  BY DEF Values
<1> HIDE DEF v
<1>3. \A i \in 1..Len(v) : pieces[i] = <<v[i]>> /\ pieces[i] \in Seq(Int)
  BY <1>1
<1>4. pieces \in Seq(Seq(Int)) /\ Len(pieces) = Len(v)
  <2>1. pieces = [i \in 1..Len(v) |-> pieces[i]]
    BY <1>1
  <2> HIDE DEF pieces
  <2> QED BY <1>1, <1>3, <2>1
<1> HIDE DEF pieces
<1>5. PICK f : Joined(pieces, f) /\ FlattenSeq(pieces) = f[Len(pieces)]
  BY <1>4, FlattenSteps
<1>6. \A n \in 0..Len(v) : f[n] = IF n = 0 THEN <<>> ELSE f[n - 1] \o pieces[n]
  BY <1>1, <1>4, <1>5 DEF Joined
<1> DEFINE Whole(n) == f[n] \in Seq(Int) /\ Len(f[n]) = n /\ \A k \in 1..n : f[n][k] = v[k]
           T == {n \in Nat : n <= Len(v) => Whole(n)}
<1>7. 0 \in T
  <2>1. f[0] = <<>> BY <1>1, <1>6
  <2>2. f[0] \in Seq(Int) /\ Len(f[0]) = 0 BY <2>1
  <2>3. \A k \in 1..0 : f[0][k] = v[k] OBVIOUS
  <2> QED BY <2>2, <2>3
<1>8. ASSUME NEW n \in Nat, n \in T PROVE n + 1 \in T
  <2> SUFFICES ASSUME n + 1 <= Len(v) PROVE Whole(n + 1) OBVIOUS
  <2>1. Whole(n) BY <1>1, <1>8
  <2>2. f[n + 1] = f[n] \o <<v[n + 1]>>
    <3>1. n + 1 \in 0..Len(v) /\ n + 1 \in 1..Len(v) /\ n + 1 # 0 /\ (n + 1) - 1 = n BY <1>1
    <3> QED BY <1>3, <1>6, <3>1
  <2>3. v[n + 1] \in Int BY <1>1
  <2> DEFINE g == f[n]
  <2>4. g \in Seq(Int) /\ Len(g) = n /\ \A k \in 1..n : g[k] = v[k] BY <2>1
  <2>5. f[n + 1] = g \o <<v[n + 1]>> BY <2>2
  <2> HIDE DEF g
  <2>6. f[n + 1] \in Seq(Int) /\ Len(f[n + 1]) = n + 1 BY <2>3, <2>4, <2>5
  <2>7. \A k \in 1..(n + 1) : f[n + 1][k] = v[k]
    BY <2>3, <2>4, <2>5
  <2> QED BY <2>6, <2>7
<1>9. Whole(Len(v))
  <2> HIDE DEF Whole
  <2>1. 0 \in T /\ \A n \in Nat : n \in T => n + 1 \in T BY <1>7, <1>8
  <2> HIDE DEF T
  <2>2. Nat \subseteq T BY <2>1, NumbersReached
  <2>3. Len(v) \in T BY <1>1, <2>2
  <2> QED BY <1>1, <2>3 DEF T
<1>10. f[Len(v)] = v BY <1>1, <1>9
<1> QED BY <1>2, <1>4, <1>5, <1>10 DEF v

\* What is there of a series.
LEMMA ValuesAre ==
  ASSUME NEW c, c.val \in Seq(Int)
  PROVE  Values(c) \in Seq(Int)
<1> DEFINE v == c.val
           pieces == [i \in DOMAIN v |-> IF v[i] = Null THEN <<>> ELSE <<v[i]>>]
<1>1. v \in Seq(Int) /\ DOMAIN v = 1..Len(v) /\ Len(v) \in Nat
  OBVIOUS
<1>2. Values(c) = FlattenSeq(pieces)
  BY DEF Values
<1> HIDE DEF v
<1>3. ASSUME NEW i \in 1..Len(v) PROVE (IF v[i] = Null THEN <<>> ELSE <<v[i]>>) \in Seq(Int)
  BY <1>1
<1>4. pieces \in Seq(Seq(Int))
  <2>1. pieces \in [1..Len(v) -> Seq(Int)] BY <1>1, <1>3
  <2> QED BY <1>1, <2>1
<1> QED BY <1>2, <1>4, FlattenMembers

\* Edges of bins from 0 to 1, none before the one ahead of it.
IsCover(edges) ==
  /\ edges \in Seq(Int) /\ Len(edges) >= 2
  /\ \A i, j \in 1..Len(edges) : i < j => edges[i] <= edges[j]
  /\ edges[1] <= 0 /\ edges[Len(edges)] >= Unit

\* Whole parts keep the order.
LEMMA DivKeepsOrder ==
  ASSUME NEW a \in Nat, NEW b \in Nat, NEW m \in Nat \ {0}, a <= b
  PROVE  a \div m \in Nat /\ a \div m <= b \div m
<1> DEFINE q == a \div m
           r == b \div m
<1>1. q \in Nat /\ r \in Nat /\ m * q <= a /\ b < m * r + m
  <2>1. q \in Int /\ q >= 0 /\ m * q <= a OBVIOUS
  <2>2. r \in Int /\ r >= 0 /\ b < m * r + m OBVIOUS
  <2> QED BY <2>1, <2>2
<1> HIDE DEF q, r
<1>2. CASE q > r
  <2>1. PICK d \in Nat : q = r + 1 + d
    <3>1. q - r - 1 \in Nat /\ q = r + 1 + (q - r - 1) BY <1>1, <1>2
    <3> QED BY <3>1
  <2>2. m * q = m * r + m + m * d BY <1>1, <2>1
  <2>3. m * d >= 0 /\ m * d \in Int /\ m * r \in Int BY <1>1, <2>1
  <2> QED BY <1>1, <2>2, <2>3
<1>3. q <= r BY <1>1, <1>2
<1> QED BY <1>1, <1>3 DEF q, r

\* calibrate.py:160-207: declared or of equal width, the bins cover [0, 1].
LEMMA EdgesCover ==
  ASSUME NEW c, c.edges \in Seq(Int), c.bins \in Int, Calibratable(c)
  PROVE  IsCover(EdgesOf(c))
<1>0. Unit \in Nat \ {0} BY QuantAssumption
<1>1. CASE c.edges # <<>>
  <2> DEFINE e == c.edges
  <2>1. /\ e \in Seq(Int) /\ DOMAIN e = 1..Len(e) /\ Len(e) >= 2 /\ EdgesOf(c) = e
        /\ \A i, j \in DOMAIN e : i < j => e[i] < e[j]
        /\ e[1] <= 0 /\ e[Len(e)] >= Unit
    BY <1>1 DEF Calibratable, CoversUnit, EdgesOf
  <2> HIDE DEF e
  <2>2. ASSUME NEW i \in 1..Len(e), NEW j \in 1..Len(e), i < j PROVE e[i] <= e[j]
    <3>1. e[i] \in Int /\ e[j] \in Int /\ e[i] < e[j] BY <2>1, <2>2
    <3> QED BY <3>1
  <2> QED BY <2>1, <2>2 DEF IsCover
<1>2. CASE c.edges = <<>>
  <2> DEFINE n == c.bins
             e == [k \in 1..n + 1 |-> ((k - 1) * Unit) \div n]
  <2>1. n \in Nat \ {0} /\ EdgesOf(c) = e
    BY <1>2 DEF Calibratable, EdgesOf
  <2> HIDE DEF n
  <2>2. ASSUME NEW k \in 1..(n + 1) PROVE (k - 1) * Unit \in Nat /\ e[k] = ((k - 1) * Unit) \div n /\ e[k] \in Nat
    <3>1. (k - 1) * Unit \in Nat BY <1>0, <2>1
    <3>2. e[k] = ((k - 1) * Unit) \div n OBVIOUS
    <3>3. ((k - 1) * Unit) \div n \in Nat
      <4> DEFINE a == (k - 1) * Unit
      <4>1. a \in Nat /\ a <= a BY <3>1
      <4> HIDE DEF a
      <4>2. a \div n \in Nat BY <2>1, <4>1, DivKeepsOrder
      <4> QED BY <4>2 DEF a
    <3> QED BY <3>1, <3>2, <3>3
  <2>3. e \in Seq(Int) /\ Len(e) = n + 1
    <3>1. e = [k \in 1..(n + 1) |-> e[k]] OBVIOUS
    <3> HIDE DEF e
    <3>2. \A k \in 1..(n + 1) : e[k] \in Int BY <2>2
    <3>3. n + 1 \in Nat BY <2>1
    <3>4. e \in Seq(Int) /\ DOMAIN e = 1..(n + 1) BY <3>1, <3>2, <3>3, IsSequence
    <3> QED BY <3>3, <3>4
  <2>4. ASSUME NEW i \in 1..(n + 1), NEW j \in 1..(n + 1), i < j PROVE e[i] <= e[j]
    <3> DEFINE a == (i - 1) * Unit
               b == (j - 1) * Unit
    <3>1. a \in Nat /\ b \in Nat /\ e[i] = a \div n /\ e[j] = b \div n BY <2>2
    <3>2. a <= b
      <4>1. PICK d \in Nat : j = i + d
        <5>1. j - i \in Nat /\ j = i + (j - i) BY <2>1, <2>4
        <5> QED BY <5>1
      <4>2. b = a + d * Unit BY <1>0, <2>1, <4>1
      <4>3. d * Unit >= 0 /\ d * Unit \in Int BY <1>0
      <4> HIDE DEF a, b
      <4> QED BY <3>1, <4>2, <4>3
    <3> HIDE DEF a, b
    <3>3. a \div n <= b \div n BY <2>1, <3>1, <3>2, DivKeepsOrder
    <3> QED BY <3>1, <3>3
  <2>5. e[1] = 0
    <3>1. e[1] = ((1 - 1) * Unit) \div n BY <2>1, <2>2
    <3>2. (1 - 1) * Unit = 0 BY <1>0
    <3>3. 0 \div n = 0 BY <2>1
    <3> QED BY <3>1, <3>2, <3>3
  <2>6. e[n + 1] = Unit
    <3>1. e[n + 1] = ((n + 1 - 1) * Unit) \div n BY <2>1, <2>2
    <3>2. (n + 1 - 1) * Unit = n * Unit BY <1>0, <2>1
    <3>3. (n * Unit) \div n = Unit BY <1>0, <2>1
    <3> QED BY <3>1, <3>2, <3>3
  <2> HIDE DEF e
  <2> QED BY <1>0, <2>1, <2>3, <2>4, <2>5, <2>6 DEF IsCover
<1> QED BY <1>1, <1>2

\* A prediction lies between the edges of its bin.
LEMMA BinHolds ==
  ASSUME NEW edges, IsCover(edges), NEW p \in 0..Unit
  PROVE  /\ BinOf(edges, p) \in 1..(Len(edges) - 1)
         /\ edges[BinOf(edges, p)] <= p
         /\ IF BinOf(edges, p) = Len(edges) - 1 THEN p <= edges[BinOf(edges, p) + 1]
            ELSE p < edges[BinOf(edges, p) + 1]
<1> DEFINE n == Len(edges)
           T == {k \in 2..n : k = n \/ edges[k] > p}
<1>1. /\ n \in Nat /\ n >= 2 /\ DOMAIN edges = 1..n /\ \A i \in 1..n : edges[i] \in Int
      /\ \A i, j \in 1..n : i < j => edges[i] <= edges[j]
      /\ edges[1] <= 0 /\ edges[n] >= Unit /\ Unit \in Nat /\ p \in Int /\ 0 <= p /\ p <= Unit
  BY QuantAssumption DEF IsCover
<1> HIDE DEF n
<1>2. n \in T /\ T \subseteq Nat BY <1>1
<1>3. PICK t \in T : \A k \in T : t <= k
  <2> HIDE DEF T
  <2> QED BY <1>2, LeastNumber
<1>4. t \in 2..n /\ t - 1 \in 1..(n - 1) BY <1>1, <1>3
<1>5. {k \in 2..(n - 1) : edges[k] <= p} = 2..(t - 1)
  <2>1. ASSUME NEW k \in 2..(n - 1), edges[k] <= p PROVE k \in 2..(t - 1)
    <3>1. CASE t = n BY <1>1, <3>1
    <3>2. CASE t # n
      <4>1. edges[t] > p BY <1>3, <3>2
      <4>2. ~(t <= k)
        <5>1. CASE t = k BY <1>1, <1>4, <2>1, <4>1, <5>1
        <5>2. CASE t < k
          <6>1. edges[t] <= edges[k] /\ edges[t] \in Int /\ edges[k] \in Int BY <1>1, <1>4, <5>2
          <6> QED BY <1>1, <2>1, <4>1, <6>1
        <5> QED BY <1>1, <1>4, <5>1, <5>2
      <4> QED BY <1>1, <1>4, <4>2
    <3> QED BY <3>1, <3>2
  <2>2. ASSUME NEW k \in 2..(t - 1) PROVE k \in 2..(n - 1) /\ edges[k] <= p
    <3>1. k \in 2..(n - 1) /\ k \in 2..n /\ ~(t <= k) BY <1>1, <1>4
    <3>2. k \notin T BY <1>3, <3>1
    <3>3. ~(edges[k] > p) BY <3>1, <3>2
    <3> QED BY <1>1, <3>1, <3>3
  <2> QED BY <2>1, <2>2
<1>6. BinOf(edges, p) = t - 1
  <2>1. Cardinality(2..(t - 1)) = t - 2
    <3>1. 2 \in Int /\ t - 1 \in Int BY <1>1, <1>4
    <3>2. Cardinality(2..(t - 1)) = IF 2 > t - 1 THEN 0 ELSE (t - 1) - 2 + 1 BY <3>1, FS_Interval
    <3> QED BY <1>1, <1>4, <3>2
  <2>2. BinOf(edges, p) = 1 + Cardinality({k \in 2..(n - 1) : edges[k] <= p}) BY DEF BinOf, n
  <2>3. BinOf(edges, p) = 1 + (t - 2) BY <1>5, <2>1, <2>2
  <2> QED BY <1>1, <1>4, <2>3
<1>7. edges[t - 1] <= p
  <2>1. CASE t = 2 BY <1>1, <2>1
  <2>2. CASE t # 2
    <3>1. t - 1 \in 2..(t - 1) BY <1>1, <1>4, <2>2
    <3> QED BY <1>5, <3>1
  <2> QED BY <2>1, <2>2
<1>8. IF t - 1 = n - 1 THEN p <= edges[(t - 1) + 1] ELSE p < edges[(t - 1) + 1]
  <2>1. (t - 1) + 1 = t /\ (t - 1 = n - 1 <=> t = n) BY <1>1, <1>4
  <2>2. CASE t = n BY <1>1, <2>1, <2>2
  <2>3. CASE t # n BY <1>1, <1>3, <1>4, <2>1, <2>3
  <2> QED BY <2>2, <2>3
<1> QED BY <1>4, <1>6, <1>7, <1>8 DEF n

\* Taking the chosen element out of a set leaves one element less.
LEMMA OneLess ==
  ASSUME NEW X, IsFiniteSet(X), X # {}
  PROVE  LET x == CHOOSE x \in X : TRUE
         IN  x \in X /\ IsFiniteSet(X \ {x}) /\ Cardinality(X) \in Nat /\ Cardinality(X) > 0
             /\ Cardinality(X \ {x}) = Cardinality(X) - 1
<1> DEFINE x == CHOOSE x \in X : TRUE
<1>1. x \in X OBVIOUS
<1> HIDE DEF x
<1>2. IsFiniteSet(X \ {x}) /\ Cardinality(X \ {x}) = Cardinality(X) - 1
  BY <1>1, FS_RemoveElement
<1>3. Cardinality(X) \in Nat /\ Cardinality(X \ {x}) \in Nat BY <1>2, FS_CardinalityType
<1>4. Cardinality(X) > 0 BY <1>2, <1>3
<1> QED BY <1>1, <1>2, <1>3, <1>4 DEF x

\* A sum of numbers is a number.
LEMMA WeightedIsNumber ==
  ASSUME NEW w, NEW g, IsFiniteSet(DOMAIN w), \A s \in DOMAIN w : w[s] \in Int /\ g[s] \in Int
  PROVE  Weighted(w, g) \in Int
<1> DEFINE D == DOMAIN w
           Elem(X) == CHOOSE x \in X : TRUE
           Summand(h, X) == IF X = {} THEN 0 ELSE w[Elem(X)] * g[Elem(X)] + h[X \ {Elem(X)}]
           UpTo(n) == {X \in SUBSET D : Cardinality(X) <= n}
           IsSum(h, n) == h = [X \in UpTo(n) |-> Summand(h, X)]
           T == {n \in Nat : \E h : IsSum(h, n)}
<1>1. \A X \in SUBSET D : IsFiniteSet(X) /\ Cardinality(X) \in Nat
  BY FS_Subset, FS_CardinalityType
<1>2. ASSUME NEW X \in SUBSET D, X # {}
      PROVE  /\ Elem(X) \in X /\ X \ {Elem(X)} \in SUBSET D
             /\ Cardinality(X) > 0 /\ Cardinality(X \ {Elem(X)}) = Cardinality(X) - 1
  BY <1>1, <1>2, OneLess
<1>3. Cardinality({}) = 0 /\ {} \in SUBSET D BY FS_EmptySet
<1> HIDE DEF D, Elem
<1>4. 0 \in T
  <2> DEFINE h == [X \in UpTo(0) |-> 0]
  <2>1. ASSUME NEW X \in UpTo(0) PROVE X = {}
    <3>1. X \in SUBSET D /\ Cardinality(X) <= 0 /\ Cardinality(X) \in Nat BY <1>1, <2>1
    <3>2. ASSUME X # {} PROVE FALSE
      <4>1. Cardinality(X) > 0 BY <1>2, <3>1, <3>2
      <4> QED BY <3>1, <4>1
    <3> QED BY <3>2
  <2>2. ASSUME NEW X \in UpTo(0) PROVE Summand(h, X) = 0 BY <2>1, <2>2
  <2> HIDE DEF Summand
  <2>3. IsSum(h, 0) BY <2>2
  <2> HIDE DEF h, IsSum
  <2> QED BY <2>3
<1>5. ASSUME NEW n \in Nat, n \in T PROVE n + 1 \in T
  <2>1. PICK h : IsSum(h, n) BY <1>5
  <2> DEFINE e == [X \in UpTo(n + 1) |-> IF Cardinality(X) <= n THEN h[X] ELSE Summand(h, X)]
  <2>2. ASSUME NEW X \in UpTo(n + 1) PROVE e[X] = Summand(e, X)
    <3>1. e[X] = IF Cardinality(X) <= n THEN h[X] ELSE Summand(h, X) BY <2>2
    <3>2. X \in UpTo(n) => h[X] = Summand(h, X)
      <4> HIDE DEF Summand, UpTo
      <4> QED BY <2>1
    <3>3. e[X] = Summand(h, X)
      <4>1. Cardinality(X) <= n => X \in UpTo(n) BY <2>2
      <4> HIDE DEF Summand, e, UpTo
      <4> QED BY <3>1, <3>2, <4>1
    <3>4. CASE X = {} BY <3>3, <3>4
    <3>5. CASE X # {}
      <4> DEFINE Y == X \ {Elem(X)}
      <4>1. Y \in SUBSET D /\ Cardinality(Y) = Cardinality(X) - 1 /\ Cardinality(X) \in Nat /\ Cardinality(X) <= n + 1
        BY <1>1, <1>2, <2>2, <3>5
      <4> HIDE DEF Y
      <4>2. Cardinality(Y) <= n /\ Y \in UpTo(n + 1) BY <4>1
      <4>3. e[Y] = h[Y] BY <4>2
      <4> HIDE DEF e
      <4> QED BY <3>3, <3>5, <4>3 DEF Y
    <3> QED BY <3>4, <3>5
  <2>3. DOMAIN e = UpTo(n + 1) /\ e = [X \in UpTo(n + 1) |-> e[X]] OBVIOUS
  <2> HIDE DEF e, Summand, UpTo
  <2>4. IsSum(e, n + 1) BY <2>2, <2>3
  <2> HIDE DEF IsSum
  <2> QED BY <2>4
<1>6. \E h : h = [X \in SUBSET D |-> Summand(h, X)]
  <2>1. Cardinality(D) \in Nat /\ \A X \in SUBSET D : Cardinality(X) <= Cardinality(D)
    BY FS_Subset, FS_CardinalityType DEF D
  <2>2. UpTo(Cardinality(D)) = SUBSET D BY <2>1
  <2>3. Cardinality(D) \in T
    <3> HIDE DEF T
    <3>1. Nat \subseteq T BY <1>4, <1>5, NumbersReached
    <3> QED BY <2>1, <3>1
  <2>4. PICK h : IsSum(h, Cardinality(D)) BY <2>3
  <2> HIDE DEF Summand, UpTo
  <2> QED BY <2>2, <2>4
<1> DEFINE Sum == CHOOSE h : h = [X \in SUBSET D |-> Summand(h, X)]
<1>7. Sum = [X \in SUBSET D |-> Summand(Sum, X)]
  <2> HIDE DEF Summand
  <2> QED BY <1>6
<1>8. Weighted(w, g) = Sum[D]
  BY DEF Weighted, MapThenSumSet, MapThenFoldSet, D, Elem
<1> HIDE DEF Sum
<1> DEFINE N == {n \in Nat : \A X \in SUBSET D : Cardinality(X) = n => Sum[X] \in Int}
<1>9. 0 \in N
  <2> SUFFICES ASSUME NEW X \in SUBSET D, Cardinality(X) = 0 PROVE Sum[X] \in Int OBVIOUS
  <2>1. ASSUME X # {} PROVE FALSE
    <3>1. Cardinality(X) > 0 BY <1>2, <2>1
    <3> QED BY <3>1
  <2>2. Sum[X] = Summand(Sum, X)
    <3> HIDE DEF Summand
    <3> QED BY <1>7
  <2> QED BY <2>1, <2>2
<1>10. ASSUME NEW n \in Nat, n \in N PROVE n + 1 \in N
  <2> SUFFICES ASSUME NEW X \in SUBSET D, Cardinality(X) = n + 1 PROVE Sum[X] \in Int OBVIOUS
  <2>1. X # {} BY <1>3
  <2>2. Sum[X] = Summand(Sum, X)
    <3> HIDE DEF Summand
    <3> QED BY <1>7
  <2>3. Sum[X \ {Elem(X)}] \in Int BY <1>2, <1>10, <2>1
  <2>4. w[Elem(X)] \in Int /\ g[Elem(X)] \in Int BY <1>2, <2>1 DEF D
  <2> QED BY <2>1, <2>2, <2>3, <2>4
<1>11. Cardinality(D) \in N
  <2>1. D \in SUBSET D OBVIOUS
  <2>2. Cardinality(D) \in Nat BY <1>1, <2>1
  <2> HIDE DEF N
  <2>3. Nat \subseteq N BY <1>9, <1>10, NumbersReached
  <2> QED BY <2>2, <2>3
<1> QED BY <1>8, <1>11

\* rank.py:345-361: a ranking holds every item once, in the order of their scores.
LEMMA RankingIs ==
  ASSUME NEW c, NEW scores, IsList(c.items), IsRanking(c), \A i \in DOMAIN c.items : c.items[i].id \in Int /\ scores[i] \in Int
  PROVE  /\ DOMAIN Ranking(c, scores) = DOMAIN c.items
         /\ {Ranking(c, scores)[k].item : k \in DOMAIN c.items} = DOMAIN c.items
         /\ \A k \in DOMAIN c.items :
              /\ Ranking(c, scores)[k].score = scores[Ranking(c, scores)[k].item]
              /\ Ranking(c, scores)[k].tied =
                   {i \in DOMAIN c.items : scores[i] = Ranking(c, scores)[k].score} \ {Ranking(c, scores)[k].item}
         /\ \A k, l \in DOMAIN c.items :
              /\ k < l => Ranking(c, scores)[k].score >= Ranking(c, scores)[l].score
              /\ k # l => Ranking(c, scores)[k].item # Ranking(c, scores)[l].item
<1> DEFINE n == Len(c.items)
           D == 1..n
           id(i) == c.items[i].id
           A(i) == Ahead(c, scores, i)
           order == [k \in DOMAIN c.items |-> CHOOSE i \in DOMAIN c.items : Cardinality(Ahead(c, scores, i)) = k - 1]
           r == Ranking(c, scores)
<1>1. n \in Nat /\ DOMAIN c.items = D
  <2> DEFINE s == c.items
  <2>1. s \in Seq(Range(s)) BY DEF IsList
  <2> HIDE DEF s
  <2>2. Len(s) \in Nat /\ DOMAIN s = 1..Len(s) BY <2>1
  <2> QED BY <2>2 DEF s
<1>2. /\ \A i \in D : id(i) \in Int /\ scores[i] \in Int
      /\ \A i, j \in D : id(i) = id(j) => i = j
  BY <1>1 DEF IsRanking
<1>3. \A i \in D : A(i) = {j \in D : scores[j] > scores[i] \/ (scores[j] = scores[i] /\ id(j) < id(i))}
  BY <1>1 DEF Ahead
<1>4. /\ DOMAIN r = D /\ order = [k \in D |-> CHOOSE i \in D : Cardinality(A(i)) = k - 1]
      /\ \A k \in D : r[k] = [item |-> order[k], score |-> scores[order[k]],
                              tied |-> {i \in D : scores[i] = scores[order[k]]} \ {order[k]}]
  BY <1>1 DEF Ranking
<1> HIDE DEF n, id, A, order, r
<1>5. IsFiniteSet(D) /\ Cardinality(D) = n
  <2>1. 1 \in Int /\ n \in Int BY <1>1
  <2>2. IsFiniteSet(1..n) /\ Cardinality(1..n) = IF 1 > n THEN 0 ELSE n - 1 + 1 BY <2>1, FS_Interval
  <2> QED BY <1>1, <2>2
<1> HIDE DEF D
<1>6. \A i \in D : A(i) \in SUBSET D /\ IsFiniteSet(A(i)) /\ Cardinality(A(i)) \in Nat
  <2>1. \A i \in D : A(i) \in SUBSET D BY <1>3
  <2> QED BY <1>5, <2>1, FS_Subset, FS_CardinalityType
\* One that is ahead has fewer ahead of it.
<1>7. ASSUME NEW i \in D, NEW j \in D, j \in A(i) PROVE Cardinality(A(j)) < Cardinality(A(i))
  <2>1. ASSUME NEW k \in A(j) PROVE k \in A(i)
    <3>1. k \in D BY <1>6, <2>1
    <3>2. scores[k] > scores[j] \/ (scores[k] = scores[j] /\ id(k) < id(j)) BY <1>3, <2>1
    <3>3. scores[j] > scores[i] \/ (scores[j] = scores[i] /\ id(j) < id(i)) BY <1>3, <1>7
    <3>4. scores[k] > scores[i] \/ (scores[k] = scores[i] /\ id(k) < id(i)) BY <1>2, <3>1, <3>2, <3>3
    <3> QED BY <1>3, <3>1, <3>4
  <2>2. j \notin A(j)
    <3>1. ~(scores[j] > scores[j]) /\ ~(id(j) < id(j)) BY <1>2
    <3> QED BY <1>3, <3>1
  <2>3. A(j) \in SUBSET A(i) /\ A(j) # A(i) BY <1>7, <2>1, <2>2
  <2>4. Cardinality(A(j)) <= Cardinality(A(i)) /\ (Cardinality(A(i)) = Cardinality(A(j)) => A(i) = A(j))
    BY <1>6, <2>3, FS_Subset
  <2> QED BY <1>6, <2>3, <2>4
<1>8. ASSUME NEW i \in D, NEW j \in D, i # j PROVE Cardinality(A(i)) # Cardinality(A(j))
  <2>1. j \in A(i) \/ i \in A(j)
    <3>1. id(i) # id(j) BY <1>2, <1>8
    <3>2. \/ scores[j] > scores[i] \/ (scores[j] = scores[i] /\ id(j) < id(i))
          \/ scores[i] > scores[j] \/ (scores[i] = scores[j] /\ id(i) < id(j))
      BY <1>2, <3>1
    <3> QED BY <1>3, <3>2
  <2>2. CASE j \in A(i)
    <3>1. Cardinality(A(j)) < Cardinality(A(i)) BY <1>7, <2>2
    <3> QED BY <1>6, <3>1
  <2>3. CASE i \in A(j)
    <3>1. Cardinality(A(i)) < Cardinality(A(j)) BY <1>7, <2>3
    <3> QED BY <1>6, <3>1
  <2> QED BY <2>1, <2>2, <2>3
<1>9. ASSUME NEW i \in D PROVE Cardinality(A(i)) + 1 \in D
  <2>1. i \notin A(i)
    <3>1. ~(scores[i] > scores[i]) /\ ~(id(i) < id(i)) BY <1>2
    <3> QED BY <1>3, <3>1
  <2>2. Cardinality(A(i)) <= Cardinality(D) /\ (Cardinality(D) = Cardinality(A(i)) => D = A(i))
    BY <1>5, <1>6, FS_Subset
  <2>3. Cardinality(A(i)) < n BY <1>1, <1>5, <1>6, <2>1, <2>2
  <2>4. Cardinality(A(i)) \in Nat BY <1>6
  <2> QED BY <1>1, <2>3, <2>4 DEF D
\* So each place is somebody's.
<1>10. ASSUME NEW k \in D PROVE \E i \in D : Cardinality(A(i)) = k - 1
  <2> DEFINE f == [i \in D |-> Cardinality(A(i)) + 1]
  <2> SUFFICES ASSUME \A i \in D : Cardinality(A(i)) # k - 1 PROVE FALSE OBVIOUS
  <2>1. ASSUME NEW i \in D PROVE f[i] \in D \ {k}
    <3>1. Cardinality(A(i)) # k - 1 /\ Cardinality(A(i)) \in Nat /\ k \in Int BY <1>1, <1>6 DEF D
    <3>2. Cardinality(A(i)) + 1 # k BY <3>1
    <3> QED BY <1>9, <3>2
  <2>2. f \in [D -> D \ {k}]
    <3>1. f = [i \in D |-> f[i]] OBVIOUS
    <3> HIDE DEF f
    <3> QED BY <2>1, <3>1
  <2>3. IsFiniteSet(D \ {k}) /\ Cardinality(D \ {k}) = n - 1
    BY <1>5, FS_RemoveElement
  <2>4. Cardinality(D) > Cardinality(D \ {k}) BY <1>1, <1>5, <2>3
  <2>5. PICK i \in D, j \in D : i # j /\ f[i] = f[j]
    <3> HIDE DEF f
    <3> QED BY <1>5, <2>2, <2>3, <2>4, FS_PigeonHole
  <2>6. Cardinality(A(i)) = Cardinality(A(j))
    <3>1. Cardinality(A(i)) + 1 = Cardinality(A(j)) + 1 BY <2>5
    <3>2. Cardinality(A(i)) \in Nat /\ Cardinality(A(j)) \in Nat BY <1>6
    <3> QED BY <3>1, <3>2
  <2> QED BY <1>8, <2>5, <2>6
<1>11. ASSUME NEW k \in D PROVE order[k] \in D /\ Cardinality(A(order[k])) = k - 1
  BY <1>4, <1>10
<1>12. ASSUME NEW i \in D PROVE \E k \in D : order[k] = i
  <2> DEFINE k == Cardinality(A(i)) + 1
  <2>1. k \in D /\ k - 1 = Cardinality(A(i)) BY <1>6, <1>9
  <2> HIDE DEF k
  <2>2. order[k] \in D /\ Cardinality(A(order[k])) = Cardinality(A(i)) BY <1>11, <2>1
  <2>3. order[k] = i BY <1>8, <2>2
  <2> QED BY <2>1, <2>3
<1>13. ASSUME NEW k \in D, NEW l \in D, k < l
       PROVE  scores[order[k]] >= scores[order[l]] /\ order[k] # order[l]
  <2>1. /\ order[k] \in D /\ order[l] \in D /\ k \in Int /\ l \in Int
        /\ Cardinality(A(order[k])) = k - 1 /\ Cardinality(A(order[l])) = l - 1
    BY <1>1, <1>11 DEF D
  <2>2. order[k] # order[l] BY <1>13, <2>1
  <2>3. ASSUME scores[order[l]] > scores[order[k]] PROVE FALSE
    <3>1. order[l] \in A(order[k]) BY <1>3, <2>1, <2>3
    <3>2. Cardinality(A(order[l])) < Cardinality(A(order[k])) BY <1>7, <2>1, <3>1
    <3> QED BY <1>13, <2>1, <3>2
  <2>4. scores[order[k]] \in Int /\ scores[order[l]] \in Int BY <1>2, <2>1
  <2> QED BY <2>2, <2>3, <2>4
<1>14. ASSUME NEW k \in D
       PROVE  /\ r[k].item = order[k] /\ r[k].score = scores[order[k]]
              /\ r[k].tied = {i \in D : scores[i] = scores[order[k]]} \ {order[k]}
  <2> DEFINE t == {i \in D : scores[i] = scores[order[k]]} \ {order[k]}
  <2>1. r[k] = [item |-> order[k], score |-> scores[order[k]], tied |-> t] BY <1>4
  <2> HIDE DEF t
  <2>2. r[k].item = order[k] /\ r[k].score = scores[order[k]] /\ r[k].tied = t BY <2>1
  <2> QED BY <2>2 DEF t
<1>15. {r[k].item : k \in D} = D
  BY <1>11, <1>12, <1>14
<1>16. ASSUME NEW k \in D, NEW l \in D, k # l PROVE r[k].item # r[l].item
  <2>1. k \in Int /\ l \in Int BY <1>1 DEF D
  <2>2. k < l \/ l < k BY <1>16, <2>1
  <2> QED BY <1>13, <1>14, <2>2
<1>17. \A k, l \in D : k < l => r[k].score >= r[l].score
  BY <1>13, <1>14
<1>18. \A k \in D : r[k].score = scores[r[k].item] /\ r[k].tied = {i \in D : scores[i] = r[k].score} \ {r[k].item}
  BY <1>14
<1> QED BY <1>1, <1>4, <1>15, <1>16, <1>17, <1>18 DEF r

\* What was admitted is in the bucket that was measured, which the manifest claims.
AdmittedIsMeasured ==
  phase \in {"admitted", "read", "ok"} =>
    /\ Placeable(call)
    /\ bucket = BucketId(Dimensions(call.interface), Measured(call)) /\ bucket # Malformed
    /\ \E s \in Selectors(call.interface) : Matches(ParseSelector(Dimensions(call.interface), s), bucket)

AnswerIInv ==
  /\ phase # "idle" => call \in Calls
  /\ phase = "read" => call.interface = "score.rank" /\ IsRanking(call)
  /\ phase # "ok" => out = NoOut
  /\ AdmittedIsMeasured /\ AnswersMatchInput

\* A series the anomaly adapter sees has no gap.
LEMMA SeriesIsWhole ==
  ASSUME AnswerIInv, Running("ts.anomaly")
  PROVE  /\ call.at \in Seq(Int) /\ call.val \in Seq(Int) /\ Len(call.val) = Len(call.at) /\ call.changes \in Int
         /\ Missing(call) = {} /\ Values(call) = call.val
<1>1. phase = "admitted" /\ call.interface = "ts.anomaly" /\ call \in Calls
  BY DEF Running, AnswerIInv
<1>2. call.at \in Seq(Int) /\ call.val \in Seq(Int) /\ Len(call.val) = Len(call.at) /\ call.changes \in Int
  BY <1>1, QuantAssumption DEF IsInput
<1> DEFINE dims == Dimensions("ts.anomaly")
<1>3. PICK s \in Selectors("ts.anomaly") :
        BucketId(dims, Measured(call)) # Malformed /\ Matches(ParseSelector(dims, s), BucketId(dims, Measured(call)))
  BY <1>1 DEF AnswerIInv, AdmittedIsMeasured
<1> HIDE DEF dims
<1>4. Measured(call).gap_profile = "regular"
  BY <1>3, ClaimedIsRegular DEF dims
<1>5. Measured(call).gap_profile = GapProfile(call)
  BY <1>1 DEF Measured
<1>6. Missing(call) = {}
  BY <1>4, <1>5 DEF GapProfile
<1> QED BY <1>2, <1>6, ValuesWhole

\* anomaly.py:156-166.
LEMMA PointsHold ==
  ASSUME AnswerIInv, Running("ts.anomaly"), call' = call, out' = [kind |-> "points", points |-> Points(call)]
  PROVE  PointsAreObservations'
<1> DEFINE v == call.val
           t == call.at
           ps == [i \in DOMAIN v |-> [at |-> t[i], value |-> v[i]]]
<1>1. /\ t \in Seq(Int) /\ v \in Seq(Int) /\ Len(v) = Len(t) /\ Missing(call) = {} /\ Points(call) = ps
      /\ DOMAIN v = 1..Len(v) /\ DOMAIN t = 1..Len(t) /\ Len(v) \in Nat
  BY SeriesIsWhole DEF Points
<1>2. Len(t) - Cardinality(Missing(call)) = Len(t)
  <2>1. Cardinality(Missing(call)) = 0 BY <1>1, FS_EmptySet
  <2> QED BY <1>1, <2>1
<1> HIDE DEF v, t
<1>3. Len(ps) = Len(v) /\ \A i \in DOMAIN ps : i \in DOMAIN t /\ t[i] = ps[i].at /\ v[i] = ps[i].value
  <2>1. DOMAIN ps = 1..Len(v) BY <1>1
  <2>2. ASSUME NEW i \in 1..Len(v) PROVE ps[i].at = t[i] /\ ps[i].value = v[i] BY <1>1
  <2>3. Len(ps) = Len(v) BY <1>1, <2>1
  <2> QED BY <1>1, <2>1, <2>2, <2>3
<1> HIDE DEF ps
<1>4. out'.points = ps BY <1>1
<1>5. Len(ps) = Len(t) - Cardinality(Missing(call)) BY <1>1, <1>2, <1>3
<1> QED BY <1>3, <1>4, <1>5 DEF PointsAreObservations, v, t

\* anomaly.py:222-236: no observation between two segments, none in both.
LEMMA SegmentsHold ==
  ASSUME AnswerIInv, Running("ts.anomaly"), call' = call, call.changes >= 1,
         NEW cs \in Cuts(Len(Values(call)), call.changes),
         out' = [kind |-> "segments", segments |-> SegmentsOf(cs, Len(Values(call)))]
  PROVE  SegmentsTile'
<1> DEFINE n == Len(Values(call))
           m == call.changes
           ss == SegmentsOf(cs, n)
<1>1. n \in Nat /\ m \in Nat \ {0}
  <2>1. n = Len(call.val) /\ call.val \in Seq(Int) /\ m \in Int BY SeriesIsWhole
  <2> QED BY <2>1
<1>2. /\ cs \in [1..m -> 2..n]
      /\ \A i \in 1..m : cs[i] + 2 <= IF i = m THEN n ELSE cs[i + 1]
  BY DEF Cuts
<1> HIDE DEF n, m
<1>3. Len(cs) = m
  <2>1. cs \in Seq(2..n) /\ DOMAIN cs = 1..m BY <1>1, <1>2
  <2> QED BY <1>1, <2>1
<1>4. /\ ss = [i \in 1..(m + 1) |-> [start |-> IF i = 1 THEN 0 ELSE cs[i - 1], end |-> IF i > m THEN n ELSE cs[i]]]
  BY <1>1, <1>3 DEF SegmentsOf
<1> HIDE DEF ss
<1>5. DOMAIN ss = 1..(m + 1) /\ Len(ss) = m + 1
  BY <1>1, <1>4
<1>6. ASSUME NEW i \in 1..(m + 1)
      PROVE  ss[i].start = (IF i = 1 THEN 0 ELSE cs[i - 1]) /\ ss[i].end = (IF i > m THEN n ELSE cs[i])
  BY <1>4
<1>7. ss[1].start = 0 /\ ss[m + 1].end = n
  BY <1>1, <1>6
<1>8. ASSUME NEW i \in 1..(m + 1) PROVE ss[i].end >= ss[i].start + 2
  <2>1. CASE i = 1
    <3>1. 1 \in 1..m /\ cs[1] \in 2..n BY <1>1, <1>2
    <3>2. ss[i].end = cs[1] /\ ss[i].start = 0 BY <1>1, <1>6, <2>1
    <3> QED BY <3>1, <3>2
  <2>2. CASE i # 1 /\ i <= m
    <3>1. i - 1 \in 1..m /\ i - 1 # m /\ (i - 1) + 1 = i /\ i \in 1..m BY <1>1, <2>2
    <3>2. cs[i - 1] + 2 <= cs[i] BY <1>2, <3>1
    <3>3. ss[i].end = cs[i] /\ ss[i].start = cs[i - 1] BY <1>1, <1>6, <2>2
    <3>4. cs[i] \in 2..n /\ cs[i - 1] \in 2..n BY <1>2, <3>1
    <3> QED BY <1>1, <3>2, <3>3, <3>4
  <2>3. CASE i # 1 /\ ~(i <= m)
    <3>1. i = m + 1 /\ i - 1 = m /\ m \in 1..m BY <1>1, <2>3
    <3>2. cs[m] + 2 <= n /\ cs[m] \in 2..n BY <1>2, <3>1
    <3>3. ss[i].end = n /\ ss[i].start = cs[m] BY <1>1, <1>6, <2>3, <3>1
    <3> QED BY <1>1, <3>2, <3>3
  <2> QED BY <2>1, <2>2, <2>3
<1>9. ASSUME NEW i \in 1..(m + 1), i > 1 PROVE ss[i].start = ss[i - 1].end
  <2>1. i - 1 \in 1..(m + 1) /\ i - 1 <= m /\ i # 1 BY <1>1, <1>9
  <2>2. ss[i].start = cs[i - 1] /\ ss[i - 1].end = cs[i - 1] BY <1>1, <1>6, <2>1
  <2> QED BY <2>2
<1>10. out'.segments = ss /\ Len(Values(call)) = n BY DEF ss, n
<1> QED BY <1>5, <1>7, <1>8, <1>9, <1>10 DEF SegmentsTile

\* forecast.py:64-110: what is fitted is the series, with no value left out.
LEMMA ForecastHolds ==
  ASSUME AnswerIInv, Running("ts.forecast"), Forecastable(call), call' = call, NEW o, out' = o,
         o.fitted = Values(call)
  PROVE  FitsEveryStep'
<1>1. call.val \in Seq(Int) /\ Missing(call) = {}
  BY QuantAssumption DEF Running, AnswerIInv, IsInput, Forecastable
<1>2. o.fitted = call.val BY <1>1, ValuesWhole
<1>3. \A v \in Range(call.val) : v # Null
  BY <1>1 DEF Range, Missing
<1> QED BY <1>2, <1>3 DEF FitsEveryStep

\* calibrate.py:113-157.
LEMMA BinsAreWhole ==
  ASSUME AnswerIInv, Running("calc.calibrate"), Calibratable(call), call' = call,
         out' = [kind |-> "bins", edges |-> EdgesOf(call),
                 members |-> [b \in 1..Len(EdgesOf(call)) - 1 |->
                                {i \in DOMAIN call.predictions : BinOf(EdgesOf(call), call.predictions[i].p) = b}]]
  PROVE  BinsHold'
<1> DEFINE edges == EdgesOf(call)
           Bin(i) == BinOf(edges, call.predictions[i].p)
           members == [b \in 1..Len(edges) - 1 |-> {i \in DOMAIN call.predictions : Bin(i) = b}]
<1>1. IsCover(edges)
  BY QuantAssumption, EdgesCover DEF Running, AnswerIInv, IsInput
<1>2. ASSUME NEW i \in DOMAIN call.predictions
      PROVE  \E b \in DOMAIN members :
               /\ \A other \in DOMAIN members : i \in members[other] <=> other = b
               /\ edges[b] <= call.predictions[i].p
               /\ IF b = Len(edges) - 1 THEN call.predictions[i].p <= edges[b + 1]
                  ELSE call.predictions[i].p < edges[b + 1]
  <2>1. call.predictions[i].p \in 0..Unit BY DEF Calibratable
  <2>2. /\ Bin(i) \in 1..(Len(edges) - 1) /\ edges[Bin(i)] <= call.predictions[i].p
        /\ IF Bin(i) = Len(edges) - 1 THEN call.predictions[i].p <= edges[Bin(i) + 1]
           ELSE call.predictions[i].p < edges[Bin(i) + 1]
    <3> HIDE DEF edges
    <3> QED BY <1>1, <2>1, BinHolds
  <2> HIDE DEF Bin, edges
  <2> QED BY <2>2
<1>3. out'.edges = edges /\ out'.members = members /\ Len(out'.members) = Len(edges) - 1
  <2>1. out'.edges = edges /\ out'.members = members OBVIOUS
  <2>2. DOMAIN members = 1..(Len(edges) - 1) /\ Len(edges) - 1 \in Nat BY <1>1 DEF IsCover
  <2> HIDE DEF members, edges
  <2>3. Len(members) = Len(edges) - 1
    <3>1. members \in Seq(SUBSET DOMAIN call.predictions)
      <4>1. members = [b \in 1..Len(edges) - 1 |-> {i \in DOMAIN call.predictions : Bin(i) = b}] BY DEF members
      <4> HIDE DEF Bin
      <4> QED BY <2>2, <4>1
    <3> QED BY <2>2, <3>1
  <2> QED BY <2>1, <2>3
<1> HIDE DEF edges, members
<1> QED BY <1>2, <1>3 DEF BinsHold

\* linkage.py:187-229: what is paired and was not counted differs on a field, what
\* was counted and is not paired has none.
LEMMA PairsHold ==
  ASSUME call' = call, NEW ps, ps \subseteq PairsOf(call), ps = PairsOf(call) \/ call.threshold # 0,
         out' = [kind |-> "pairs", pairs |-> ps]
  PROVE  PairsApart'
<1> DEFINE R == call.records
           F == Range(call.blocking)
<1>1. PairsOf(call) = {p \in (DOMAIN R) \X (DOMAIN R) : p[1] < p[2] /\ SharesAField(call, p[1], p[2])}
  BY DEF PairsOf
<1>2. PairsMeasured(call) = {p \in (DOMAIN R) \X (DOMAIN R) : p[1] < p[2] /\ p[2] \in Block(call, p[1])}
  BY DEF PairsMeasured
<1>3. \A p \in (DOMAIN R) \X (DOMAIN R) : p[1] \in DOMAIN R /\ p[2] \in DOMAIN R OBVIOUS
<1>4. ASSUME NEW i \in DOMAIN R, NEW j \in DOMAIN R
      PROVE  j \in Block(call, i) <=> \A f \in F : R[j][f] = R[i][f]
  <2>1. Keyed(call, i) = [f \in F |-> R[i][f]] /\ Keyed(call, j) = [f \in F |-> R[j][f]] BY DEF Keyed
  <2>2. j \in Block(call, i) <=> Keyed(call, j) = Keyed(call, i) BY DEF Block
  <2> HIDE DEF R, F
  <2>3. [f \in F |-> R[j][f]] = [f \in F |-> R[i][f]] <=> \A f \in F : R[j][f] = R[i][f]
    <3>1. ASSUME [f \in F |-> R[j][f]] = [f \in F |-> R[i][f]], NEW f \in F PROVE R[j][f] = R[i][f]
      <4>1. [g \in F |-> R[j][g]][f] = [g \in F |-> R[i][g]][f] BY <3>1
      <4> QED BY <4>1
    <3> QED BY <3>1
  <2> QED BY <2>1, <2>2, <2>3
<1>5. \A i, j \in DOMAIN R : SharesAField(call, i, j) <=> \E f \in F : R[i][f] # Null /\ R[i][f] = R[j][f]
  BY DEF SharesAField
<1> HIDE DEF R, F
<1>6. ASSUME NEW p \in ps \ PairsMeasured(call)
      PROVE  \E f, g \in F : /\ R[p[1]][f] = R[p[2]][f] /\ R[p[1]][f] # Null
                            /\ R[p[1]][g] # R[p[2]][g]
  <2>1. /\ p[1] \in DOMAIN R /\ p[2] \in DOMAIN R /\ p[2] \notin Block(call, p[1])
        /\ SharesAField(call, p[1], p[2])
    BY <1>1, <1>2, <1>3, <1>6
  <2> QED BY <1>4, <1>5, <2>1
<1>7. ASSUME call.threshold = 0, NEW p \in PairsMeasured(call) \ ps, NEW f \in F
      PROVE  R[p[1]][f] = Null /\ R[p[2]][f] = Null
  <2>1. /\ p[1] \in DOMAIN R /\ p[2] \in DOMAIN R /\ p[2] \in Block(call, p[1])
        /\ ~SharesAField(call, p[1], p[2])
    BY <1>1, <1>2, <1>3, <1>7
  <2> QED BY <1>4, <1>5, <2>1
<1>8. out'.pairs = ps OBVIOUS
<1>9. ASSUME NEW p \in out'.pairs \ PairsMeasured(call)
      PROVE  \E f, g \in Range(call.blocking) :
               /\ call.records[p[1]][f] = call.records[p[2]][f] /\ call.records[p[1]][f] # Null
               /\ call.records[p[1]][g] # call.records[p[2]][g]
  BY <1>6, <1>8, <1>9 DEF R, F
<1>10. ASSUME call.threshold = 0, NEW p \in PairsMeasured(call) \ out'.pairs, NEW f \in Range(call.blocking)
       PROVE  call.records[p[1]][f] = Null /\ call.records[p[2]][f] = Null
  BY <1>7, <1>8, <1>10 DEF R, F
<1> QED BY <1>9, <1>10 DEF PairsApart

\* manifest.yaml: of a family with tests of one design, one design is claimed.
LEMMA ClaimedIsIndependent ==
  ASSUME NEW m, NEW s \in Selectors("stat.test"), BucketId(Dimensions("stat.test"), m) # Malformed,
         Matches(ParseSelector(Dimensions("stat.test"), s), BucketId(Dimensions("stat.test"), m)),
         m["test_family"] \notin {"location", "association"}
  PROVE  m["design"] = "independent"
<1> DEFINE dims == Dimensions("stat.test")
           kinds == {<<"location", "independent">>, <<"location", "paired">>, <<"proportion", "independent">>,
                     <<"variance", "independent">>, <<"association", "paired">>,
                     <<"distributional", "independent">>}
<1>1. PICK k \in kinds :
        s = Spelled([test_family |-> k[1], design |-> k[2], dimensionality |-> "univariate"], dims)
  BY DEF Selectors, ClaimsOf
<1> DEFINE claim == [test_family |-> k[1], design |-> k[2], dimensionality |-> "univariate"]
<1>2. /\ DOMAIN claim = {"test_family", "design", "dimensionality"}
      /\ claim["test_family"] = k[1] /\ claim["design"] = k[2] /\ claim["dimensionality"] = "univariate"
  OBVIOUS
<1>3. /\ DOMAIN dims = 1..4
      /\ dims[1][1] = "test_family" /\ dims[2][1] = "sample_size" /\ dims[3][1] = "design"
      /\ dims[4][1] = "dimensionality"
      /\ {"location", "proportion", "variance", "association", "distributional"} \subseteq dims[1][2]
      /\ {"independent", "paired"} \subseteq dims[3][2] /\ "univariate" \in dims[4][2]
  BY DEF Dimensions, Samples
<1>4. /\ k[1] \in {"location", "proportion", "variance", "association", "distributional"}
      /\ k[2] \in {"independent", "paired"}
      /\ k[1] \notin {"location", "association"} => k[2] = "independent"
  OBVIOUS
<1> HIDE DEF dims, claim, kinds
<1>5. \A i, j \in DOMAIN dims : dims[i][1] = dims[j][1] => i = j
  BY <1>3
<1>6. \A i \in DOMAIN dims : dims[i][1] \in DOMAIN claim => claim[dims[i][1]] \in dims[i][2]
  BY <1>2, <1>3, <1>4
<1>7. dims # <<>>
  <2>1. 1 \in DOMAIN dims BY <1>3
  <2>2. DOMAIN <<>> = {} OBVIOUS
  <2> QED BY <2>1, <2>2
<1>8. s = Spelled(claim, dims) BY <1>1 DEF claim
<1>9. ParseSelector(dims, s) = Spelled(claim, dims)
  BY <1>5, <1>6, <1>7, <1>8, SpelledParses
<1>10. /\ 1 \in DOMAIN Spelled(claim, dims) /\ Spelled(claim, dims)[1] = <<"test_family", k[1]>>
       /\ 3 \in DOMAIN Spelled(claim, dims) /\ Spelled(claim, dims)[3] = <<"design", k[2]>>
  BY <1>2, <1>3 DEF Spelled
<1>11. k[1] # Star /\ k[2] # Star
  BY <1>4 DEF Star
<1>12. \A i \in {1, 3} : Assignment(BucketId(dims, m))[dims[i][1]] = m[dims[i][1]]
  BY <1>3, <1>5, <1>7, BucketAssigns DEF dims
<1>13. Assignment(BucketId(dims, m))["test_family"] = k[1] /\ Assignment(BucketId(dims, m))["design"] = k[2]
  BY <1>9, <1>10, <1>11 DEF Matches, dims
<1>14. m["test_family"] = k[1] /\ m["design"] = k[2]
  BY <1>3, <1>12, <1>13
<1> QED BY <1>4, <1>14

\* stat_test.py:72-86: the tests that pair their groups are of two families.
LEMMA UnpairedTests ==
  ASSUME NEW t \in DOMAIN Tests, Tests[t].family \notin {"location", "association"}
  PROVE  ~Tests[t].paired
<1>1. t \in Locations => Tests[t].family = "location" BY DEF Tests, Locations, Associations, Distributionals
<1>2. t \in Associations => Tests[t].family = "association" BY DEF Tests, Locations, Associations, Distributionals
<1>3. Tests[t].paired <=> t \in {"paired_t", "wilcoxon_signed_rank", "pearson_r", "spearman_rho"} BY DEF Tests
<1> QED BY <1>1, <1>2, <1>3 DEF Locations, Associations

\* stat_test.py:96-140: the test is of the family the input was admitted under, and
\* of its design where only one is.
LEMMA TestHolds ==
  ASSUME AnswerIInv, Running("stat.test"), Testable(call), bucket' = bucket, NEW o, out' = o, o.test = call.test
  PROVE  TestAsRecorded'
<1> DEFINE dims == Dimensions("stat.test")
           m == Measured(call)
<1>1. /\ bucket = BucketId(dims, m) /\ bucket # Malformed
      /\ \E s \in Selectors("stat.test") : Matches(ParseSelector(dims, s), bucket)
  BY DEF Running, AnswerIInv, AdmittedIsMeasured
<1>2. 1 \in DOMAIN dims /\ dims[1][1] = "test_family" /\ 3 \in DOMAIN dims /\ dims[3][1] = "design"
  BY DEF Dimensions
<1>3. m["test_family"] = call.family
  BY DEF Running, Measured
<1>4. call.test \in DOMAIN Tests /\ Tests[call.test].family = call.family
  BY DEF Testable
<1> HIDE DEF dims, m
<1>5. /\ <<"test_family", m["test_family"]>> \in Range(bucket)
      /\ <<"design", m["design"]>> \in Range(bucket)
  BY <1>1, <1>2, SegmentOf
<1>6. ASSUME call.family \notin {"location", "association"} PROVE m["design"] = "independent"
  BY <1>1, <1>3, <1>6, ClaimedIsIndependent DEF dims
<1>7. ASSUME call.family \notin {"location", "association"} PROVE ~Tests[call.test].paired
  BY <1>4, <1>7, UnpairedTests
<1> QED BY <1>3, <1>4, <1>5, <1>6, <1>7 DEF TestAsRecorded, Tests

\* reduce.py:64-190: as many rows as the measured kind of reduction has.
LEMMA RowsHold ==
  ASSUME AnswerIInv, Running("calc.reduce"), call' = call, bucket' = bucket,
         out' = [kind |-> "rows", shape |-> ReductionKind(call),
                 rows |-> IF call.windowed THEN Len(call.rows)
                          ELSE IF call.groupBy # <<>> THEN Cardinality(GroupsOf(call)) ELSE 1]
  PROVE  RowsOfKind'
<1> DEFINE dims == Dimensions("calc.reduce")
           n == Len(call.rows)
<1>1. /\ bucket = BucketId(dims, Measured(call)) /\ bucket # Malformed /\ call.interface = "calc.reduce"
      /\ call.rows # <<>> /\ IsList(call.rows)
  BY QuantAssumption DEF Running, AnswerIInv, AdmittedIsMeasured, Placeable, IsInput
<1>2. 3 \in DOMAIN dims /\ dims[3][1] = "reduction_kind"
  BY DEF Dimensions
<1> HIDE DEF dims
<1>3. <<"reduction_kind", ReductionKind(call)>> \in Range(bucket)
  <2>1. <<"reduction_kind", Measured(call)["reduction_kind"]>> \in Range(bucket)
    BY <1>1, <1>2, SegmentOf
  <2>2. Measured(call)["reduction_kind"] = ReductionKind(call)
    BY <1>1 DEF Measured
  <2> QED BY <2>1, <2>2
<1>4. n \in Nat \ {0} /\ DOMAIN call.rows = 1..n
  <2> DEFINE rs == call.rows
  <2>1. rs \in Seq(Range(rs)) /\ rs # <<>> BY <1>1 DEF IsList
  <2> HIDE DEF rs
  <2>2. Len(rs) \in Nat \ {0} /\ DOMAIN rs = 1..Len(rs) BY <2>1
  <2> QED BY <2>2 DEF rs
<1> HIDE DEF n
<1>5. Cardinality(GroupsOf(call)) \in 1..n
  <2> DEFINE f == [i \in 1..n |-> [g \in Range(call.groupBy) |-> call.rows[i][g]]]
             G == GroupsOf(call)
  <2>1. G = {f[i] : i \in 1..n} BY <1>4 DEF GroupsOf
  <2>2. f \in [1..n -> G]
    <3>1. f = [i \in 1..n |-> f[i]] OBVIOUS
    <3> HIDE DEF f, G
    <3>2. \A i \in 1..n : f[i] \in G BY <2>1
    <3> QED BY <3>1, <3>2
  <2> HIDE DEF f, G
  <2>3. f \in Surjection(1..n, G)
    BY <2>1, <2>2 DEF Surjection
  <2>4. IsFiniteSet(1..n) /\ Cardinality(1..n) = n
    <3>1. 1 \in Int /\ n \in Int BY <1>4
    <3>2. IsFiniteSet(1..n) /\ Cardinality(1..n) = IF 1 > n THEN 0 ELSE n - 1 + 1 BY <3>1, FS_Interval
    <3> QED BY <1>4, <3>2
  <2>5. IsFiniteSet(G) /\ Cardinality(G) <= Cardinality(1..n)
    BY <2>3, <2>4, FS_Surjection
  <2>6. G # {}
    <3>1. 1 \in 1..n BY <1>4
    <3>2. f[1] \in G BY <2>1, <3>1
    <3> QED BY <3>2
  <2>7. Cardinality(G) \in Nat /\ Cardinality(G) # 0 BY <2>5, <2>6, FS_CardinalityType, FS_EmptySet
  <2>8. Cardinality(G) \in 1..n BY <1>4, <2>4, <2>5, <2>7
  <2> QED BY <2>8 DEF G
<1>6. out'.shape = "windowed" => out'.rows = n
  <2>1. out'.shape = ReductionKind(call) /\ (call.windowed => out'.rows = n) BY DEF n
  <2> QED BY <2>1 DEF ReductionKind
<1>7. out'.shape = "grouped_aggregate" => out'.rows \in 1..n
  <2>1. out'.shape = ReductionKind(call) OBVIOUS
  <2>2. ~call.windowed /\ call.groupBy # <<>> => out'.rows = Cardinality(GroupsOf(call)) OBVIOUS
  <2>3. ReductionKind(call) = "grouped_aggregate" => ~call.windowed /\ call.groupBy # <<>> BY DEF ReductionKind
  <2> QED BY <1>5, <2>1, <2>2, <2>3
<1>8. out'.shape = ReductionKind(call) OBVIOUS
<1> QED BY <1>3, <1>6, <1>7, <1>8 DEF RowsOfKind, n

\* A ranking by scores that are numbers, equal for equal signals.
LEMMA RanksHold ==
  ASSUME AnswerIInv, call.interface = "score.rank", IsRanking(call), call \in Calls, call' = call,
         NEW scores, \A i \in DOMAIN call.items : scores[i] \in Int,
         \A i, j \in DOMAIN call.items : call.items[i].signals = call.items[j].signals => scores[i] = scores[j],
         NEW o, out' = o, o.ranking = Ranking(call, scores)
  PROVE  RanksWhole'
<1> DEFINE r == Ranking(call, scores)
           D == DOMAIN call.items
<1>1. IsInput(call) BY QuantAssumption
<1>2. IsList(call.items) /\ \A i \in D : call.items[i].id \in Int /\ scores[i] \in Int
  BY <1>1 DEF IsInput
<1>3. /\ DOMAIN r = D
      /\ {r[k].item : k \in D} = D
      /\ \A k \in D :
           /\ r[k].score = scores[r[k].item]
           /\ r[k].tied = {i \in D : scores[i] = r[k].score} \ {r[k].item}
      /\ \A k, l \in D :
           /\ k < l => r[k].score >= r[l].score
           /\ k # l => r[k].item # r[l].item
  <2>1. IsList(call.items) /\ IsRanking(call)
    BY <1>2
  <2>2. \A i \in DOMAIN call.items : call.items[i].id \in Int /\ scores[i] \in Int
    BY <1>2
  <2>3. DOMAIN r = D
    BY <2>1, <2>2, RankingIs
  <2>4. {r[k].item : k \in D} = D
    BY <2>1, <2>2, RankingIs
  <2>5. \A k \in D :
          /\ r[k].score = scores[r[k].item]
          /\ r[k].tied = {i \in D : scores[i] = r[k].score} \ {r[k].item}
    BY <2>1, <2>2, RankingIs
  <2>6. \A k, l \in D :
          /\ k < l => r[k].score >= r[l].score
          /\ k # l => r[k].item # r[l].item
    BY <2>1, <2>2, RankingIs
  <2> QED BY <2>3, <2>4, <2>5, <2>6
<1>4. out'.ranking = r OBVIOUS
<1> HIDE DEF r
<1>5. ASSUME NEW k \in D, NEW l \in D, k # l, call.items[r[k].item].signals = call.items[r[l].item].signals
      PROVE  r[l].item \in r[k].tied
  <2>1. r[k].item \in D /\ r[l].item \in D BY <1>3
  <2>2. scores[r[l].item] = scores[r[k].item] BY <1>5, <2>1
  <2> QED BY <1>3, <1>5, <2>1, <2>2
<1>6. {r[k].item : k \in DOMAIN r} = DOMAIN call.items BY <1>3
<1>7. ASSUME NEW k \in DOMAIN r, NEW l \in DOMAIN r
      PROVE  /\ k < l => r[k].score >= r[l].score
             /\ call.items[r[k].item].signals = call.items[r[l].item].signals /\ k # l
                  => r[l].item \in r[k].tied
  BY <1>3, <1>5
<1> HIDE DEF D
<1> QED BY <1>4, <1>6, <1>7 DEF RanksWhole

\* rank.py:174-218.
LEMMA WeightedHolds ==
  ASSUME AnswerIInv, WeightedRank, ~Declines
  PROVE  call' = call /\ bucket' = bucket /\ phase' = "ok" /\ out'.kind = "ranking" /\ RanksWhole'
<1> DEFINE scores == WeightedScores(call)
           o == [kind |-> "ranking", ranking |-> Ranking(call, scores), model |-> "none"]
<1>1. /\ phase = "admitted" /\ call.interface = "score.rank" /\ call \in Calls /\ IsRanking(call)
      /\ Carries(call, DOMAIN call.weights) /\ Returns(o)
  BY DEF WeightedRank, Running, Attempts, AnswerIInv
<1>2. IsInput(call) BY <1>1, QuantAssumption
<1>3. /\ Numbers(call.weights) /\ \A i \in DOMAIN call.items : Numbers(call.items[i].signals)
  BY <1>1, <1>2 DEF IsInput
<1>4. \A i \in DOMAIN call.items : scores[i] = Weighted(call.weights, call.items[i].signals)
  BY DEF WeightedScores
<1>5. ASSUME NEW i \in DOMAIN call.items PROVE Weighted(call.weights, call.items[i].signals) \in Int
  <2> DEFINE w == call.weights
             g == call.items[i].signals
  <2>1. IsFiniteSet(DOMAIN w) /\ (\A s \in DOMAIN w : w[s] \in Int) /\ (\A s \in DOMAIN g : g[s] \in Int)
    BY <1>3 DEF Numbers
  <2>2. DOMAIN w \subseteq DOMAIN g BY <1>1 DEF Carries
  <2> HIDE DEF w, g
  <2>3. Weighted(w, g) \in Int BY <2>1, <2>2, WeightedIsNumber
  <2> QED BY <2>3 DEF w, g
<1>6. call' = call /\ bucket' = bucket /\ phase' = "ok" /\ out' = o
  BY <1>1 DEF Returns
<1> HIDE DEF scores
<1>7. o.ranking = Ranking(call, scores) /\ o.kind = "ranking" OBVIOUS
<1>8. \A i \in DOMAIN call.items : scores[i] \in Int BY <1>4, <1>5
<1>9. \A i, j \in DOMAIN call.items : call.items[i].signals = call.items[j].signals => scores[i] = scores[j]
  BY <1>4
<1> HIDE DEF o
<1> QED BY <1>1, <1>6, <1>7, <1>8, <1>9, RanksHold

\* rank.py:292-340.
LEMMA ModelHolds ==
  ASSUME AnswerIInv, ScoreModel, ~Declines, phase' # "tampered"
  PROVE  call' = call /\ bucket' = bucket /\ phase' = "ok" /\ out'.kind = "ranking" /\ RanksWhole'
<1>1. phase = "read" /\ call.interface = "score.rank" /\ call \in Calls /\ IsRanking(call)
  BY DEF ScoreModel, AnswerIInv
<1>2. PICK scores \in ModelScores(call) :
        Returns([kind |-> "ranking", ranking |-> Ranking(call, scores), model |-> Loaded])
  BY DEF ScoreModel, Attempts
<1> DEFINE Row(i) == [s \in Range(call.features) |-> call.items[i].signals[s]]
           o == [kind |-> "ranking", ranking |-> Ranking(call, scores), model |-> Loaded]
<1>3. PICK f \in [FeatureRows(call) -> 0..1] : scores = [i \in DOMAIN call.items |-> f[Row(i)]]
  BY DEF ModelScores
<1>4. \A i \in DOMAIN call.items : Row(i) \in FeatureRows(call) BY DEF FeatureRows
<1>5. \A i, j \in DOMAIN call.items : call.items[i].signals = call.items[j].signals => Row(i) = Row(j)
  OBVIOUS
<1> HIDE DEF Row
<1>6. \A i \in DOMAIN call.items : scores[i] = f[Row(i)] /\ f[Row(i)] \in 0..1 BY <1>3, <1>4
<1>7. \A i \in DOMAIN call.items : scores[i] \in Int BY <1>6
<1>8. \A i, j \in DOMAIN call.items : call.items[i].signals = call.items[j].signals => scores[i] = scores[j]
  BY <1>5, <1>6
<1>9. o.ranking = Ranking(call, scores) /\ o.kind = "ranking" OBVIOUS
<1>10. call' = call /\ bucket' = bucket /\ phase' = "ok" /\ out' = o BY <1>2 DEF Returns
<1> HIDE DEF o
<1> QED BY <1>1, <1>7, <1>8, <1>9, <1>10, RanksHold

\* An answer of one kind has nothing to keep of the others.
LEMMA AnswerKeeps ==
  ASSUME AnswerIInv, phase \in {"admitted", "read"}, call' = call, bucket' = bucket, phase' = "ok",
         \/ out'.kind = "points" /\ PointsAreObservations'
         \/ out'.kind = "segments" /\ SegmentsTile'
         \/ out'.kind = "forecast" /\ FitsEveryStep'
         \/ out'.kind = "bins" /\ BinsHold'
         \/ out'.kind = "ranking" /\ RanksWhole'
         \/ out'.kind = "pairs" /\ PairsApart'
         \/ out'.kind = "rows" /\ RowsOfKind'
         \/ out'.kind = "test" /\ TestAsRecorded'
  PROVE  AnswerIInv'
<1>1. AdmittedIsMeasured' BY DEF AnswerIInv, AdmittedIsMeasured
<1>2. AnswersMatchInput'
  BY DEF AnswersMatchInput, PointsAreObservations, SegmentsTile, FitsEveryStep, BinsHold, RanksWhole,
         PairsApart, RowsOfKind, TestAsRecorded
<1> QED BY <1>1, <1>2 DEF AnswerIInv

\* Without an answer there is nothing to keep.
LEMMA NoAnswerKeeps ==
  ASSUME out = NoOut PROVE AnswersMatchInput
  BY DEF NoOut, AnswersMatchInput, PointsAreObservations, SegmentsTile, FitsEveryStep, BinsHold, RanksWhole,
         PairsApart, RowsOfKind, TestAsRecorded

\* An answer that is not given yet is not given by a step that leaves it alone.
LEMMA NoAnswerStays ==
  ASSUME out' = NoOut PROVE AnswersMatchInput'
  BY DEF NoOut, AnswersMatchInput, PointsAreObservations, SegmentsTile, FitsEveryStep, BinsHold, RanksWhole,
         PairsApart, RowsOfKind, TestAsRecorded

\* A call that is declined is not answered.
LEMMA DeclineKeepsAnswer ==
  ASSUME AnswerIInv, phase \in {"admitted", "read"}, Declines PROVE AnswerIInv'
<1>1. out' = NoOut /\ phase' = "declined" /\ call' = call /\ call \in Calls BY DEF Declines, AnswerIInv
<1>2. AnswersMatchInput' BY <1>1, NoAnswerStays
<1> QED BY <1>1, <1>2 DEF AnswerIInv, AdmittedIsMeasured

\* The adapters of a series answer what was measured.
LEMMA SeriesAdaptersKeepAnswer ==
  ASSUME AnswerIInv, StlMad \/ Changepoint \/ ForecastSeries
  PROVE  AnswerIInv'
<1>1. phase \in {"admitted", "read"} BY DEF StlMad, Changepoint, ForecastSeries, Running
<1>2. CASE Declines BY <1>1, <1>2, DeclineKeepsAnswer
<1>3. CASE ~Declines /\ StlMad
  <2>1. Running("ts.anomaly") /\ Returns([kind |-> "points", points |-> Points(call)])
    BY <1>3 DEF StlMad, Attempts
  <2>2. /\ call' = call /\ bucket' = bucket /\ phase' = "ok"
        /\ out' = [kind |-> "points", points |-> Points(call)] /\ out'.kind = "points"
    BY <2>1 DEF Returns
  <2> QED BY <1>1, <2>1, <2>2, PointsHold, AnswerKeeps
<1>4. CASE ~Declines /\ Changepoint
  <2>1. PICK cs \in Cuts(Len(Values(call)), call.changes) :
          /\ Running("ts.anomaly") /\ call.changes >= 1
          /\ Returns([kind |-> "segments", segments |-> SegmentsOf(cs, Len(Values(call)))])
    BY <1>4 DEF Changepoint, Attempts
  <2>2. /\ call' = call /\ bucket' = bucket /\ phase' = "ok"
        /\ out' = [kind |-> "segments", segments |-> SegmentsOf(cs, Len(Values(call)))] /\ out'.kind = "segments"
    BY <2>1 DEF Returns
  <2>3. SegmentsTile' BY <2>1, <2>2, SegmentsHold
  <2> QED BY <1>1, <2>2, <2>3, AnswerKeeps
<1>5. CASE ~Declines /\ ForecastSeries
  <2> DEFINE o == [kind |-> "forecast", fitted |-> Values(call), steps |-> call.horizon, levels |-> Range(call.levels)]
  <2>1. Running("ts.forecast") /\ Forecastable(call) /\ Returns(o)
    BY <1>5 DEF ForecastSeries, Attempts
  <2>2. o.kind = "forecast" /\ o.fitted = Values(call) OBVIOUS
  <2>3. call' = call /\ bucket' = bucket /\ phase' = "ok" /\ out' = o
    BY <2>1 DEF Returns
  <2> HIDE DEF o
  <2>4. FitsEveryStep' BY <2>1, <2>2, <2>3, ForecastHolds
  <2> QED BY <1>1, <2>2, <2>3, <2>4, AnswerKeeps
<1> QED BY <1>2, <1>3, <1>4, <1>5

\* So do the adapters of predictions, of records, of samples and of rows.
LEMMA TableAdaptersKeepAnswer ==
  ASSUME AnswerIInv, Calibration \/ Linkage \/ StatisticalTest \/ Reduction
  PROVE  AnswerIInv'
<1>1. phase \in {"admitted", "read"} BY DEF Calibration, Linkage, StatisticalTest, Reduction, Running
<1>2. CASE Declines BY <1>1, <1>2, DeclineKeepsAnswer
<1>3. CASE ~Declines /\ Calibration
  <2> DEFINE o == [kind |-> "bins", edges |-> EdgesOf(call),
                   members |-> [b \in 1..Len(EdgesOf(call)) - 1 |->
                     {i \in DOMAIN call.predictions : BinOf(EdgesOf(call), call.predictions[i].p) = b}]]
  <2>1. Running("calc.calibrate") /\ Calibratable(call) /\ Returns(o)
    BY <1>3 DEF Calibration, Attempts
  <2>2. call' = call /\ bucket' = bucket /\ phase' = "ok" /\ out' = o /\ out'.kind = "bins"
    BY <2>1 DEF Returns
  <2>3. BinsHold' BY <2>1, <2>2, BinsAreWhole
  <2> QED BY <1>1, <2>2, <2>3, AnswerKeeps
<1>4. CASE ~Declines /\ Linkage
  <2>1. PICK ps \in IF call.threshold = 0 THEN {PairsOf(call)} ELSE SUBSET PairsOf(call) :
          Running("match.record") /\ Returns([kind |-> "pairs", pairs |-> ps])
    BY <1>4 DEF Linkage, Attempts
  <2>2. /\ call' = call /\ bucket' = bucket /\ phase' = "ok"
        /\ out' = [kind |-> "pairs", pairs |-> ps] /\ out'.kind = "pairs"
    BY <2>1 DEF Returns
  <2>3. ps \subseteq PairsOf(call) /\ (ps = PairsOf(call) \/ call.threshold # 0) BY <2>1
  <2>4. PairsApart' BY <2>2, <2>3, PairsHold
  <2> QED BY <1>1, <2>2, <2>4, AnswerKeeps
<1>5. CASE ~Declines /\ StatisticalTest
  <2>1. PICK p \in {0, Unit} :
          /\ Running("stat.test") /\ Testable(call)
          /\ Returns([kind |-> "test", test |-> call.test, reject |-> p < call.alpha])
    BY <1>5 DEF StatisticalTest, Attempts
  <2> DEFINE o == [kind |-> "test", test |-> call.test, reject |-> p < call.alpha]
  <2>2. o.kind = "test" /\ o.test = call.test OBVIOUS
  <2>3. call' = call /\ bucket' = bucket /\ phase' = "ok" /\ out' = o
    BY <2>1 DEF Returns
  <2> HIDE DEF o
  <2>4. TestAsRecorded' BY <2>1, <2>2, <2>3, TestHolds
  <2> QED BY <1>1, <2>2, <2>3, <2>4, AnswerKeeps
<1>6. CASE ~Declines /\ Reduction
  <2> DEFINE o == [kind |-> "rows", shape |-> ReductionKind(call),
                   rows |-> IF call.windowed THEN Len(call.rows)
                            ELSE IF call.groupBy # <<>> THEN Cardinality(GroupsOf(call)) ELSE 1]
  <2>1. Running("calc.reduce") /\ Returns(o)
    BY <1>6 DEF Reduction, Attempts
  <2>2. call' = call /\ bucket' = bucket /\ phase' = "ok" /\ out' = o /\ out'.kind = "rows"
    BY <2>1 DEF Returns
  <2>3. RowsOfKind' BY <2>1, <2>2, RowsHold
  <2> QED BY <1>1, <2>2, <2>3, AnswerKeeps
<1> QED BY <1>2, <1>3, <1>4, <1>5, <1>6

\* So does the ranking, and what is read before it is of a ranking that is one.
LEMMA RankKeepsAnswer ==
  ASSUME AnswerIInv, WeightedRank \/ ReadModel \/ ScoreModel
  PROVE  AnswerIInv'
<1>1. phase \in {"admitted", "read"} BY DEF WeightedRank, ReadModel, ScoreModel, Running
<1>2. CASE Declines BY <1>1, <1>2, DeclineKeepsAnswer
<1>3. CASE ~Declines /\ WeightedRank BY <1>1, <1>3, WeightedHolds, AnswerKeeps
<1>4. CASE ~Declines /\ ReadModel
  <2>1. /\ phase = "admitted" /\ call.interface = "score.rank" /\ IsRanking(call)
        /\ phase' = "read" /\ UNCHANGED <<call, bucket, out>>
    BY <1>4 DEF ReadModel, Running
  <2>2. AdmittedIsMeasured' /\ IsRanking(call') BY <2>1 DEF AnswerIInv, AdmittedIsMeasured
  <2>3. AnswersMatchInput' BY <2>1, NoAnswerStays DEF AnswerIInv
  <2> QED BY <2>1, <2>2, <2>3 DEF AnswerIInv
<1>5. CASE ~Declines /\ ScoreModel /\ phase' # "tampered" BY <1>1, <1>5, ModelHolds, AnswerKeeps
<1>6. CASE ~Declines /\ ScoreModel /\ phase' = "tampered"
  <2>1. UNCHANGED <<call, bucket, out>> /\ phase = "read"
    BY <1>6 DEF ScoreModel, Attempts, Returns
  <2>2. AnswersMatchInput' BY <2>1, NoAnswerStays DEF AnswerIInv
  <2> QED BY <1>6, <2>1, <2>2 DEF AnswerIInv, AdmittedIsMeasured
<1> QED BY <1>2, <1>3, <1>4, <1>5, <1>6

\* Every step of the plane keeps the invariant.
LEMMA StepKeepsAnswerIInv ==
  ASSUME AnswerIInv, QuantNext
  PROVE  AnswerIInv'
<1>1. ASSUME NEW c \in Calls, AskQuant(c) PROVE AnswerIInv'
  <2>1. phase = "idle" /\ phase' = "asked" /\ call' \in Calls /\ out' = out BY <1>1 DEF AskQuant
  <2>2. AnswersMatchInput' BY <2>1, NoAnswerStays DEF AnswerIInv
  <2> QED BY <2>1, <2>2 DEF AnswerIInv, AdmittedIsMeasured
<1>2. CASE Admit
  <2>1. phase = "asked" /\ call' = call /\ out' = out /\ phase' \in {"admitted", "refused"}
    BY <1>2 DEF Admit
  <2>2. AnswersMatchInput' BY <2>1, NoAnswerStays DEF AnswerIInv
  <2>3. AdmittedIsMeasured'
    <3>1. CASE phase' = "refused" BY <3>1 DEF AdmittedIsMeasured
    <3>2. CASE phase' = "admitted" BY <1>2, <3>2 DEF Admit, AdmittedIsMeasured
    <3> QED BY <2>1, <3>1, <3>2
  <2> QED BY <2>1, <2>2, <2>3 DEF AnswerIInv
<1>3. CASE UnknownMethod BY <1>3, DeclineKeepsAnswer DEF UnknownMethod
<1>4. ASSUME NEW x \in Contents, TouchModel(x) PROVE AnswerIInv'
  <2>1. UNCHANGED <<phase, call, bucket, out>> /\ phase # "ok" BY <1>4 DEF TouchModel
  <2>2. AnswersMatchInput' BY <2>1, NoAnswerStays DEF AnswerIInv
  <2> QED BY <2>1, <2>2 DEF AnswerIInv, AdmittedIsMeasured
<1> QED
  BY <1>1, <1>2, <1>3, <1>4, SeriesAdaptersKeepAnswer, TableAdaptersKeepAnswer, RankKeepsAnswer
  DEF QuantNext, QuantStep

\* The invariant holds in every reachable state.
THEOREM AnswerInvariance == IntakeSpec => []AnswerIInv
<1>1. IntakeInit => AnswerIInv
  BY NoAnswerKeeps DEF IntakeInit, QuantInit, AnswerIInv, AdmittedIsMeasured
<1>2. AnswerIInv /\ [IntakeNext]_intake => AnswerIInv'
  <2> SUFFICES ASSUME AnswerIInv, [IntakeNext]_intake PROVE AnswerIInv' OBVIOUS
  <2>1. CASE Answering
    BY <2>1, StepKeepsAnswerIInv DEF Answering, QuantNext
  <2>2. CASE UNCHANGED quant
    BY <2>2 DEF quant, AnswerIInv, AdmittedIsMeasured, AnswersMatchInput, PointsAreObservations, SegmentsTile,
       FitsEveryStep, BinsHold, RanksWhole, PairsApart, RowsOfKind, TestAsRecorded
  <2> QED BY <2>1, <2>2 DEF IntakeNext, Inspecting, Building, Vouching, intake
<1> QED BY <1>1, <1>2, PTL DEF IntakeSpec

\* The bucket a run is recorded under is the bucket of what was answered, but for
\* how records are paired and for the design of a test.
THEOREM AnswersMatchInputHolds == IntakeSpec => []AnswersMatchInput
<1>1. AnswerIInv => AnswersMatchInput BY DEF AnswerIInv
<1> QED BY <1>1, AnswerInvariance, PTL
=============================================================================
