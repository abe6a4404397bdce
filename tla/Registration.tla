---------------------------- MODULE Registration ----------------------------
(***************************************************************************)
(* registration.py: reading a package's own description of itself, before  *)
(* any of its code runs.                                                   *)
(*                                                                         *)
(* registration.json names files and their digests; load_registration      *)
(* reads each and cross-checks them, and registration_from_distribution    *)
(* compares the result with the wheel's metadata.  The directory is a live *)
(* one: a file may change between two reads.  The manifest and the         *)
(* vocabularies are hashed in one read and parsed in another; definitions, *)
(* predecessors and fixtures are parsed from the bytes that were hashed.   *)
(* A digest is the content it is the digest of.                            *)
(***************************************************************************)
EXTENDS BucketSelectors, FiniteSets

CONSTANTS
  Interfaces,   \* interface ids
  Endpoints,    \* declarations that are an endpoint or a known dynamic form
  Distributions,  \* wheels: files, links among them, and metadata
  Edits,        \* <<path, content>>: what a file may be changed to
  MaxEdits      \* bound: files changed while they are read

NoInterface == "none"
Manifest == <<"manifest", NoInterface>>
Definition(i) == <<"definition", i>>
Old(i) == <<"predecessor", i>>
Vocabulary(i) == <<"vocabulary", i>>
Classifier(i) == <<"classifier", i>>
Fixtures(i) == <<"fixtures", i>>
PathsOf(i) == {Definition(i), Old(i), Vocabulary(i), Classifier(i), Fixtures(i)}
Paths == {Manifest} \cup UNION {PathsOf(i) : i \in Interfaces}

ASSUME RegistrationAssumption ==
  /\ MaxEdits \in Nat /\ \A e \in Edits : e[1] \in Paths
  /\ \A d \in Distributions :
       /\ DOMAIN d.files = Paths /\ DOMAIN d.refs = Paths /\ d.links \subseteq Paths
       /\ ToSet(d.exports) \subseteq Interfaces

VARIABLES
  at,        \* where the reader is: a label and the interface it reads
  left,      \* interfaces not read yet
  dist,      \* the distribution
  files,     \* its files as they are by now
  bundle,    \* what has been read, by path
  edits      \* files changed so far

registration == <<at, left, dist, files, bundle, edits>>

NoDist == [files |-> <<>>]
At(label, i) == [label |-> label, i |-> i]

RegistrationInit ==
  /\ at = At("idle", NoInterface) /\ left = {} /\ dist = NoDist
  /\ files = <<>> /\ bundle = [p \in {} |-> 0] /\ edits = 0

\* The interfaces registration.json exports.
Exports == ToSet(dist.exports)

Reject == at' = At("rejected", NoInterface) /\ UNCHANGED <<left, dist, files, bundle, edits>>
Goto(label, i) == at' = At(label, i)
Step(label, i) == Goto(label, i) /\ UNCHANGED <<left, dist, files, bundle, edits>>

-----------------------------------------------------------------------------
EditFile(e) ==
  /\ at.label \notin {"idle", "rejected", "registered"} /\ edits < MaxEdits
  /\ files[e[1]] # e[2]
  /\ files' = [files EXCEPT ![e[1]] = e[2]] /\ edits' = edits + 1
  /\ UNCHANGED <<at, left, dist, bundle>>

\* wheel_pin and the unpacking of wheel_registration, then the descriptor itself:
\* refused if a member's path is unsafe or repeated or the whole too large.
Open(d) ==
  /\ at.label = "idle"
  /\ dist' = d /\ files' = d.files /\ left' = Interfaces
  /\ at' = IF d.file = <<d.metadata.name, d.metadata.version>> /\ d.unpacks
              /\ d.registrations = 1
           THEN At("hash_manifest", NoInterface) ELSE At("rejected", NoInterface)
  /\ UNCHANGED <<bundle, edits>>

\* ResourceRef.read: no link, and the digest of the bytes just read.
Reads(path) == path \notin dist.links /\ files[path] = dist.refs[path]
Keep(path) == bundle' = [p \in DOMAIN bundle \cup {path} |-> IF p = path THEN files[p] ELSE bundle[p]]

HashManifest ==
  /\ at.label = "hash_manifest"
  /\ IF Reads(Manifest) THEN Step("parse_manifest", NoInterface) ELSE Reject

\* load_manifest and the validators of ProviderManifest and ImplementationManifest.
WellFormed(m) ==
  /\ m.majors # {} /\ m.implementations # {}
  /\ \A x, y \in m.implementations :
       x.interface = y.interface /\ x.entrypoint = y.entrypoint => x = y
  /\ \A x \in m.implementations :
       /\ x.declared # {} /\ x.backends # <<>> /\ IsInjective(x.backends) /\ IsInjective(x.extras)
       /\ x.endpoints \subseteq Endpoints

ParseManifest ==
  /\ at.label = "parse_manifest"
  /\ LET m == files[Manifest]
     IN  IF /\ WellFormed(m)
            /\ Cardinality(Exports) = Len(dist.exports)
            /\ Exports = {x.interface : x \in m.implementations}
         THEN Keep(Manifest) /\ Goto("next", NoInterface) /\ UNCHANGED <<left, dist, files, edits>>
         ELSE Reject

\* The interfaces, in the descriptor's order: any.
NextInterface(i) ==
  /\ at.label = "next" /\ i \in left \cap Exports
  /\ left' = left \ {i} /\ Goto("definition", i)
  /\ UNCHANGED <<dist, files, bundle, edits>>

\* ProviderManifest.implementation refuses none and refuses several.
Matching(i) == {x \in bundle[Manifest].implementations : x.interface = i}
Implementation(i) == CHOOSE x \in Matching(i) : TRUE

ReadDefinition ==
  /\ at.label = "definition"
  /\ LET i == at.i
         d == files[Definition(i)]
     IN  IF /\ Reads(Definition(i))
            /\ d.interface = i
            /\ Cardinality(Matching(i)) = 1
            /\ dist.digests[i] = d /\ Implementation(i).digest = dist.digests[i]
            /\ d.effect \in {"pure", "external_read", "external_mutation"}
            /\ Implementation(i).sideEffects = (d.effect = "external_mutation")
            /\ d.contracts /\ d.version > 0
         THEN Keep(Definition(i)) /\ Goto("predecessor", i) /\ UNCHANGED <<left, dist, files, edits>>
         ELSE Reject

\* Earlier definitions of the same interface.
ReadPredecessor ==
  /\ at.label = "predecessor"
  /\ LET old == files[Old(at.i)]
     IN  IF ~dist.history \/ /\ Reads(Old(at.i)) /\ old.interface = at.i
                             /\ 0 < old.version /\ old.version < bundle[Definition(at.i)].version
         THEN Step("hash_vocabulary", at.i) ELSE Reject

HashVocabulary ==
  /\ at.label = "hash_vocabulary"
  /\ IF Reads(Vocabulary(at.i)) THEN Step("parse_vocabulary", at.i) ELSE Reject

\* load_bucket_vocabulary and its validators.
ParseVocabulary ==
  /\ at.label = "parse_vocabulary"
  /\ LET v == files[Vocabulary(at.i)]
     IN  IF v.interface = at.i /\ WellFormedVocabulary(v.dims)
         THEN Keep(Vocabulary(at.i)) /\ Goto("classifier", at.i) /\ UNCHANGED <<left, dist, files, edits>>
         ELSE Reject

ReadClassifier ==
  /\ at.label = "classifier"
  /\ IF Reads(Classifier(at.i)) THEN Step("fixtures", at.i) ELSE Reject

\* Each row has an id of its own and a bucket spelled canonically; each declared
\* selector names a row, and covers it.
Rows(i) == bundle[Fixtures(i)]
RowsAgree(rows, dims) ==
  /\ \A x, y \in rows : x.id = y.id => x = y
  /\ \A x \in rows : x.bucket = Canonical(dims, x.bucket) /\ x.bucket # Malformed
ClaimsCovered_Named(claims, rows, dims) ==
  \A c \in claims : \E x \in rows : x.id = c[2] /\ ParseSelector(dims, c[1]) # Malformed
ClaimsCovered(claims, rows, dims) ==
  \A c \in claims :
    /\ ParseSelector(dims, c[1]) # Malformed
    /\ \E x \in rows : x.id = c[2] /\ Matches(ParseSelector(dims, c[1]), x.bucket)

FixturesRead(i) == Reads(Fixtures(i))

ReadFixtures ==
  /\ at.label = "fixtures"
  /\ LET i == at.i
         rows == files[Fixtures(i)]
         dims == bundle[Vocabulary(i)].dims
     IN  IF /\ FixturesRead(i)
            /\ RowsAgree(rows, dims)
            /\ {c[1] : c \in Implementation(i).claims} = Implementation(i).declared
            /\ ClaimsCovered(Implementation(i).claims, rows, dims)
         THEN Keep(Fixtures(i)) /\ Goto("next", NoInterface) /\ UNCHANGED <<left, dist, files, edits>>
         ELSE Reject

\* Runtime requirements, then the wheel's metadata.
CheckDistribution ==
  /\ at.label = "next" /\ left \cap Exports = {}
  /\ LET m == bundle[Manifest]
         extras == UNION {ToSet(x.extras) : x \in m.implementations}
     IN  IF /\ \A r \in dist.requirements :
                 Cardinality(Matching(r[1])) = 1 /\ r[2] \in ToSet(Implementation(r[1]).extras)
            /\ dist.metadata.name = m.name /\ dist.metadata.version = m.version
            /\ dist.metadata.entries = {<<x.interface, x.entrypoint>> : x \in m.implementations}
            /\ extras \subseteq dist.metadata.extras
         THEN Step("registered", NoInterface) ELSE Reject

RegistrationStep ==
  \/ HashManifest \/ ParseManifest \/ ReadDefinition \/ ReadPredecessor \/ HashVocabulary
  \/ ParseVocabulary \/ ReadClassifier \/ ReadFixtures \/ CheckDistribution
  \/ \E i \in Interfaces : NextInterface(i)

-----------------------------------------------------------------------------
(* Properties.                                                              *)

\* What a bundle holds belongs together: one implementation per exported
\* interface, at the digest of that definition, and for every selector it claims a
\* fixture whose bucket is one of those the selector stands for in that vocabulary.
PartsAreLinked ==
  \A i \in Exports :
    /\ Cardinality(Matching(i)) = 1 /\ Implementation(i).digest = bundle[Definition(i)]
    /\ \A s \in Implementation(i).declared : \E c \in Implementation(i).claims, x \in Rows(i) :
         c[1] = s /\ x.id = c[2] /\ x.bucket \in Claimed(bundle[Vocabulary(i)].dims, s)

\* The parts are the ones the descriptor's digests name; only the two that are read
\* a second time to be parsed can differ, and only if they changed in between.
PartsAreCommitted ==
  \A p \in DOMAIN bundle : bundle[p] # dist.refs[p] => edits > 0 /\ p[1] \in {"manifest", "vocabulary"}

\* registration.py:150 "Verified, self-contained data" and :194 "Verify all
\* references and cross-links", for a bundle whose parts were read at different
\* moments of a directory that changes.
BundleIsSound == at.label = "registered" => PartsAreLinked /\ PartsAreCommitted
=============================================================================
