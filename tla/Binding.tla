------------------------------ MODULE Binding ------------------------------
(***************************************************************************)
(* One binding and the invocations that share it (binding.py, the registry *)
(* it is checked against, and the gate at the head of execute.invoke).     *)
(*                                                                         *)
(* A binding holds digests of three things that live somewhere mutable:    *)
(* the accepted artifact (the registry), the package manifest (a file) and *)
(* the materialized tree (a directory).  The operator, the package's       *)
(* author and other binds change them between any two steps of bind and of *)
(* an invocation.  The tree is never read at one moment: a fingerprint is  *)
(* a walk over its entries and a digest reads one file after the other.    *)
(* Invocations run concurrently on the one Binding object and share its    *)
(* tree_watch.  Bindings share nothing with one another, so one of them is *)
(* the whole interaction.                                                  *)
(***************************************************************************)
EXTENDS Naturals, FiniteSets

CONSTANTS
  Runs,         \* concurrent invocations of the binding
  Artifacts,    \* accepted-artifact payloads, by artifact digest
  Manifests,    \* package manifests, by manifest digest
  Interfaces,   \* interface digests the one interface id may carry
  Files,        \* paths of the environment
  Contents,     \* what a path may hold: bytes and executable bit, a link, nothing
  Gone,         \* the content of a path where there is nothing
  Backends,     \* the backends a bind may ask for
  ManifestOf,   \* the manifest an artifact transcribes
  InterfaceOf,  \* the interface digest a manifest implements
  None,         \* nothing there: no registration, no binding, no reading
  Vanished,     \* the sentinel fingerprint of a tree that changed under the walk
  MaxChanges,   \* bound: changes made from outside
  MaxQuiet      \* bound: tree edits that leave the fingerprint alone

ASSUME NoneAssumption == None \notin Artifacts \cup Manifests \cup Interfaces \cup Contents
ASSUME VanishedAssumption == Vanished \notin Nat \cup {None} /\ None \notin Nat
ASSUME MapAssumption == /\ ManifestOf \in [Artifacts -> Manifests]
                        /\ InterfaceOf \in [Manifests -> Interfaces]
ASSUME BoundAssumption == MaxChanges \in Nat /\ MaxQuiet \in Nat
ASSUME BackendAssumption == Backends \subseteq {"local_env", "container"}

\* An environment, and as much of one as a digest has read; a tree digest names
\* the contents it was computed over, whenever each of them was read.
Trees == [Files -> Contents]
Walked == [Files -> Contents \cup {None}]
Unwalked == [f \in Files |-> None]

\* What a Binding holds of what bind checked.
Bindings == [artifact : Artifacts \cup {None}, manifest : Manifests \cup {None},
             interface : Interfaces \cup {None}, backend : Backends \cup {None},
             sealed : Walked]
ASSUME BindingAssumption == None \notin Bindings

VARIABLES
  provider,   \* the registry's payload for the provider: artifact and status
  interface,  \* the digest the interface id is registered at
  manifest,   \* the manifest file
  tree,       \* the environment: its content and its newest mtime
  binder,     \* where bind is
  draft,      \* what bind has established so far
  bound,      \* the Binding
  watch,      \* Binding.tree_watch: the fingerprint last verified
  pc,         \* where each invocation is
  reading,    \* the fingerprint each invocation took
  todo,       \* files each invocation has yet to hash
  agrees,     \* have the files it has hashed the sealed contents?
  accepted,   \* history: artifacts accepted at some time since an invocation began
  manifests,  \* history: manifests on disk at some time since then
  had,        \* history: what each file held at some time since then
  changes, quiet  \* changes made from outside so far

vars == <<provider, interface, manifest, tree, binder, draft, bound, watch, pc,
          reading, todo, agrees, accepted, manifests, had, changes, quiet>>
walk == <<todo, agrees>>
outside == <<provider, interface, manifest, tree, changes, quiet>>
history == <<accepted, manifests, had>>

Labels == {"idle", "artifact", "manifest", "fingerprint", "stat", "hash", "record",
           "admit", "running"}
BinderLabels == {"accepted", "manifest", "interface", "materialize", "digest", "done"}
NoDraft == [artifact |-> None, manifest |-> None, interface |-> None,
            backend |-> None, sealed |-> Unwalked]

\* StubRegistry.accepted_provider: the artifact, if it is registered and its
\* status is accepted.  artifact_digest leaves the status out.
Accepted == IF provider = None THEN {}
            ELSE {a \in {provider.artifact} : provider.status = "accepted"}

\* _tree_fingerprint: the newest mtime stands for the pair (count, mtime).
Fingerprint(t) == t.mtime

Init ==
  /\ provider = None /\ interface = None
  /\ manifest \in Manifests
  /\ tree \in [content : Trees, mtime : {0}]
  /\ binder = "accepted" /\ draft = NoDraft /\ bound = None /\ watch = None
  /\ pc = [r \in Runs |-> "idle"]
  /\ reading = [r \in Runs |-> None]
  /\ todo = [r \in Runs |-> {}]
  /\ agrees = [r \in Runs |-> FALSE]
  /\ accepted = [r \in Runs |-> {}]
  /\ manifests = [r \in Runs |-> {}]
  /\ had = [r \in Runs |-> [f \in Files |-> {}]]
  /\ changes = 0 /\ quiet = 0

-----------------------------------------------------------------------------
(* The registry, the package and the cache, as others change them.          *)

Change == changes < MaxChanges /\ changes' = changes + 1

\* The histories grow with what the invocations under way could have seen.
Underway == {r \in Runs : pc[r] # "idle"}
Remember ==
  /\ accepted' = [r \in Runs |-> IF r \in Underway THEN accepted[r] \cup Accepted' ELSE {}]
  /\ manifests' = [r \in Runs |-> IF r \in Underway THEN manifests[r] \cup {manifest'} ELSE {}]
  /\ had' = [r \in Runs |-> [f \in Files |->
                IF r \in Underway THEN had[r][f] \cup {tree'.content[f]} ELSE {}]]

\* register_interface refuses a second registration at another digest.
MayRegister(i) == interface \in {None, i}

RegisterInterface(i) ==
  /\ Change /\ MayRegister(i)
  /\ interface' = i
  /\ UNCHANGED <<provider, manifest, tree, quiet, binder, draft, bound, watch, pc, reading, walk>>
  /\ Remember

\* register_provider: acceptance, replacement and withdrawal are all a payload
\* registered with its status, once its interfaces are known at its digests.
RegisterProvider(a, status) ==
  /\ Change
  /\ interface = InterfaceOf[ManifestOf[a]]
  /\ provider' = [artifact |-> a, status |-> status]
  /\ UNCHANGED <<interface, manifest, tree, quiet, binder, draft, bound, watch, pc, reading, walk>>
  /\ Remember

EditManifest(m) ==
  /\ Change
  /\ manifest' = m
  /\ UNCHANGED <<provider, interface, tree, quiet, binder, draft, bound, watch, pc, reading, walk>>
  /\ Remember

\* A write into the environment, or its replacement by another build: what is
\* written is newer than all there was, so that no file's mtime ever goes back.
EditTree(t) ==
  /\ Change
  /\ tree' = [content |-> t, mtime |-> tree.mtime + 1]
  /\ UNCHANGED <<provider, interface, manifest, quiet, binder, draft, bound, watch, pc, reading, walk>>
  /\ Remember

\* What changes the tree's digest and not its fingerprint: an executable bit, a
\* rename in the top directory, a write whose mtime is put back, an older file
\* moved into place.
EditTreeQuietly(t) ==
  /\ quiet < MaxQuiet /\ quiet' = quiet + 1
  /\ tree' = [tree EXCEPT !.content = t]
  /\ UNCHANGED <<provider, interface, manifest, changes, binder, draft, bound, watch, pc, reading, walk>>
  /\ Remember

-----------------------------------------------------------------------------
(* bind: each step reads one live source; a refusal ends it and the caller  *)
(* may start again.                                                         *)

BinderGoto(l) == binder' = l
BindRefused == BinderGoto("accepted") /\ draft' = NoDraft /\ UNCHANGED <<bound, watch>>

BindAccepted ==
  /\ binder = "accepted"
  /\ \E a \in Accepted : draft' = [NoDraft EXCEPT !.artifact = a]
  /\ BinderGoto("manifest")
  /\ UNCHANGED <<outside, bound, watch, pc, reading, walk, history>>

ManifestAgrees_Unchecked(m) == m \in Manifests
ManifestAgrees(m) == m = ManifestOf[draft.artifact]

BindManifest ==
  /\ binder = "manifest"
  /\ \/ /\ ManifestAgrees(manifest)
        /\ draft' = [draft EXCEPT !.manifest = manifest]
        /\ BinderGoto("interface")
        /\ UNCHANGED <<bound, watch>>
     \/ ~ManifestAgrees(manifest) /\ BindRefused
  /\ UNCHANGED <<outside, pc, reading, walk, history>>

\* The interface at the manifest's digest, then the backend's own checks.
BindInterface ==
  /\ binder = "interface"
  /\ \/ /\ interface = InterfaceOf[draft.manifest]
        /\ \E b \in Backends :
             draft' = [draft EXCEPT !.interface = interface, !.backend = b]
        /\ BinderGoto("materialize")
        /\ UNCHANGED <<bound, watch>>
     \/ BindRefused
  /\ UNCHANGED <<outside, pc, reading, walk, history>>

\* LocalEnvBackend.materialize returns a tree the cache has just verified, or
\* refuses; the container backend verifies the image and has no tree.  What was
\* verified here is not compared with what is sealed next.
BindMaterialize ==
  /\ binder = "materialize"
  /\ \/ BinderGoto("digest") /\ UNCHANGED <<draft, bound, watch>>
     \/ BindRefused
  /\ UNCHANGED <<outside, pc, reading, walk, history>>

\* tree_digest: one file after the other, each as it is by then.  A path that was
\* listed and is gone when it is opened raises, and bind ends.
BindDigestFile ==
  /\ binder = "digest" /\ draft.backend = "local_env"
  /\ \E f \in {g \in Files : draft.sealed[g] = None} :
       \/ /\ draft' = [draft EXCEPT !.sealed = [@ EXCEPT ![f] = tree.content[f]]]
          /\ UNCHANGED <<binder, bound, watch>>
       \/ tree.content[f] = Gone /\ BindRefused
  /\ UNCHANGED <<outside, pc, reading, walk, history>>

\* The Binding is built with that digest; a container has no tree.
BindDigest ==
  /\ binder = "digest"
  /\ draft.backend = "local_env" => \A f \in Files : draft.sealed[f] # None
  /\ bound' = draft
  /\ watch' = None
  /\ BinderGoto("done") /\ UNCHANGED draft
  /\ UNCHANGED <<outside, pc, reading, walk, history>>

-----------------------------------------------------------------------------
(* invoke: Binding.revalidate, registry.admit, then the run itself.         *)

Goto(r, l) == pc' = [pc EXCEPT ![r] = l]

\* What revalidate held is gone when it returns, and when it raises.
Forget(r) == /\ reading' = [reading EXCEPT ![r] = None]
             /\ todo' = [todo EXCEPT ![r] = {}]
             /\ agrees' = [agrees EXCEPT ![r] = FALSE]
Passed(r) == Goto(r, "admit") /\ Forget(r)
Over(r) == /\ Goto(r, "idle")
           /\ accepted' = [accepted EXCEPT ![r] = {}]
           /\ manifests' = [manifests EXCEPT ![r] = {}]
           /\ had' = [had EXCEPT ![r] = [f \in Files |-> {}]]
Refused(r) == Over(r) /\ Forget(r)

Invoke(r) ==
  /\ bound # None /\ pc[r] = "idle"
  /\ Goto(r, "artifact")
  /\ accepted' = [accepted EXCEPT ![r] = Accepted]
  /\ manifests' = [manifests EXCEPT ![r] = {manifest}]
  /\ had' = [had EXCEPT ![r] = [f \in Files |-> {tree.content[f]}]]
  /\ UNCHANGED <<outside, binder, draft, bound, watch, reading, walk>>

CheckArtifact(r) ==
  /\ pc[r] = "artifact"
  /\ \/ bound.artifact \in Accepted /\ Goto(r, "manifest") /\ UNCHANGED <<reading, walk, history>>
     \/ bound.artifact \notin Accepted /\ Refused(r)
  /\ UNCHANGED <<outside, binder, draft, bound, watch>>

\* A container has no tree to check.
ManifestChecked(r) == \/ bound.backend = "local_env" /\ Goto(r, "fingerprint") /\ UNCHANGED <<reading, walk>>
                      \/ bound.backend # "local_env" /\ Passed(r)

CheckManifest_Late(r) ==
  /\ pc[r] = "manifest"
  /\ ManifestChecked(r)
  /\ UNCHANGED <<outside, binder, draft, bound, watch, history>>

CheckManifest(r) ==
  /\ pc[r] = "manifest"
  /\ \/ manifest = bound.manifest /\ ManifestChecked(r) /\ UNCHANGED history
     \/ manifest # bound.manifest /\ Refused(r)
  /\ UNCHANGED <<outside, binder, draft, bound, watch>>

\* The staleness gate.  The fingerprint is a walk of its own: it begins when the
\* newest mtime is reading[r] and ends with one between that and the newest by
\* then, for an entry is only ever replaced by a newer one and a removed one changes
\* the count; or with the sentinel, when an entry vanished under it.
TakeFingerprint(r) ==
  /\ pc[r] = "fingerprint"
  /\ reading' = [reading EXCEPT ![r] = Fingerprint(tree)]
  /\ Goto(r, "stat")
  /\ UNCHANGED <<outside, binder, draft, bound, watch, walk, history>>

Since(n) == {f \in 0 .. Fingerprint(tree) : n <= f}

\* A fingerprint that is the recorded one skips the hash.
CompareFingerprint(r) ==
  /\ pc[r] = "stat"
  /\ \E f \in Since(reading[r]) \cup {Vanished} :
       \/ watch = f /\ Passed(r)
       \/ /\ watch # f /\ Goto(r, "hash")
          /\ reading' = [reading EXCEPT ![r] = f]
          /\ todo' = [todo EXCEPT ![r] = Files]
          /\ agrees' = [agrees EXCEPT ![r] = TRUE]
  /\ UNCHANGED <<outside, binder, draft, bound, watch, history>>

\* tree_digest once more: one file after the other, in any order, while others
\* write.  A path listed and gone when it is opened raises, and the run ends.
HashFile(r) ==
  /\ pc[r] = "hash"
  /\ \E f \in todo[r] :
       \/ /\ todo' = [todo EXCEPT ![r] = @ \ {f}]
          /\ agrees' = [agrees EXCEPT ![r] = @ /\ tree.content[f] = bound.sealed[f]]
          /\ UNCHANGED <<pc, reading, history>>
       \/ tree.content[f] = Gone /\ Refused(r)
  /\ UNCHANGED <<outside, binder, draft, bound, watch>>

\* The digests are compared when all of it has been read.
JudgeTree(r) ==
  /\ pc[r] = "hash" /\ todo[r] = {}
  /\ \/ agrees[r] /\ Goto(r, "record") /\ UNCHANGED <<reading, walk, history>>
     \/ ~agrees[r] /\ Refused(r)
  /\ UNCHANGED <<outside, binder, draft, bound, watch>>

\* What the gate is told once the hash has agreed: the reading taken before it.
Vouched_AfterHash(r) == Fingerprint(tree)
Vouched(r) == reading[r]

RecordFingerprint(r) ==
  /\ pc[r] = "record"
  /\ watch' = IF Vouched(r) = Vanished THEN watch ELSE Vouched(r)
  /\ Passed(r)
  /\ UNCHANGED <<outside, binder, draft, bound, history>>

\* registry.admit: the input classifies into a claimed bucket, or is refused.
Admit(r) ==
  /\ pc[r] = "admit"
  /\ \/ Goto(r, "running") /\ UNCHANGED history
     \/ Over(r)
  /\ UNCHANGED <<outside, binder, draft, bound, watch, reading, walk>>

Finish(r) ==
  /\ pc[r] = "running"
  /\ Over(r)
  /\ UNCHANGED <<outside, binder, draft, bound, watch, reading, walk>>

-----------------------------------------------------------------------------
Outside ==
  \/ \E i \in Interfaces : RegisterInterface(i)
  \/ \E a \in Artifacts, s \in {"accepted", "proposed"} : RegisterProvider(a, s)
  \/ \E m \in Manifests : EditManifest(m)
  \/ \E t \in Trees : EditTree(t) \/ EditTreeQuietly(t)

Bind == \/ BindAccepted \/ BindManifest \/ BindInterface \/ BindMaterialize
        \/ BindDigestFile \/ BindDigest

Revalidate(r) == \/ CheckArtifact(r) \/ CheckManifest(r) \/ TakeFingerprint(r)
                 \/ CompareFingerprint(r) \/ HashFile(r) \/ JudgeTree(r)
                 \/ RecordFingerprint(r)

Next == \/ Outside \/ Bind
        \/ \E r \in Runs : Invoke(r) \/ Revalidate(r) \/ Admit(r) \/ Finish(r)

Spec == Init /\ [][Next]_vars

-----------------------------------------------------------------------------
(* Properties.                                                              *)

TypeOK ==
  /\ provider \in [artifact : Artifacts, status : {"accepted", "proposed"}] \cup {None}
  /\ interface \in Interfaces \cup {None}
  /\ manifest \in Manifests
  /\ tree \in [content : Trees, mtime : Nat]
  /\ binder \in BinderLabels
  /\ draft \in Bindings
  /\ bound \in Bindings \cup {None}
  /\ watch \in Nat \cup {None}
  /\ pc \in [Runs -> Labels]
  /\ reading \in [Runs -> Nat \cup {None, Vanished}]
  /\ todo \in [Runs -> SUBSET Files]
  /\ agrees \in [Runs -> BOOLEAN]
  /\ accepted \in [Runs -> SUBSET Artifacts]
  /\ manifests \in [Runs -> SUBSET Manifests]
  /\ had \in [Runs -> [Files -> SUBSET Contents]]
  /\ changes \in Nat /\ quiet \in Nat

\* binding.py:106 "a binding held across a withdrawal, a manifest edit": a run
\* never starts under an artifact that was not accepted, or a manifest that was
\* not on disk, at any time since its own invocation began, however often the
\* binding was revalidated before.
RunsUnderAcceptance ==
  \A r \in Runs : pc[r] = "running" =>
    bound.artifact \in accepted[r] /\ bound.manifest \in manifests[r]

\* binding.py:188: the gate may skip the hash, never the check.  A run starts
\* only if each file of the environment was the sealed one at some time since its
\* invocation began: no invocation vouches for a file it did not see, for itself
\* or for another that shares the binding.  No more is promised of the tree as a
\* whole: a digest read across a rebuild may agree with files that were never
\* there together.  An invocation under which no file changed ran the sealed tree.
RunsSealedFiles ==
  quiet = 0 => \A r \in Runs :
    pc[r] = "running" /\ bound.backend = "local_env" =>
      \A f \in Files : bound.sealed[f] \in had[r][f]

\* binding.py:244 "a fingerprint cached before the hash ran would be a gate that
\* skips a check nobody passed": the recorded fingerprint, as long as it is the
\* tree's, belongs to the sealed tree as a whole, although it was walked twice
\* and neither walk saw it at one moment.
WatchVouches ==
  quiet = 0 /\ watch # None /\ watch = Fingerprint(tree) => tree.content = bound.sealed

\* registry.py:77 "would let a second registration move an interface's digest
\* under bindings that already pinned the first": the interface a binding names
\* stays registered at the digest it was bound under.
InterfacePinned == bound # None => interface = bound.interface

\* A binding joins things read at different moments; together they are what one
\* accepted artifact says: its manifest, and the interface of that manifest.
BoundAsAccepted ==
  bound # None => /\ bound.manifest = ManifestOf[bound.artifact]
                  /\ bound.interface = InterfaceOf[bound.manifest]

\* Why they hold: what bind has joined so far, what each invocation has checked,
\* and what the fingerprints under way can still vouch for.
BindInv ==
  /\ (bound # None) = (binder = "done")
  /\ binder \notin {"accepted"} => draft.artifact \in Artifacts
  /\ binder \notin {"accepted", "manifest"} => draft.manifest = ManifestOf[draft.artifact]
  /\ binder \notin {"accepted", "manifest", "interface"} =>
       draft.interface = InterfaceOf[draft.manifest] /\ interface = draft.interface
  /\ bound # None => /\ bound.artifact = draft.artifact
                     /\ bound.manifest = draft.manifest
                     /\ bound.interface = draft.interface

SeenInv ==
  \A r \in Runs : pc[r] # "idle" =>
    /\ bound # None /\ Accepted \subseteq accepted[r]
    /\ manifest \in manifests[r]
    /\ \A f \in Files : tree.content[f] \in had[r][f]
    /\ pc[r] # "artifact" => bound.artifact \in accepted[r]
    /\ pc[r] \notin {"artifact", "manifest"} => bound.manifest \in manifests[r]

\* Invocation r could have read the sealed content of f itself.
Saw(r, f) == bound.sealed[f] \in had[r][f]

\* The files a walk has read and found as sealed.
Found(r) == IF pc[r] = "record" THEN Files
            ELSE IF pc[r] = "hash" /\ agrees[r] THEN Files \ todo[r] ELSE {}

WatchInv ==
  /\ watch \in Nat => watch <= tree.mtime /\ bound # None
  /\ watch = tree.mtime => tree.content = bound.sealed

\* What invocation r has found, and what another may take over from it: whoever's
\* walk of the fingerprint began at one no newer has seen the same files.
FoundInv(r) ==
  \A f \in Found(r) :
    /\ Saw(r, f)
    /\ reading[r] = tree.mtime => tree.content[f] = bound.sealed[f]
    /\ \A s \in Runs : pc[s] = "stat" /\ reading[r] \in Nat /\ reading[s] <= reading[r] => Saw(s, f)

PassInv(r) ==
  /\ reading[r] \in Nat => reading[r] <= tree.mtime
  /\ pc[r] = "stat" => reading[r] \in Nat
  /\ pc[r] \in {"hash", "record"} => reading[r] \in Nat \cup {Vanished}
  /\ pc[r] \in {"fingerprint", "stat", "hash", "record"} => bound.backend = "local_env"
  /\ pc[r] = "stat" /\ watch \in Nat /\ reading[r] <= watch => \A f \in Files : Saw(r, f)
  /\ pc[r] \in {"admit", "running"} /\ bound.backend = "local_env" => \A f \in Files : Saw(r, f)

Gate == WatchInv /\ \A r \in Runs : FoundInv(r) /\ PassInv(r)
GateInv == quiet = 0 => Gate

Inductive == BindInv /\ SeenInv /\ GateInv
=============================================================================
