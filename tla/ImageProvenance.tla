-------------------------- MODULE ImageProvenance --------------------------
(***************************************************************************)
(* An accepted Provider artifact and the image it pins.  An image carries  *)
(* labels its build wrote, and ContainerBackend.verify_image compares them *)
(* with what the registered payload says they must be.  The artifact's own *)
(* digest is one of them, and is taken over the payload without its status *)
(* and without that label, so that an image built for a proposal stays     *)
(* good when the proposal is accepted.                                     *)
(*                                                                         *)
(* A digest is the value it is the digest of.  A payload's digest field is *)
(* what it claims its manifest digests to; pins are the backends it pins.  *)
(***************************************************************************)
EXTENDS Naturals

CONSTANTS
  Payloads,      \* payloads somebody may write, without their status
  Builders,      \* materialization, base image and builder of an image
  MaxProposals   \* bound: payloads written

\* What a payload says beside its status.
PayloadFields == {"manifest", "digest", "id", "dist", "pins", "expects"}

ASSUME PayloadAssumption == \A p \in Payloads : DOMAIN p = PayloadFields

VARIABLES
  payload,    \* the payload of providers/<provider-id>.yaml
  accepted,   \* the payload in the registry
  labels,     \* the labels of the image at the pinned digest
  builtFor,   \* history: the payload the image was built for
  verdict,    \* verify_image: "none", "vouched", "mismatch" or "unsupported"
  proposals   \* payloads written so far

image == <<payload, accepted, labels, builtFor, verdict, proposals>>

NoImage == [artifact |-> "none"]
NoPayload == [status |-> "none"]

ArtifactDigest_Status(p) == p
\* artifact_digest: status and the self-reference left out.
ArtifactDigest(p) == [p EXCEPT !.status = "left_out"]

\* check_self_consistency.
SelfConsistent(p) ==
  /\ p.digest = p.manifest
  /\ p.manifest.id = p.id /\ p.manifest.dist = p.dist
  /\ p.manifest.backends \subseteq p.pins

ImageInit ==
  /\ payload = NoPayload /\ accepted = NoPayload
  /\ labels = NoImage /\ builtFor = NoPayload /\ verdict = "none" /\ proposals = 0

\* A payload is proposed, or another one in its place.
Propose(p) ==
  /\ proposals < MaxProposals /\ proposals' = proposals + 1
  /\ payload' = [x \in {"status"} \cup DOMAIN p |-> IF x = "status" THEN "proposed" ELSE p[x]]
  /\ UNCHANGED <<accepted, labels, builtFor, verdict>>

Accept ==
  /\ payload.status = "proposed"
  /\ payload' = [payload EXCEPT !.status = "accepted"]
  /\ UNCHANGED <<accepted, labels, builtFor, verdict, proposals>>

\* The image's build labels it with the payload it is built for.
BuildImage(made) ==
  /\ labels = NoImage /\ payload # NoPayload
  /\ labels' = [artifact |-> ArtifactDigest(payload), made |-> made]
  /\ builtFor' = payload
  /\ UNCHANGED <<payload, accepted, verdict, proposals>>

\* load_provider_artifact and register_provider; a payload that contradicts
\* itself is refused and changes nothing.
Register ==
  /\ payload # NoPayload /\ SelfConsistent(payload)
  /\ accepted' = payload
  /\ UNCHANGED <<payload, labels, builtFor, verdict, proposals>>

\* The registry hands out accepted payloads only.
VerifyImage ==
  /\ verdict = "none" /\ accepted.status = "accepted" /\ labels # NoImage
  /\ verdict' = IF "container" \notin accepted.pins THEN "unsupported"
                ELSE IF /\ labels.artifact = ArtifactDigest(accepted)
                        /\ labels.made = accepted.expects
                THEN "vouched" ELSE "mismatch"
  /\ UNCHANGED <<payload, accepted, labels, builtFor, proposals>>

\* artifact.py:235 "A proposal and its acceptance must digest identically": an
\* image is vouched for exactly if it was made as the registered payload expects
\* and that payload says what it said when the image was built for it, however
\* it went from proposal to acceptance, and to another proposal and back, in
\* between; and a payload one vouches for is the transcription of its manifest.
VerdictIsContent ==
  verdict \in {"vouched", "mismatch"} =>
    /\ verdict = "vouched" <=>
         /\ \A x \in PayloadFields : accepted[x] = builtFor[x]
         /\ labels.made = accepted.expects
    /\ accepted.manifest.id = accepted.id /\ accepted.manifest.dist = accepted.dist
       /\ accepted.digest = accepted.manifest
=============================================================================
