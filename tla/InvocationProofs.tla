-------------------------- MODULE InvocationProofs --------------------------
(***************************************************************************)
(* Proofs of the safety properties of Invocation, for every set of         *)
(* endpoints, declaration and set of credentials; of SecretChannel, for    *)
(* every limit, pipe buffer and bundle; and of SecretInvocation, which     *)
(* implements both.                                                        *)
(***************************************************************************)
EXTENDS SecretInvocation, TLAPS

-----------------------------------------------------------------------------
(* The invocation by itself.                                                *)

\* Which places of the executor and of the harness go together.
Phases ==
  /\ xpc = "prepare" => cpc = "off"
  /\ HarnessRuns => xpc = "run"
  /\ xpc = "run" => cpc # "off"
  /\ xpc = "accepted" => cpc = "gone"

\* What the harness knows at each place, up to the envelope.
HarnessKnows ==
  /\ called \subseteq recorded
  /\ parsed => runId = "this"
  /\ cpc \in {"off", "parse", "resolve", "secrets", "call"} => ending.how = "running"
  /\ cpc = "build" => ending.how = "result"
  /\ cpc = "handle" => ending.how \in {"refusal", "exception"}
  /\ cpc \in {"call", "build"} => secrets = Refs
  /\ ending.how = "result" => secrets = Refs

ReturnedOk == /\ ending.how = "result" /\ ending.status = "ok"
              /\ ending.complete /\ ending.carried /\ secrets = Refs

\* An envelope tells the truth about the call.
Truthful(d) ==
  /\ called \subseteq d.observed /\ d.observed \subseteq recorded
  /\ d.run = runId
  /\ d.status = "ok" <=> ReturnedOk
  /\ ending.how = "refusal" => d.status = "refused"

DraftTrue ==
  /\ cpc \notin {"write", "gone"} => draft = None
  /\ draft # None => Truthful(draft) /\ draft.said = ending.said
  /\ cpc # "gone" => envelope = None
  /\ envelope # None => draft # None /\ envelope \in Redacted(draft)
  /\ xpc = "run" /\ cpc = "gone" =>
       /\ draft # None => envelope \in Redacted(draft)
       /\ ending.how = "refusal" /\ ending.carried => draft # None

Outcome ==
  /\ xpc = "accepted" => /\ envelope # None /\ envelope.run = "this"
                         /\ Undeclared(envelope.observed) = {}
  /\ xpc \in {"prepare", "run"} => code = "none"

IInv == /\ TypeOK /\ Phases /\ HarnessKnows /\ DraftTrue /\ Outcome
        /\ ScrubbedNotRefused /\ RefusalArrives

\* What scrubbing leaves: of what is held, only what a placeholder spells, and
\* nothing where a placeholder spells nothing.
LEMMA RedactionsLeave ==
  ASSUME NEW found, NEW held, NEW stays \in Redactions(found, held)
  PROVE  /\ stays \subseteq Spelled \cup (found \ held)
         /\ stays \subseteq found \cup Spelled
         /\ Vanishes(found, held) => stays = {}
<1>1. CASE found \cap held = {} BY <1>1 DEF Redactions, Vanishes
<1>2. CASE found \cap held # {} BY <1>2 DEF Redactions, Vanishes
<1> QED BY <1>1, <1>2

\* What is written of a draft is its envelope, scrubbed, unless its words were.
LEMMA RedactedIs ==
  ASSUME NEW d \in Envelopes, NEW e \in Redacted(d)
  PROVE  /\ e = None <=> Words[d.status] \cap secrets # {}
         /\ e # None => /\ e \in Envelopes
                        /\ e.run = d.run /\ e.status = d.status
                        /\ e.observed = d.observed
                        /\ e.said \in Redactions(d.said, secrets)
<1>1. CASE Words[d.status] \cap secrets # {} BY <1>1 DEF Redacted
<1>2. CASE Words[d.status] \cap secrets = {}
  <2>1. PICK stays \in Redactions(d.said, secrets) : e = [d EXCEPT !.said = stays]
    BY <1>2 DEF Redacted
  <2>2. stays \subseteq Refs
    BY RedactionsLeave, CredentialTextAssumption DEF Envelopes
  <2>3. e \in Envelopes /\ e.said = stays
        /\ e.run = d.run /\ e.status = d.status /\ e.observed = d.observed
    BY <2>1, <2>2 DEF Envelopes
  <2> QED BY <1>2, <2>1, <2>3, NoneAssumption
<1> QED BY <1>1, <1>2

\* The ways the try block raises are endings.
LEMMA EndTyped ==
  ASSUME NEW how \in {"running", "refusal", "exception", "exit"},
         NEW carried \in BOOLEAN, NEW said \in SUBSET Refs
  PROVE  /\ End(how, carried, said) \in Endings
         /\ End(how, carried, said).how = how
<1>1. End(how, carried, said) \in Endings BY DEF End, Endings, Statuses
<1> QED BY <1>1 DEF End

\* And so are those in which nothing of the package's is said.
LEMMA SilentEndTyped ==
  \A how \in {"running", "refusal", "exception", "exit"} :
    /\ End(how, TRUE, {}) \in Endings
    /\ End(how, TRUE, {}).how = how
  BY DEF End, Endings, Statuses

\* While the supervised run goes on there is no outcome to say anything of.
LEMMA GoesOn ==
  ASSUME IInv, xpc = "run", xpc' = "run", code' = code,
         TypeOK', Phases', HarnessKnows', DraftTrue'
  PROVE  IInv'
<1>1. code = "none" BY DEF IInv, Outcome
<1>2. Outcome' BY <1>1 DEF Outcome
<1>3. RefusalArrives' BY DEF RefusalArrives, Ended
<1>4. ScrubbedNotRefused' BY <1>1 DEF ScrubbedNotRefused
<1> QED BY <1>2, <1>3, <1>4 DEF IInv

\* Raising keeps the invariant: there is no envelope yet, and an exit leaves
\* none.
LEMMA RaiseKeeps ==
  ASSUME IInv, cpc \in {"parse", "resolve", "secrets", "call", "build"},
         NEW e \in Endings, e.how \in {"refusal", "exception", "exit"}, Raise(e),
         UNCHANGED <<xpc, code, stderr, thread, recorded, called, aside, draft, envelope>>,
         secrets' \subseteq Refs, noise' \subseteq Refs,
         \/ UNCHANGED <<runId, parsed>>
         \/ parsed' \in BOOLEAN /\ runId' = IF parsed' THEN "this" ELSE runId
  PROVE  IInv'
<1>0. /\ parsed' \in BOOLEAN /\ runId' \in {"this", "unknown"}
      /\ parsed' => runId' = "this"
  <2>1. CASE UNCHANGED <<runId, parsed>>
    <3>1. parsed' = parsed /\ runId' = runId BY <2>1
    <3> QED BY <3>1 DEF IInv, TypeOK, HarnessKnows
  <2>2. CASE parsed' \in BOOLEAN /\ runId' = IF parsed' THEN "this" ELSE runId
    <3>1. CASE parsed' = TRUE BY <2>2, <3>1
    <3>2. CASE parsed' = FALSE
      <4>1. runId \in {"this", "unknown"} BY DEF IInv, TypeOK
      <4> QED BY <2>2, <3>2, <4>1
    <3> QED BY <2>2, <3>1, <3>2
  <2> QED BY <2>1, <2>2
<1>1. /\ cpc' \in {"handle", "gone"} /\ ending' = e
      /\ cpc' = "gone" <=> e.how = "exit"
  BY DEF Raise
<1>2. xpc = "run" /\ draft = None /\ envelope = None
  BY DEF IInv, Phases, HarnessRuns, DraftTrue
<1>3. TypeOK' BY <1>0, <1>1, <1>2 DEF IInv, TypeOK
<1>4. Phases' BY <1>1, <1>2 DEF IInv, Phases, HarnessRuns
<1>5. HarnessKnows' BY <1>0, <1>1 DEF IInv, HarnessKnows
<1>6. DraftTrue' BY <1>1, <1>2 DEF DraftTrue
<1> QED BY <1>2, <1>3, <1>4, <1>5, <1>6, GoesOn

\* Init establishes the invariant.
LEMMA InitIInv == Init => IInv
<1> SUFFICES ASSUME Init PROVE IInv OBVIOUS
<1>1. ending \in Endings /\ ending.how = "running"
  BY SilentEndTyped DEF Init
<1>2. TypeOK BY <1>1 DEF Init, TypeOK
<1> QED BY <1>1, <1>2 DEF Init, IInv, Phases, HarnessKnows, DraftTrue, Outcome,
           ScrubbedNotRefused, RefusalArrives, Ended, HarnessRuns

\* What the harness builds is an envelope, and true of the call.
LEMMA EnvelopeTyped ==
  ASSUME TypeOK, NEW status \in Statuses, NEW said \in SUBSET Refs
  PROVE  /\ Envelope(status, said) \in Envelopes
         /\ Envelope(status, said) # None
<1>1. Envelope(status, said) \in Envelopes
  BY DEF Envelope, Envelopes, TypeOK
<1> QED BY <1>1, NoneAssumption

\* What the executor finds in the envelope and keeps of stderr.
LEMMA CollectFinds ==
  ASSUME IInv, Collect, envelope # None
  PROVE  /\ draft # None /\ draft \in Envelopes /\ envelope \in Envelopes
         /\ envelope.run = runId /\ envelope.status = draft.status
         /\ envelope.observed = draft.observed
         /\ envelope.said \subseteq Spelled \cup (ending.said \ secrets)
         /\ Vanishes(ending.said, secrets) => envelope.said = {}
         /\ stderr' \subseteq Spelled
         /\ Vanishes(noise, Refs) => stderr' = {}
<1>1. draft # None /\ draft \in Envelopes /\ envelope \in Redacted(draft)
      /\ draft.run = runId /\ draft.said = ending.said
  BY DEF IInv, TypeOK, DraftTrue, Truthful
<1>2. /\ envelope \in Envelopes
      /\ envelope.run = draft.run /\ envelope.status = draft.status
      /\ envelope.observed = draft.observed
      /\ envelope.said \in Redactions(ending.said, secrets)
  BY <1>1, RedactedIs
<1>3. stderr' \in Redactions(noise, Refs) /\ noise \subseteq Refs
  BY DEF Collect, ScrubbedText, IInv, TypeOK
<1>4. /\ envelope.said \subseteq Spelled \cup (ending.said \ secrets)
      /\ Vanishes(ending.said, secrets) => envelope.said = {}
  BY <1>2, RedactionsLeave
<1>5. stderr' \subseteq Spelled /\ (Vanishes(noise, Refs) => stderr' = {})
  BY <1>3, RedactionsLeave
<1> QED BY <1>1, <1>2, <1>4, <1>5

\* The verdict accepts a clean envelope, refuses a leak only for what may be
\* found, and finds an envelope that was built unless its words were scrubbed.
LEMMA CollectScrubbed ==
  ASSUME IInv, Collect
  PROVE  ScrubbedNotRefused'
<1>1. /\ UNCHANGED <<cpc, runId, secrets, ending, draft, envelope>>
      /\ code' = Verdict(envelope, stderr')
      /\ xpc' = "accepted" <=> code' = "none"
      /\ xpc = "run" /\ cpc = "gone"
  BY DEF Collect, results
<1>2. ASSUME code' = "none" PROVE Leaks(envelope, stderr') = {}
  BY <1>1, <1>2 DEF Verdict
<1>3. ASSUME code' = "secret_leak"
      PROVE  Leaks(envelope, stderr')
               \subseteq Spelled \cup Words[envelope.status] \cup (ending.said \ secrets)
  <2>1. envelope # None BY <1>1, <1>3 DEF Verdict
  <2> QED BY <2>1, CollectFinds DEF Leaks
<1>4. ASSUME code' = "protocol", runId = "this", draft # None
      PROVE  Words[draft.status] \cap secrets # {}
  <2>1. envelope \in Redacted(draft) /\ draft \in Envelopes
    BY <1>1, <1>4 DEF IInv, DraftTrue, TypeOK
  <2>2. CASE envelope = None BY <2>1, <2>2, RedactedIs
  <2>3. CASE envelope # None
    <3>1. envelope.run = "this" BY <1>4, <2>3, CollectFinds
    <3> QED BY <1>1, <1>4, <2>3, <3>1 DEF Verdict
  <2> QED BY <2>2, <2>3
<1>5. /\ UNCHANGED <<envelope, draft, ending, secrets, runId>>
      /\ Leaks(envelope, stderr)' = Leaks(envelope, stderr')
  BY <1>1 DEF Leaks
<1> QED BY <1>1, <1>2, <1>3, <1>4, <1>5 DEF ScrubbedNotRefused

\* A refusal that was built, and that scrubbing leaves clean, is accepted.
LEMMA CollectArrives ==
  ASSUME IInv, Collect
  PROVE  RefusalArrives'
<1>1. /\ UNCHANGED <<cpc, parsed, recorded, secrets, ending, envelope, noise>>
      /\ code' = Verdict(envelope, stderr')
      /\ xpc' = "accepted" <=> code' = "none"
      /\ xpc = "run" /\ cpc = "gone"
  BY DEF Collect, results, contacts
<1> SUFFICES ASSUME ending.how = "refusal", ending.carried, parsed,
                    recorded \subseteq Declared, Words["refused"] = {},
                    Vanishes(ending.said, secrets), Vanishes(noise, Refs)
             PROVE  code' = "none" /\ envelope.status = "refused"
  BY <1>1 DEF RefusalArrives, Vanishes
<1>2. /\ draft # None /\ draft \in Envelopes /\ draft.status = "refused"
      /\ draft.observed \subseteq recorded
      /\ envelope \in Redacted(draft)
  BY <1>1 DEF IInv, DraftTrue, Truthful, TypeOK
<1>3. envelope # None BY <1>2, RedactedIs
<1>4. /\ envelope.run = "this" /\ envelope.status = "refused"
      /\ envelope.observed \subseteq Declared
      /\ Leaks(envelope, stderr') = {}
  <2>1. runId = "this" BY DEF IInv, HarnessKnows
  <2> QED BY <1>2, <1>3, <2>1, CollectFinds DEF Leaks
<1>5. Undeclared(envelope.observed) = {} BY <1>4 DEF Undeclared
<1> QED BY <1>1, <1>3, <1>4, <1>5 DEF Verdict

\* No step of the executor disturbs the invariant.
LEMMA ExecutorKeeps == ASSUME IInv, Executor PROVE IInv'
<1>1. CASE Prepare
  <2> USE DEF Prepare, IInv, TypeOK, Phases, HarnessKnows, DraftTrue, Outcome, contacts,
              results, HarnessRuns
  <2>1. /\ xpc' \in {"run", "refused"} /\ cpc' \in {"off", "parse"}
        /\ xpc' = "run" <=> cpc' = "parse"
        /\ code' \in {"none", "bucket", "bundle", "secret_leak"}
        /\ xpc' = "run" => code' = "none"
        /\ ending.how = "running" /\ draft = None /\ envelope = None
        /\ UNCHANGED <<runId, parsed, secrets, recorded, called, aside, ending, draft,
                       envelope, noise, stderr, thread>>
    BY <1>1
  <2>2. TypeOK' /\ Phases' BY <1>1, <2>1
  <2>3. HarnessKnows' BY <1>1, <2>1
  <2>4. DraftTrue' /\ Outcome' BY <1>1, <2>1
  <2>5. RefusalArrives' /\ ScrubbedNotRefused'
    BY <1>1, <2>1 DEF RefusalArrives, ScrubbedNotRefused
  <2> QED BY <2>2, <2>3, <2>4, <2>5
<1>2. CASE Breach
  <2> USE DEF Breach, contacts, results, HarnessRuns
  <2>1. TypeOK' BY <1>2 DEF IInv, TypeOK
  <2>2. Phases' /\ HarnessKnows' BY <1>2 DEF IInv, Phases, HarnessKnows
  <2>3. DraftTrue'
    BY <1>2 DEF IInv, DraftTrue, Truthful, ReturnedOk
  <2>4. Outcome' BY <1>2 DEF Outcome
  <2>5. RefusalArrives' /\ ScrubbedNotRefused'
    BY <1>2 DEF RefusalArrives, ScrubbedNotRefused
  <2> QED BY <2>1, <2>2, <2>3, <2>4, <2>5 DEF IInv
<1>3. CASE Collect
  <2>1. /\ code' \in {"none", "protocol", "secret_leak", "undeclared_egress"}
        /\ xpc = "run" /\ cpc = "gone"
        /\ xpc' = IF code' = "none" THEN "accepted" ELSE "refused"
        /\ UNCHANGED <<cpc, runId, parsed, secrets, recorded, called, aside, ending,
                       draft, envelope, noise, thread>>
    BY <1>3 DEF Collect, Verdict, results, contacts
  <2>2. stderr' \subseteq Refs
    <3>1. stderr' \in Redactions(noise, Refs) /\ noise \subseteq Refs
      BY <1>3 DEF Collect, ScrubbedText, IInv, TypeOK
    <3> QED BY <3>1, RedactionsLeave, CredentialTextAssumption
  <2>3. TypeOK' BY <2>1, <2>2 DEF IInv, TypeOK
  <2>4. Phases' /\ HarnessKnows'
    BY <2>1 DEF IInv, Phases, HarnessKnows, HarnessRuns
  <2>5. DraftTrue'
    <3>1. Redacted(draft)' = Redacted(draft)
      BY <2>1 DEF Redacted, Redactions
    <3> QED BY <2>1, <3>1 DEF IInv, DraftTrue, Truthful, ReturnedOk
  <2>6. Outcome'
    <3>1. code' = "none" => /\ envelope # None /\ envelope.run = "this"
                            /\ Undeclared(envelope.observed) = {}
      BY <1>3 DEF Collect, Verdict
    <3> QED BY <2>1, <3>1 DEF Outcome, Undeclared
  <2>7. ScrubbedNotRefused' /\ RefusalArrives'
    BY <1>3, CollectScrubbed, CollectArrives
  <2> QED BY <2>3, <2>4, <2>5, <2>6, <2>7 DEF IInv
<1> QED BY <1>1, <1>2, <1>3 DEF Executor

\* No step of the harness before the call disturbs the invariant.
LEMMA PrologueKeeps ==
  ASSUME IInv, Parse \/ Resolve \/ ReadSecrets
  PROVE  IInv'
<1>0. secrets \subseteq Refs /\ noise \subseteq Refs
  BY DEF IInv, TypeOK
<1> USE DEF Harness, executor, contacts, results
<1>1. CASE Parse
  <2>1. CASE cpc' = "resolve"
    <3>0. parsed' = TRUE /\ runId' = "this" /\ ending' = ending
      BY <1>1, <2>1 DEF Parse, Raise, End
    <3> USE <1>1, <2>1, <3>0 DEF Parse
    <3>1. xpc = "run" /\ xpc' = "run" /\ code' = code /\ draft = None /\ envelope = None
      BY DEF IInv, Phases, HarnessRuns, DraftTrue
    <3>2. TypeOK' BY DEF IInv, TypeOK
    <3>3. Phases' /\ HarnessKnows' BY <3>1 DEF IInv, Phases, HarnessKnows, HarnessRuns
    <3>4. DraftTrue' BY <3>1 DEF DraftTrue
    <3> QED BY <3>1, <3>2, <3>3, <3>4, GoesOn
  <2>2. CASE Raise(End("refusal", TRUE, {}))
    <3>1. /\ End("refusal", TRUE, {}) \in Endings
          /\ End("refusal", TRUE, {}).how \in {"refusal", "exception", "exit"}
      BY SilentEndTyped
    <3>2. /\ cpc = "parse"
          /\ UNCHANGED <<xpc, code, stderr, thread, recorded, called, aside, draft, envelope>>
          /\ secrets' \subseteq Refs /\ noise' \subseteq Refs
      BY <1>0, <1>1 DEF Parse
    <3>3. parsed' \in BOOLEAN /\ runId' = IF parsed' THEN "this" ELSE runId
      BY <1>1 DEF Parse
    <3> QED BY <2>2, <3>1, <3>2, <3>3, RaiseKeeps
  <2> QED BY <1>1, <2>1, <2>2 DEF Parse
<1>2. CASE Resolve
  <2>1. CASE cpc' = "secrets" /\ UNCHANGED ending
    <3> USE <1>2, <2>1 DEF Resolve
    <3>1. xpc = "run" /\ xpc' = "run" /\ code' = code /\ draft = None /\ envelope = None
      BY DEF IInv, Phases, HarnessRuns, DraftTrue
    <3>2. TypeOK' BY DEF IInv, TypeOK
    <3>3. Phases' /\ HarnessKnows' BY <3>1 DEF IInv, Phases, HarnessKnows, HarnessRuns
    <3>4. DraftTrue' BY <3>1 DEF DraftTrue
    <3> QED BY <3>1, <3>2, <3>3, <3>4, GoesOn
  <2>2. ASSUME NEW how \in {"refusal", "exception", "exit"},
               NEW said \in SUBSET Refs, Raise(End(how, TRUE, said))
        PROVE  IInv'
    <3>0. how \in {"running", "refusal", "exception", "exit"}
      OBVIOUS
    <3>1. /\ End(how, TRUE, said) \in Endings
          /\ End(how, TRUE, said).how \in {"refusal", "exception", "exit"}
      BY <3>0, EndTyped
    <3>2. /\ cpc = "resolve"
          /\ UNCHANGED <<xpc, code, stderr, thread, recorded, called, aside, draft, envelope>>
          /\ secrets' \subseteq Refs /\ noise' \subseteq Refs
      BY <1>0, <1>2 DEF Resolve
    <3>3. UNCHANGED <<runId, parsed>>
      BY <1>2 DEF Resolve
    <3> QED BY <2>2, <3>1, <3>2, <3>3, RaiseKeeps
  <2> QED BY <1>2, <2>1, <2>2 DEF Resolve
<1>3. CASE ReadSecrets
  <2>1. CASE cpc' = "call" /\ secrets' = Refs /\ UNCHANGED ending
    <3> USE <1>3, <2>1 DEF ReadSecrets
    <3>1. xpc = "run" /\ xpc' = "run" /\ code' = code /\ draft = None /\ envelope = None
      BY DEF IInv, Phases, HarnessRuns, DraftTrue
    <3>2. TypeOK' BY DEF IInv, TypeOK
    <3>3. Phases' /\ HarnessKnows' BY <3>1 DEF IInv, Phases, HarnessKnows, HarnessRuns
    <3>4. DraftTrue' BY <3>1 DEF DraftTrue
    <3> QED BY <3>1, <3>2, <3>3, <3>4, GoesOn
  <2>2. ASSUME NEW how \in {"refusal", "exception"}, secrets' \subseteq Refs,
               Raise(End(how, TRUE, {}))
        PROVE  IInv'
    <3>0. how \in {"running", "refusal", "exception", "exit"}
      OBVIOUS
    <3>1. /\ End(how, TRUE, {}) \in Endings
          /\ End(how, TRUE, {}).how \in {"refusal", "exception", "exit"}
      BY <3>0, SilentEndTyped
    <3>2. /\ cpc = "secrets"
          /\ UNCHANGED <<xpc, code, stderr, thread, recorded, called, aside, draft, envelope>>
          /\ secrets' \subseteq Refs /\ noise' \subseteq Refs
      BY <1>0, <1>3, <2>2 DEF ReadSecrets
    <3>3. UNCHANGED <<runId, parsed>>
      BY <1>3 DEF ReadSecrets
    <3> QED BY <2>2, <3>1, <3>2, <3>3, RaiseKeeps
  <2> QED BY <1>0, <1>3, <2>1, <2>2 DEF ReadSecrets, MissingRefs
<1> QED BY <1>1, <1>2, <1>3

\* A draft is built from what the call did, and the envelope is the draft
\* without its credentials.
LEMMA EpilogueKeeps ==
  ASSUME IInv, Build \/ Handle \/ Write
  PROVE  IInv'
<1>0. secrets \subseteq Refs /\ noise \subseteq Refs /\ ending.said \subseteq Refs
  BY DEF IInv, TypeOK, Endings
<1>4. ASSUME Build, cpc' = "handle" PROVE IInv'
  <2>1. PICK how \in {"refusal", "exception"} : Raise(End(how, TRUE, ending.said))
    BY <1>4 DEF Build
  <2>2. /\ End(how, TRUE, ending.said) \in Endings
        /\ End(how, TRUE, ending.said).how \in {"refusal", "exception", "exit"}
    <3>1. End(how, TRUE, ending.said) \in Endings
      BY <1>0 DEF End, Endings, Statuses
    <3> QED BY <3>1 DEF End
  <2>3. /\ cpc = "build" /\ UNCHANGED <<runId, parsed>>
        /\ UNCHANGED <<xpc, code, stderr, thread, recorded, called, aside, draft, envelope>>
        /\ secrets' \subseteq Refs /\ noise' \subseteq Refs
    BY <1>0, <1>4 DEF Build, Raise, Harness, executor, contacts
  <2> QED BY <2>1, <2>2, <2>3, RaiseKeeps
<1> USE DEF Harness, executor, contacts, results
<1>2. cpc # "gone" /\ xpc = "run" /\ envelope = None /\ xpc' = "run" /\ code' = code
  BY DEF IInv, Phases, HarnessRuns, DraftTrue, Build, Handle, Write
<1>7. ASSUME Build, cpc' = "write" PROVE IInv'
  <2>1. draft' = Envelope(ending.status, ending.said) /\ ending.complete /\ ending.carried
    BY <1>7 DEF Build, Raise, End, Encodable
  <2>2. ending.status \in Statuses /\ ending.said \subseteq Refs /\ ending.how = "result"
        /\ secrets = Refs
    BY <1>7 DEF IInv, TypeOK, Endings, HarnessKnows, Build
  <2>3. draft' \in Envelopes /\ draft' # None
    BY <2>1, <2>2, EnvelopeTyped DEF IInv
  <2>4. /\ draft'.run = runId /\ draft'.status = ending.status
        /\ draft'.observed = recorded /\ draft'.said = ending.said
    BY <2>1 DEF Envelope
  <2>5. /\ UNCHANGED <<runId, parsed, secrets, recorded, called, aside, envelope, noise,
                       stderr, thread, ending>>
    BY <1>7 DEF Build, Raise, End
  <2>6. TypeOK' BY <1>7, <2>3, <2>5, <1>2 DEF IInv, TypeOK
  <2>7. Phases' /\ HarnessKnows'
    BY <1>2, <1>7, <2>2, <2>5 DEF IInv, Phases, HarnessKnows, HarnessRuns
  <2>8. Truthful(draft)'
    BY <2>1, <2>2, <2>4, <2>5 DEF IInv, HarnessKnows, Truthful, ReturnedOk
  <2>9. DraftTrue' BY <1>2, <1>7, <2>3, <2>4, <2>5, <2>8 DEF DraftTrue
  <2> QED BY <1>2, <2>6, <2>7, <2>9, GoesOn
<1>5. CASE Handle
  <2>0. /\ UNCHANGED <<runId, parsed, secrets, recorded, called, aside, envelope, noise,
                       stderr, thread, ending>>
        /\ ending.how \in {"refusal", "exception"} /\ draft = None /\ cpc = "handle"
    BY <1>5 DEF Handle, IInv, HarnessKnows, DraftTrue
  <2>1. CASE cpc' = "gone"
    <3>1. draft' = None /\ ending.how = "refusal" /\ ~ending.carried
      BY <1>5, <2>0, <2>1 DEF Handle
    <3>2. TypeOK' BY <1>2, <2>0, <2>1, <3>1 DEF IInv, TypeOK
    <3>3. Phases' /\ HarnessKnows'
      BY <1>2, <2>0, <2>1 DEF IInv, Phases, HarnessKnows, HarnessRuns
    <3>4. DraftTrue' BY <1>2, <2>0, <2>1, <3>1 DEF DraftTrue
    <3> QED BY <1>2, <3>2, <3>3, <3>4, GoesOn
  <2>2. CASE cpc' = "write"
    <3> DEFINE status == IF ending.how = "refusal" THEN "refused" ELSE "error"
               base == Envelope(status, ending.said)
    <3>1. draft' = [base EXCEPT !.observed = HandlerTrace]
      BY <1>5, <2>2 DEF Handle
    <3>2. base \in Envelopes
      BY <1>0, EnvelopeTyped DEF IInv, Statuses
    <3>3. /\ draft' \in Envelopes /\ draft'.said = ending.said
          /\ draft'.run = runId /\ draft'.status = status /\ draft'.observed = recorded
      BY <3>1, <3>2 DEF Envelopes, Envelope, HandlerTrace
    <3>4. draft' # None
      BY <3>3, NoneAssumption
    <3> HIDE DEF base
    <3>5. TypeOK' BY <1>2, <2>0, <2>2, <3>3, <3>4 DEF IInv, TypeOK
    <3>6. Phases' /\ HarnessKnows'
      BY <1>2, <2>0, <2>2 DEF IInv, Phases, HarnessKnows, HarnessRuns
    <3>7. Truthful(draft)'
      BY <2>0, <3>3 DEF IInv, HarnessKnows, Truthful, ReturnedOk
    <3>8. DraftTrue' BY <1>2, <2>0, <2>2, <3>3, <3>4, <3>7 DEF DraftTrue
    <3> QED BY <1>2, <3>5, <3>6, <3>8, GoesOn
  <2> QED BY <1>5, <2>1, <2>2 DEF Handle
<1>6. CASE Write
  <2>1. draft \in Envelopes /\ draft # None /\ cpc = "write" /\ cpc' = "gone"
        /\ envelope' \in Redacted(draft)
        /\ UNCHANGED <<runId, parsed, secrets, recorded, called, aside, draft, noise,
                       stderr, thread, ending>>
    BY <1>6 DEF Write, IInv, TypeOK
  <2>2. envelope' \in Envelopes \cup {None}
    BY <2>1, RedactedIs
  <2>3. Redacted(draft)' = Redacted(draft)
    BY <2>1 DEF Redacted, Redactions
  <2>4. TypeOK' BY <1>2, <2>1, <2>2 DEF IInv, TypeOK
  <2>5. Phases' /\ HarnessKnows'
    BY <1>2, <2>1 DEF IInv, Phases, HarnessKnows, HarnessRuns
  <2>6. DraftTrue'
    BY <1>2, <2>1, <2>3 DEF IInv, DraftTrue, Truthful, ReturnedOk
  <2> QED BY <1>2, <2>4, <2>5, <2>6, GoesOn
<1> QED BY <1>4, <1>5, <1>6, <1>7 DEF Build, Raise, End

\* What a contact records is what it contacts, and nothing else changes.
LEMMA RecordingKeeps ==
  ASSUME IInv, HarnessRuns, xpc = "run",
         NEW e \in Endpoints, recorded' = recorded \cup {e},
         called' \in {called, called \cup {e}}, called' # called => draft = None,
         aside' \subseteq Endpoints,
         UNCHANGED <<executor, cpc, runId, parsed, secrets, ending, results, noise, thread>>
  PROVE  IInv'
<1>1. UNCHANGED <<xpc, code, stderr, draft, envelope>> /\ envelope = None
  BY DEF executor, results, IInv, DraftTrue, HarnessRuns
<1>2. TypeOK' BY <1>1 DEF IInv, TypeOK
<1>3. Phases' /\ HarnessKnows' BY <1>1 DEF IInv, Phases, HarnessKnows, HarnessRuns
<1>4. DraftTrue'
  BY <1>1 DEF IInv, DraftTrue, Truthful, ReturnedOk, HarnessRuns
<1> QED BY <1>1, <1>2, <1>3, <1>4, GoesOn

\* Nothing the provider or its thread does disturbs the invariant.
LEMMA ProviderKeeps == ASSUME IInv, Provider PROVE IInv'
<1> USE DEF Harness, executor, contacts, results
<1>1. CASE LeaveThread
  <2>1. UNCHANGED <<xpc, code, stderr, cpc, runId, parsed, secrets, recorded, called, aside,
                    ending, draft, envelope, noise>>
        /\ thread' \in BOOLEAN /\ cpc = "call" /\ xpc = "run" /\ draft = None
        /\ envelope = None
    BY <1>1 DEF LeaveThread, IInv, Phases, HarnessRuns, DraftTrue
  <2>2. TypeOK' BY <2>1 DEF IInv, TypeOK
  <2>3. Phases' /\ HarnessKnows' BY <2>1 DEF IInv, Phases, HarnessKnows, HarnessRuns
  <2>4. DraftTrue' BY <2>1 DEF DraftTrue
  <2> QED BY <2>1, <2>2, <2>3, <2>4, GoesOn
<1>2. ASSUME NEW e \in Endpoints, Contact(e) PROVE IInv'
  <2>1. HarnessRuns /\ xpc = "run" /\ draft = None /\ aside' \subseteq Endpoints
    BY <1>2 DEF Contact, HarnessRuns, IInv, TypeOK, Phases, DraftTrue
  <2> QED BY <1>2, <2>1, RecordingKeeps DEF Contact
<1>3. ASSUME NEW e \in Endpoints, ThreadContact(e) PROVE IInv'
  <2>1. xpc = "run" /\ aside' \subseteq Endpoints
    BY <1>3 DEF ThreadContact, IInv, TypeOK, Phases
  <2> QED BY <1>3, <2>1, RecordingKeeps DEF ThreadContact
<1>4. ASSUME NEW e \in Endings, ProviderEnds(e) PROVE IInv'
  <2>0. noise' \subseteq Refs /\ secrets' \subseteq Refs /\ cpc = "call"
        /\ UNCHANGED <<xpc, code, stderr, thread, recorded, called, aside, draft, envelope,
                       runId, parsed, secrets>>
    BY <1>4 DEF ProviderEnds, IInv, TypeOK
  <2>1. CASE e.how = "result"
    <3>1. /\ cpc' = "build" /\ ending' = e /\ xpc = "run" /\ draft = None
          /\ envelope = None
      BY <1>4, <2>0, <2>1 DEF ProviderEnds, IInv, Phases, HarnessRuns, DraftTrue
    <3>2. TypeOK' BY <2>0, <3>1 DEF IInv, TypeOK
    <3>3. Phases' /\ HarnessKnows'
      BY <2>0, <2>1, <3>1 DEF IInv, Phases, HarnessKnows, HarnessRuns
    <3>4. DraftTrue' BY <2>0, <3>1 DEF DraftTrue
    <3> QED BY <2>0, <3>1, <3>2, <3>3, <3>4, GoesOn
  <2>2. CASE e.how = "other"
    <3>1. Raise(End("refusal", TRUE, {}))
      BY <1>4, <2>2 DEF ProviderEnds
    <3>2. /\ End("refusal", TRUE, {}) \in Endings
          /\ End("refusal", TRUE, {}).how \in {"refusal", "exception", "exit"}
      BY SilentEndTyped
    <3> QED BY <2>0, <3>1, <3>2, RaiseKeeps
  <2>3. CASE e.how \in {"refusal", "exception", "exit"}
    <3>1. Raise(e) BY <1>4, <2>3 DEF ProviderEnds
    <3> QED BY <2>0, <2>3, <3>1, RaiseKeeps
  <2> QED BY <1>4, <2>1, <2>2, <2>3 DEF ProviderEnds, Endings
<1> QED BY <1>1, <1>2, <1>3, <1>4 DEF Provider

\* Every step keeps the invariant.
LEMMA StepKeepsIInv == IInv /\ [Next]_vars => IInv'
<1>1. ASSUME IInv, UNCHANGED vars PROVE IInv'
  <2> USE <1>1 DEF vars, IInv
  <2>1. TypeOK' BY DEF TypeOK
  <2>2. Phases' /\ HarnessKnows' BY DEF Phases, HarnessKnows, HarnessRuns
  <2>3. DraftTrue'
    <3>1. Redacted(draft)' = Redacted(draft) BY DEF Redacted, Redactions
    <3> QED BY <3>1 DEF DraftTrue, Truthful, ReturnedOk
  <2>4. Outcome' BY DEF Outcome, Undeclared
  <2>5. ScrubbedNotRefused' BY DEF ScrubbedNotRefused, Leaks
  <2>6. RefusalArrives' BY DEF RefusalArrives, Ended, Vanishes
  <2> QED BY <2>1, <2>2, <2>3, <2>4, <2>5, <2>6
<1> QED BY <1>1, ExecutorKeeps, PrologueKeeps, EpilogueKeeps, ProviderKeeps DEF Next, Child

\* An accepted outcome is the envelope of this run's call.
LEMMA AcceptedTrue ==
  ASSUME IInv, xpc = "accepted"
  PROVE  /\ called \subseteq envelope.observed
         /\ Undeclared(envelope.observed) = {}
         /\ envelope.status = "ok" <=> ReturnedOk
<1>1. envelope # None /\ envelope \in Redacted(draft) /\ draft \in Envelopes
      /\ Truthful(draft) /\ Undeclared(envelope.observed) = {}
  BY DEF IInv, Outcome, DraftTrue, TypeOK
<1>2. envelope.status = draft.status /\ envelope.observed = draft.observed
  BY <1>1, RedactedIs
<1> QED BY <1>1, <1>2 DEF Truthful

\* The inductive invariant holds in every reachable state.
THEOREM Invariance == Spec => []IInv
  BY InitIInv, StepKeepsIInv, PTL DEF Spec

\* Every variable keeps its type; an envelope is written only when one was built.
THEOREM TypeCorrect == Spec => []TypeOK
<1>1. IInv => TypeOK BY DEF IInv
<1> QED BY <1>1, Invariance, PTL

\* child.py:117-121: the record survives every ending that leaves an envelope,
\* so nothing undeclared the call contacted is in an accepted outcome.
THEOREM EgressHeldHolds == Spec => []EgressHeld
<1>1. IInv => EgressHeld
  BY AcceptedTrue DEF EgressHeld, Undeclared
<1> QED BY <1>1, Invariance, PTL

\* child.py:170-182, protocol.py:303-328: an accepted ok is a whole one.
THEOREM OkIsWholeHolds == Spec => []OkIsWhole
<1>1. IInv => OkIsWhole
  BY AcceptedTrue DEF ReturnedOk, OkIsWhole
<1> QED BY <1>1, Invariance, PTL

\* child.py:200-202, execute.py:159-162, secrets.py:150-174: nothing accepted holds
\* a credential, whatever the child held; and an executed run is lost to a
\* credential only where the text that replaces one, or is written around it,
\* contains one, or the package gave away what the harness did not hold.
THEOREM ScrubbedNotRefusedHolds == Spec => []ScrubbedNotRefused
<1>1. IInv => ScrubbedNotRefused BY DEF IInv
<1> QED BY <1>1, Invariance, PTL

\* child.py:183-190: a typed refusal reaches the caller as one.
THEOREM RefusalArrivesHolds == Spec => []RefusalArrives
<1>1. IInv => RefusalArrives BY DEF IInv
<1> QED BY <1>1, Invariance, PTL

-----------------------------------------------------------------------------
(* The credential channel by itself.                                        *)

\* Material is neither lost nor made: what is not written is left, what is
\* written is in the pipe or read.
Conserved == writer # "none" => got + pipe + left = size

\* Before the channel is open there is nothing in it; once the run is over the
\* child has let go of it, and once the executor joins so has the executor.
HoldersKnown ==
  /\ chan \in {"open", "refused"} <=> writer = "none"
  /\ writer = "none" => /\ readers = {} /\ reader = "none"
                        /\ left = 0 /\ pipe = 0 /\ got = 0
  /\ chan # "running" => reader # "reading" /\ "child" \notin readers
  /\ reader = "reading" => "child" \in readers
  /\ "child" \in readers => reader = "reading"
  /\ chan \in {"opened", "running", "leave"} => "executor" \in readers
  /\ chan \in {"join", "done"} => "executor" \notin readers

\* The writer ends early only when nobody holds the read end, and the executor
\* holds it for as long as a child may read.
EndIsWhole ==
  /\ writer = "ended" /\ chan \in {"opened", "running"} => left = 0
  /\ reader = "read" => got = size

ChannelIInv == Channel!TypeOK /\ Conserved /\ HoldersKnown /\ EndIsWhole

\* Init establishes the channel's invariant.
LEMMA InitChannelIInv == Channel!Init => ChannelIInv
  BY SizeAssumption DEF Channel!Init, ChannelIInv, Channel!TypeOK, Conserved,
     HoldersKnown, EndIsWhole

\* Every step of the channel keeps its invariant.
LEMMA StepKeepsChannelIInv == ChannelIInv /\ [Channel!Next]_channel => ChannelIInv'
<1> SUFFICES ASSUME ChannelIInv, [Channel!Next]_channel PROVE ChannelIInv' OBVIOUS
<1> USE SizeAssumption DEF ChannelIInv, Channel!TypeOK, Conserved, HoldersKnown,
                           EndIsWhole
<1>0. size \in Nat /\ left \in Nat /\ pipe \in Nat /\ got \in Nat
  OBVIOUS
<1>1. CASE Channel!Open
  <2>1. CASE size > MaxBundle
    BY <1>0, <1>1, <2>1 DEF Channel!Open, Channel!TooLarge
  <2>2. CASE ~(size > MaxBundle)
    <3>1. /\ chan' = "opened" /\ left' = size /\ writer' = "writing"
          /\ readers' = {"executor"} /\ pipe = 0 /\ got = 0 /\ reader = "none"
          /\ UNCHANGED <<size, pipe, reader, got>>
      BY <1>1, <2>2 DEF Channel!Open, Channel!TooLarge
    <3>2. size <= MaxBundle
      BY <1>0, <2>2
    <3> QED BY <1>0, <3>1, <3>2
  <2> QED BY <2>1, <2>2
<1>2. CASE Channel!Spawn BY <1>0, <1>2 DEF Channel!Spawn
<1>3. CASE Channel!PrepareFails BY <1>0, <1>3 DEF Channel!PrepareFails
<1>4. CASE Channel!RunOver BY <1>0, <1>4 DEF Channel!RunOver
<1>5. CASE Channel!CloseReadEnd BY <1>0, <1>5 DEF Channel!CloseReadEnd
<1>6. CASE Channel!Join BY <1>0, <1>6 DEF Channel!Join
<1>7. CASE Channel!WriteBlock BY <1>0, <1>7 DEF Channel!WriteBlock, Channel!WritesOn
<1>8. CASE Channel!WriterStops BY <1>0, <1>8 DEF Channel!WriterStops, Channel!NobodyReads
<1>9. CASE Channel!Read BY <1>0, <1>9 DEF Channel!Read
<1>10. CASE Channel!ReadEnd BY <1>0, <1>10 DEF Channel!ReadEnd
<1>11. CASE Channel!ChildEnds BY <1>0, <1>11 DEF Channel!ChildEnds
<1>12. CASE Channel!Fork BY <1>0, <1>12 DEF Channel!Fork
<1>13. CASE Channel!OrphanEnds BY <1>0, <1>13 DEF Channel!OrphanEnds
<1>14. CASE UNCHANGED channel BY <1>0, <1>14 DEF channel
<1> QED BY <1>1, <1>2, <1>3, <1>4, <1>5, <1>6, <1>7, <1>8, <1>9, <1>10, <1>11,
           <1>12, <1>13, <1>14 DEF Channel!Next, Channel!Executor,
           Channel!Writer, Channel!Child

\* The channel's invariant holds in every state the channel reaches.
THEOREM ChannelInvariance == Channel!Spec => []ChannelIInv
<1>1. ChannelIInv /\ [Channel!Next]_(Channel!vars) => ChannelIInv'
  BY StepKeepsChannelIInv DEF Channel!vars, channel
<1> QED BY <1>1, InitChannelIInv, PTL DEF Channel!Spec

\* secrets.py:53-73 and 113-123: a child that reads to the end has the bundle.
THEOREM WholeBundleHolds == Channel!Spec => []Channel!WholeBundle
<1>1. ChannelIInv => Channel!WholeBundle
  BY DEF ChannelIInv, EndIsWhole, Channel!WholeBundle
<1> QED BY <1>1, ChannelInvariance, PTL

\* secrets.py:105-110: the read end closes before the join.
THEOREM JoinNeverStuckHolds == Channel!Spec => []Channel!JoinNeverStuck
<1>1. ChannelIInv => Channel!JoinNeverStuck
  BY DEF ChannelIInv, Channel!TypeOK, HoldersKnown, Channel!JoinNeverStuck,
     Channel!Blocked
<1> QED BY <1>1, ChannelInvariance, PTL

-----------------------------------------------------------------------------
(* Both together.                                                           *)

\* Where the executor, the harness and the pipe are at the same time: a harness
\* that runs does so inside the channel, and one outside a container reaches the
\* call with the pipe read to its end.
InStep ==
  /\ xpc = "prepare" => chan \in {"open", "opened"}
  /\ HarnessRuns => chan = "running"
  /\ ~container =>
       /\ cpc \in {"parse", "resolve", "secrets"} => reader = "reading"
       /\ cpc = "call" => reader = "read"

JointIInv == IInv /\ ChannelIInv /\ InStep

\* A step of the executor is a step or a stutter of each component.
LEMMA ExecutorStepsBoth ==
  ASSUME JointExecutor \/ StartRun
  PROVE  [Next]_vars /\ [Channel!Next]_channel
<1> USE DEF Next, Executor, Channel!Next, Channel!Executor
<1>1. CASE AdmissionRefused BY <1>1 DEF AdmissionRefused
<1>2. CASE OpenChannel BY <1>2 DEF OpenChannel
<1>3. CASE ContextRefused BY <1>3 DEF ContextRefused
<1>4. CASE BreachRun BY <1>4 DEF BreachRun
<1>5. CASE RunReturns BY <1>5 DEF RunReturns
<1>6. CASE LeaveChannel BY <1>6 DEF LeaveChannel
<1>7. CASE CollectRun BY <1>7 DEF CollectRun
<1>8. CASE StartRun BY <1>8 DEF StartRun
<1> QED BY <1>1, <1>2, <1>3, <1>4, <1>5, <1>6, <1>7, <1>8 DEF JointExecutor

\* So is a step of the child.
LEMMA ChildStepsBoth ==
  ASSUME JointChild
  PROVE  [Next]_vars /\ [Channel!Next]_channel
<1> USE DEF Next, Child, Channel!Next, Channel!Child
<1>1. CASE Drain BY <1>1 DEF Drain
<1>2. CASE Drained BY <1>2 DEF Drained
<1>3. CASE ShimDelivered BY <1>3 DEF ShimDelivered
<1>4. CASE ForkChild BY <1>4 DEF ForkChild
<1>5. CASE OtherChild BY <1>5 DEF OtherChild, LetsGo
<1> QED BY <1>1, <1>2, <1>3, <1>4, <1>5 DEF JointChild

\* Every step of the composition is a step or a stutter of each component.
LEMMA JointStepsBoth ==
  ASSUME [JointNext]_jointVars
  PROVE  [Next]_vars /\ [Channel!Next]_channel
<1>1. CASE WriterThread
  BY <1>1 DEF WriterThread, Channel!Next
<1>2. CASE Orphan
  BY <1>2 DEF Orphan, Channel!Next, Channel!Child
<1>3. CASE UNCHANGED jointVars
  BY <1>3 DEF jointVars
<1> QED BY <1>1, <1>2, <1>3, ExecutorStepsBoth, ChildStepsBoth DEF JointNext

\* So the composition implements both components, by the way it is written.
LEMMA ComponentsKept == JointSpec => Spec /\ Channel!Spec
<1>1. JointInit => Init /\ Channel!Init BY DEF JointInit
<1>2. [JointNext]_jointVars => [Next]_vars /\ [Channel!Next]_(Channel!vars)
  BY JointStepsBoth DEF Channel!vars, channel
<1> QED BY <1>1, <1>2, PTL DEF JointSpec, Spec, Channel!Spec

\* Init establishes the joint invariant.
LEMMA InitJointIInv == JointInit => JointIInv
<1> SUFFICES ASSUME JointInit PROVE JointIInv OBVIOUS
<1>1. IInv /\ ChannelIInv BY InitIInv, InitChannelIInv DEF JointInit
<1>2. InStep BY DEF JointInit, Init, Channel!Init, InStep, HarnessRuns
<1> QED BY <1>1, <1>2 DEF JointIInv

\* The executor starts the child with the pipe to read, and the supervised run is
\* over before it leaves the channel.
LEMMA ExecutorInStep ==
  ASSUME JointIInv, JointExecutor \/ StartRun, container' = container
  PROVE  InStep'
<1> USE DEF JointIInv, InStep, HarnessRuns
<1>1. CASE AdmissionRefused
  BY <1>1 DEF AdmissionRefused, Prepare, IInv, Phases, Outcome, channel
<1>2. CASE OpenChannel
  <2>1. CASE chan' = "refused"
    BY <1>2, <2>1 DEF OpenChannel, Prepare, IInv, Phases, Outcome, Channel!Open
  <2>2. CASE chan' # "refused"
    BY <1>2, <2>2 DEF OpenChannel, vars, IInv, Phases, Outcome, Channel!Open
  <2> QED BY <2>1, <2>2
<1>3. CASE ContextRefused
  BY <1>3 DEF ContextRefused, Prepare, IInv, Phases, Outcome, Channel!PrepareFails
<1>4. CASE StartRun
  BY <1>4 DEF StartRun, Prepare, Channel!Spawn
<1>5. CASE BreachRun
  BY <1>5 DEF BreachRun, Breach, Channel!RunOver
<1>6. CASE RunReturns
  BY <1>6 DEF RunReturns, vars, Channel!RunOver
<1>7. CASE LeaveChannel
  BY <1>7 DEF LeaveChannel, vars, Channel!CloseReadEnd, Channel!Join
<1>8. CASE CollectRun
  BY <1>8 DEF CollectRun, Collect, channel
<1> QED BY <1>1, <1>2, <1>3, <1>4, <1>5, <1>6, <1>7, <1>8 DEF JointExecutor

\* What the harness and the provider do beside the pipe: a process that goes on
\* keeps its end of it, one that ends is no longer in step with anything.
LEMMA OtherChildGoesOn ==
  ASSUME JointIInv, OtherChild
  PROVE  /\ xpc' = xpc /\ cpc \notin {"off", "gone"}
         /\ cpc' # "gone" => UNCHANGED channel
         /\ chan' = chan
         /\ cpc' \in {"resolve", "secrets"} => cpc \in {"parse", "resolve", "secrets"}
         /\ cpc' = "call" => cpc = "call"
         /\ cpc' # "parse" \/ cpc = "parse"
<1> USE DEF JointIInv, HarnessRuns, Raise, End, Harness, executor
<1>1. chan' = chan /\ (cpc' # "gone" => UNCHANGED channel)
  BY DEF OtherChild, LetsGo, Channel!ChildEnds, channel
<1>2. CASE Parse BY <1>1, <1>2 DEF Parse
<1>3. CASE Resolve BY <1>1, <1>3 DEF Resolve
<1>4. CASE Build BY <1>1, <1>4 DEF Build
<1>5. CASE Handle BY <1>1, <1>5 DEF Handle
<1>6. CASE Write BY <1>1, <1>6 DEF Write
<1>7. CASE Provider
  <2>1. CASE LeaveThread BY <1>1, <2>1 DEF LeaveThread
  <2>2. ASSUME NEW e \in Endpoints, Contact(e) \/ ThreadContact(e)
        PROVE  /\ xpc' = xpc /\ cpc' = cpc /\ cpc \notin {"off", "gone"}
    BY <2>2 DEF Contact, ThreadContact
  <2>3. ASSUME NEW e \in Endings, ProviderEnds(e)
        PROVE  /\ xpc' = xpc /\ cpc = "call" /\ cpc' \in {"build", "handle", "gone"}
    BY <2>3 DEF ProviderEnds
  <2> QED BY <1>1, <1>7, <2>1, <2>2, <2>3 DEF Provider
<1> QED BY <1>2, <1>3, <1>4, <1>5, <1>6, <1>7 DEF OtherChild

\* The child keeps the pipe until it has drained it, or ends.
LEMMA ChildInStep ==
  ASSUME JointIInv, JointChild, container' = container
  PROVE  InStep'
<1> USE DEF JointIInv, InStep, HarnessRuns
<1>1. CASE Drain BY <1>1 DEF Drain, vars, Channel!Read
<1>2. CASE Drained
  BY <1>2 DEF Drained, ReadSecrets, Raise, End, Harness, executor, Channel!ReadEnd
<1>3. CASE ShimDelivered
  BY <1>3 DEF ShimDelivered, ReadSecrets, Raise, End, Harness, executor, channel
<1>4. CASE ForkChild BY <1>4 DEF ForkChild, vars, Channel!Fork
<1>5. CASE OtherChild
  <2>1. CASE cpc' = "gone"
    BY <1>5, <2>1, OtherChildGoesOn
  <2>2. CASE cpc' # "gone"
    <3>1. reader' = reader /\ chan' = chan
      BY <1>5, <2>2, OtherChildGoesOn DEF channel
    <3> QED BY <1>5, <2>2, <3>1, OtherChildGoesOn
  <2> QED BY <2>1, <2>2
<1> QED BY <1>1, <1>2, <1>3, <1>4, <1>5 DEF JointChild

\* Every step of the composition keeps the joint invariant.
LEMMA StepKeepsJointIInv == JointIInv /\ [JointNext]_jointVars => JointIInv'
<1> SUFFICES ASSUME JointIInv, [JointNext]_jointVars PROVE JointIInv' OBVIOUS
<1>1. IInv' /\ ChannelIInv'
  BY JointStepsBoth, StepKeepsIInv, StepKeepsChannelIInv DEF JointIInv
<1>2. InStep'
  <2>1. CASE JointExecutor \/ StartRun
    BY <2>1, ExecutorInStep DEF JointNext, jointVars
  <2>2. CASE JointChild
    BY <2>2, ChildInStep DEF JointNext, jointVars
  <2>3. CASE WriterThread
    BY <2>3 DEF WriterThread, Channel!Writer, Channel!WriteBlock, Channel!WriterStops,
       vars, JointIInv, InStep, HarnessRuns, JointNext, jointVars
  <2>4. CASE Orphan
    BY <2>4 DEF Orphan, Channel!OrphanEnds, vars, JointIInv, InStep, HarnessRuns,
       JointNext, jointVars
  <2>5. CASE UNCHANGED jointVars
    BY <2>5 DEF jointVars, vars, channel, JointIInv, InStep, HarnessRuns
  <2> QED BY <2>1, <2>2, <2>3, <2>4, <2>5 DEF JointNext
<1> QED BY <1>1, <1>2 DEF JointIInv

\* The joint invariant holds in every reachable state.
THEOREM JointInvariance == JointSpec => []JointIInv
  BY InitJointIInv, StepKeepsJointIInv, PTL DEF JointSpec

\* secrets.py:113-123, child.py:134-139: outside a container the provider is
\* called with the whole bundle read, and a reader that reached the end has it.
THEOREM BundleReachesProviderHolds == JointSpec => []BundleReachesProvider
<1>1. JointIInv => BundleReachesProvider
  BY DEF JointIInv, InStep, ChannelIInv, EndIsWhole, BundleReachesProvider,
         Channel!WholeBundle
<1> QED BY <1>1, JointInvariance, PTL

\* What is proved of an invocation by itself holds of one inside its channel, and
\* the channel's own promise holds around an invocation.
THEOREM OutcomesHoldInTheChannel ==
  JointSpec => []/\ EgressHeld /\ OkIsWhole
                 /\ ScrubbedNotRefused /\ RefusalArrives
                 /\ Channel!JoinNeverStuck
<1> QED BY ComponentsKept, EgressHeldHolds, OkIsWholeHolds, ScrubbedNotRefusedHolds,
           RefusalArrivesHolds, JoinNeverStuckHolds, PTL
=============================================================================
