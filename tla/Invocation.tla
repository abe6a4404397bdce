----------------------------- MODULE Invocation -----------------------------
(***************************************************************************)
(* One invocation, from execute.invoke's admission of the payload to its   *)
(* outcome: the executor, the harness that runs in the child (child.main)  *)
(* and the provider the harness calls.                                     *)
(*                                                                         *)
(* A provider is anything that can be called.  It contacts endpoints while *)
(* it runs, may leave a thread behind that goes on contacting, and ends as *)
(* code can end: a result, something that is not one, a typed refusal, an  *)
(* exception, or an exit that no "except Exception" sees.  A payload is    *)
(* described by what the protocol tells apart: whether the part its status *)
(* calls for is there, whether canonical JSON has an encoding for it, and  *)
(* which credentials of the run are found in it.                           *)
(*                                                                         *)
(* A credential is found wherever its material is, and the program's own   *)
(* text may hold it: a placeholder put in the place of another, or the     *)
(* field names, statuses and codes an envelope is written in.              *)
(***************************************************************************)
EXTENDS FiniteSets

CONSTANTS
  Endpoints, Declared,  \* what can be contacted, what the manifest declares
  Dynamic,              \* the declaration holds a dynamic form
  Refs,                 \* the credentials of the run
  Spelled,              \* those a placeholder can spell, with what surrounds it
  Words,                \* by status, those the envelope's own words contain
  None                  \* no envelope

Statuses == {"ok", "refused", "error"}
Envelopes == [run : {"this", "unknown"}, status : Statuses,
              observed : SUBSET Endpoints, said : SUBSET Refs]

ASSUME DeclaredAssumption == Declared \subseteq Endpoints /\ Dynamic \in BOOLEAN
ASSUME CredentialTextAssumption == Spelled \subseteq Refs /\ Words \in [Statuses -> SUBSET Refs]
ASSUME NoneAssumption == None \notin Envelopes

\* How the harness's try block ended.  "status" and "complete" concern results.
Endings == [how : {"running", "result", "other", "refusal", "exception", "exit"},
            status : Statuses, complete : BOOLEAN, carried : BOOLEAN, said : SUBSET Refs]

VARIABLES
  xpc, code,   \* the executor, and why it refused
  cpc,         \* the harness
  runId,       \* run_id of child.main
  parsed,      \* history: parse_run_context has returned
  secrets,     \* the refs the harness has material for
  recorded,    \* EgressRecorder.contacted
  ending,      \* how the try block ended
  draft,       \* the envelope before it is redacted
  envelope,    \* the envelope on the child's standard output
  noise,       \* the credentials found in the package's stderr
  stderr,      \* those found in the text the executor keeps of it
  thread,      \* the provider left a thread running
  called,      \* history: endpoints contacted while the provider was called
  aside        \* history: endpoints contacted by its thread

vars == <<xpc, code, cpc, runId, parsed, secrets, recorded, ending, draft, envelope,
          noise, stderr, thread, called, aside>>
executor == <<xpc, code, stderr>>
results == <<draft, envelope>>
contacts == <<recorded, called, aside>>

End(how, carried, said) ==
  [how |-> how, status |-> "error", complete |-> TRUE, carried |-> carried,
   said |-> said]

Init ==
  /\ xpc = "prepare" /\ code = "none"
  /\ cpc = "off" /\ runId = "unknown" /\ parsed = FALSE /\ secrets = {}
  /\ recorded = {} /\ called = {} /\ aside = {}
  /\ ending = End("running", TRUE, {})
  /\ draft = None /\ envelope = None
  /\ noise = {} /\ stderr = {} /\ thread = FALSE

Ended == xpc \in {"accepted", "refused"}
HarnessRuns == cpc \notin {"off", "gone"}

-----------------------------------------------------------------------------
(* The executor, before the child.                                          *)

\* The payload fits a declared bucket, the credentials fit their channel, and
\* the serialised context carries none; otherwise the child is never started.
Prepare ==
  /\ xpc = "prepare"
  /\ \/ /\ \E c \in {"bucket"} \cup (IF Refs = {} THEN {} ELSE {"bundle", "secret_leak"}) :
             code' = c
        /\ xpc' = "refused" /\ UNCHANGED cpc
     \/ xpc' = "run" /\ cpc' = "parse" /\ UNCHANGED code
  /\ UNCHANGED <<runId, parsed, secrets, contacts, ending, results, noise, stderr, thread>>

-----------------------------------------------------------------------------
(* The harness, up to the call.                                             *)

Harness == UNCHANGED <<executor, thread>>

\* The try block raises: a refusal or an exception is handled, and an exit (any
\* other BaseException) leaves main with nothing written.
Raise(e) ==
  /\ ending' = e
  /\ cpc' = IF e.how = "exit" THEN "gone" ELSE "handle"

Parse_LateRunId ==
  /\ cpc = "parse" /\ parsed' \in BOOLEAN
  /\ \/ parsed' /\ runId' = "this" /\ cpc' = "resolve" /\ UNCHANGED ending
     \/ UNCHANGED runId /\ Raise(End("refusal", TRUE, {}))
  /\ UNCHANGED <<secrets, contacts, results, noise>> /\ Harness

\* The run's id is known once the context parses, and before its protocol major
\* is looked at.
Parse ==
  /\ cpc = "parse" /\ parsed' \in BOOLEAN
  /\ runId' = IF parsed' THEN "this" ELSE runId
  /\ \/ parsed' /\ cpc' = "resolve" /\ UNCHANGED ending
     \/ Raise(End("refusal", TRUE, {}))
  /\ UNCHANGED <<secrets, contacts, results, noise>> /\ Harness

\* Importing the module and instantiating the class run the package's code,
\* which may know a credential before it is handed one.
Resolve ==
  /\ cpc = "resolve"
  /\ noise' \in SUBSET Refs
  /\ \/ cpc' = "secrets" /\ UNCHANGED ending
     \/ \E how \in {"refusal", "exception", "exit"}, said \in SUBSET Refs :
          Raise(End(how, TRUE, said))
  /\ UNCHANGED <<runId, parsed, secrets, contacts, results>> /\ Harness

MissingRefs(got) == got # Refs

\* The bundle may be absent, malformed or short of a ref; the descriptor may
\* not be there at all.
ReadSecrets ==
  /\ cpc = "secrets"
  /\ \/ \E got \in SUBSET Refs :
          /\ secrets' = got
          /\ IF MissingRefs(got)
             THEN Raise(End("refusal", TRUE, {}))
             ELSE cpc' = "call" /\ UNCHANGED ending
     \/ /\ Refs # {}
        /\ \E how \in {"refusal", "exception"} : Raise(End(how, TRUE, {}))
        /\ UNCHANGED secrets
  /\ UNCHANGED <<runId, parsed, contacts, results, noise>> /\ Harness

-----------------------------------------------------------------------------
(* The provider.                                                            *)

\* It records an endpoint with the recorder it was given and contacts it.
Contact(e) ==
  /\ cpc = "call"
  /\ recorded' = recorded \cup {e} /\ called' = called \cup {e}
  /\ UNCHANGED <<executor, cpc, runId, parsed, secrets, ending, results, noise, thread, aside>>

LeaveThread ==
  /\ cpc = "call" /\ ~thread /\ thread' = TRUE
  /\ UNCHANGED <<executor, cpc, runId, parsed, secrets, contacts, ending, results, noise>>

ThreadContact(e) ==
  /\ thread /\ HarnessRuns
  /\ recorded' = recorded \cup {e} /\ aside' = aside \cup {e}
  /\ UNCHANGED <<executor, cpc, runId, parsed, secrets, ending, results, noise, thread, called>>

\* A refusal's detail is the provider's, and may have no encoding; what is not a
\* result is refused by the harness itself.
ProviderEnds(e) ==
  /\ cpc = "call" /\ e.how # "running"
  /\ e.how # "result" => e.status = "error" /\ e.complete
  /\ e.how \notin {"result", "refusal"} => e.carried
  /\ IF e.how = "result" THEN ending' = e /\ cpc' = "build"
     ELSE IF e.how = "other" THEN Raise(End("refusal", TRUE, {}))
     ELSE Raise(e)
  /\ \E more \in SUBSET Refs : noise' = noise \cup more
  /\ UNCHANGED <<runId, parsed, secrets, contacts, results>> /\ Harness

-----------------------------------------------------------------------------
(* The harness, after the call.                                             *)

Envelope(status, said) ==
  [run |-> runId, status |-> status, observed |-> recorded, said |-> said]

Encodable(e) == e.carried

\* ResultEnvelope validates what it is built from: a missing part is an ordinary
\* exception, a value with no encoding is a typed refusal.
Build ==
  /\ cpc = "build"
  /\ IF ~ending.complete
     THEN Raise(End("exception", TRUE, ending.said)) /\ UNCHANGED draft
     ELSE IF ~Encodable(ending)
     THEN Raise(End("refusal", TRUE, ending.said)) /\ UNCHANGED draft
     ELSE /\ draft' = Envelope(ending.status, ending.said)
          /\ cpc' = "write" /\ UNCHANGED ending
  /\ UNCHANGED <<runId, parsed, secrets, contacts, envelope, noise>> /\ Harness

HandlerTrace_Empty == {}
\* Both handlers read the recorder again.
HandlerTrace == recorded


\* The refusal handler builds an envelope too, from a detail nobody has checked;
\* what that raises is not caught.
Handle ==
  /\ cpc = "handle"
  /\ IF ending.how = "refusal" /\ ~ending.carried
     THEN cpc' = "gone" /\ UNCHANGED draft
     ELSE /\ draft' = [Envelope(IF ending.how = "refusal" THEN "refused" ELSE "error",
                                ending.said) EXCEPT !.observed = HandlerTrace]
          /\ cpc' = "write"
  /\ UNCHANGED <<runId, parsed, secrets, contacts, ending, envelope, noise>> /\ Harness

\* What a text that holds "found" may hold after a Redactor with the material of
\* "held" has been over it: of what is held, only what its placeholders spell.
Redactions(found, held) ==
  IF found \cap held = {} THEN {found}
  ELSE {stays \in SUBSET (found \cup Spelled) : stays \cap held \subseteq Spelled}

Redacted_OkOnly(d) ==
  IF d.status # "ok" THEN {d}
  ELSE {[d EXCEPT !.said = stays] : stays \in Redactions(d.said, secrets)}
\* The whole document is scrubbed, whatever its status, with what the harness
\* holds: field names and codes too, and what is left then is no envelope.
Redacted(d) ==
  IF Words[d.status] \cap secrets # {} THEN {None}
  ELSE {[d EXCEPT !.said = stays] : stays \in Redactions(d.said, secrets)}

Write ==
  /\ cpc = "write"
  /\ envelope' \in Redacted(draft)
  /\ cpc' = "gone"
  /\ UNCHANGED <<runId, parsed, secrets, contacts, ending, draft, noise>> /\ Harness

-----------------------------------------------------------------------------
(* The executor, after the child.                                           *)

\* run_with_budget kills the child; BudgetedRun has the detail.
Breach ==
  /\ xpc = "run" /\ HarnessRuns
  /\ cpc' = "gone" /\ xpc' = "refused" /\ code' = "budget"
  /\ UNCHANGED <<runId, parsed, secrets, contacts, ending, results, noise, stderr, thread>>

Undeclared(observed) == IF Dynamic THEN {} ELSE observed \ Declared

\* The text of stderr is scrubbed with every credential before it is looked at
\* and kept.
ScrubbedText(n) == Redactions(n, Refs)

\* The credentials found in what an outcome would keep.
Leaks(env, text) == env.said \cup Words[env.status] \cup text

\* No envelope, or one of another run; a credential that is found in it or in
\* stderr; an endpoint outside the declaration.
Verdict(env, text) ==
  IF env = None THEN "protocol"
  ELSE IF env.run # "this" THEN "protocol"
  ELSE IF Leaks(env, text) # {} THEN "secret_leak"
  ELSE IF Undeclared(env.observed) # {} THEN "undeclared_egress"
  ELSE "none"

Collect ==
  /\ xpc = "run" /\ cpc = "gone"
  /\ stderr' \in ScrubbedText(noise)
  /\ code' = Verdict(envelope, stderr')
  /\ xpc' = IF code' = "none" THEN "accepted" ELSE "refused"
  /\ UNCHANGED <<cpc, runId, parsed, secrets, contacts, ending, results, noise, thread>>

-----------------------------------------------------------------------------
Executor == Prepare \/ Breach \/ Collect
Child == Parse \/ Resolve \/ ReadSecrets \/ Build \/ Handle \/ Write
Provider == \/ LeaveThread
            \/ \E e \in Endpoints : Contact(e) \/ ThreadContact(e)
            \/ \E e \in Endings : ProviderEnds(e)

Next == Executor \/ Child \/ Provider

Spec == Init /\ [][Next]_vars

-----------------------------------------------------------------------------
(* Properties.                                                              *)

TypeOK ==
  /\ xpc \in {"prepare", "run", "accepted", "refused"}
  /\ code \in {"none", "bucket", "bundle", "secret_leak", "budget", "protocol",
               "undeclared_egress"}
  /\ cpc \in {"off", "parse", "resolve", "secrets", "call", "build", "handle",
              "write", "gone"}
  /\ runId \in {"this", "unknown"} /\ parsed \in BOOLEAN
  /\ secrets \subseteq Refs
  /\ recorded \subseteq Endpoints /\ called \subseteq Endpoints /\ aside \subseteq Endpoints
  /\ ending \in Endings
  /\ draft \in Envelopes \cup {None} /\ envelope \in Envelopes \cup {None}
  /\ noise \subseteq Refs /\ stderr \subseteq Refs /\ thread \in BOOLEAN
  /\ cpc = "write" => draft # None

\* child.py:117: an outcome is accepted only if nothing the provider contacted
\* while it was called is outside the declaration, in whichever way it ended.
EgressHeld == xpc = "accepted" /\ ~Dynamic => called \subseteq Declared

\* An accepted ok is what the provider returned, complete and encodable, from a
\* call that had every credential, and an ok it returned so is not reported as
\* something else.
OkIsWhole ==
  xpc = "accepted" =>
    (envelope.status = "ok" <=> /\ ending.how = "result" /\ ending.status = "ok"
                                /\ ending.complete /\ ending.carried
                                /\ secrets = Refs)

\* Credentials are scrubbed, and a run is thrown away for one only where the code
\* cannot help it.  Nothing of an accepted outcome holds a credential; a run that
\* was executed is refused for a leak only of credentials that a placeholder
\* spells, that the envelope's own words contain, or that the package gave away
\* while the harness did not hold them; and an envelope that was built reaches
\* the executor malformed only if the harness held a credential of its words.
ScrubbedNotRefused ==
  /\ xpc = "accepted" => Leaks(envelope, stderr) = {}
  /\ code = "secret_leak" /\ cpc = "gone" =>
       Leaks(envelope, stderr)
         \subseteq Spelled \cup Words[envelope.status] \cup (ending.said \ secrets)
  /\ code = "protocol" /\ runId = "this" /\ draft # None =>
       Words[draft.status] \cap secrets # {}

\* The text "found" is clean once what is held has been scrubbed out of it.
Vanishes(found, held) == found = {} \/ (found \subseteq held /\ Spelled = {})

\* A typed refusal reaches the caller as one: raised anywhere after the context
\* was parsed, with a detail that has an encoding, by a provider that kept to
\* its declaration and its budget, unless scrubbing leaves a credential.
RefusalArrives ==
  /\ Ended /\ ending.how = "refusal" /\ ending.carried
  /\ cpc = "gone" /\ code # "budget"
  /\ parsed /\ recorded \subseteq Declared
  /\ Words["refused"] = {}
  /\ Vanishes(ending.said, secrets) /\ Vanishes(noise, Refs)
  => xpc = "accepted" /\ envelope.status = "refused"

\* child.py:117 "Constructed before the try, and read on EVERY exit path": a
\* provider that contacted something and ends by itself, in whichever way,
\* leaves a trace for the executor to compare.
EgressReadOnEveryExit ==
  Ended /\ called # {} /\ code # "budget" => envelope # None
=============================================================================
