----------------------------- MODULE WebAdapters -----------------------------
(***************************************************************************)
(* web.fetch and search.web around the transport: what each declines for   *)
(* the input alone, the client it makes, and what it does with the answer. *)
(*                                                                         *)
(* The interfaces' classifiers say which bucket an input is in, and the    *)
(* package's manifest which buckets are claimed; both are here because the *)
(* adapters promise to decline exactly the rest.                           *)
(***************************************************************************)
EXTENDS WebTransport, Integers, Sequences

CONSTANTS
  FetchInputs, SearchInputs,  \* run inputs, after the checks of their types
  RecordedHosts,              \* fixture.invalid
  Light, Medium, MaxResponse, \* LIGHT_CEILING, MEDIUM_CEILING, MAX_RESPONSE_BYTES
  SearchCap,                  \* search.web's RESPONSE_CAP_BYTES
  Answers                     \* result lists of an instance: the age of each in hours

Undated == 1000000   \* a result with no date, or none that parses
NoInput == [adapter |-> "none"]
NoLimits == [limit |-> 0, maxAge |-> 0]

Formats == {"html", "json", "csv", "text", "bytes"}
Credentials == {"none", "delivered", "undelivered", "unusable"}

ASSUME WebAssumption ==
  /\ Light \in Nat \ {0} /\ Medium \in Nat /\ Light <= Medium
  /\ MaxResponse \in Nat /\ Medium <= MaxResponse /\ Caps = 1..MaxResponse
  /\ SearchCap \in Caps
  /\ FetchInputs \subseteq
       [adapter : {"fetch"}, url : Urls, format : Formats \cup {"auto"},
        suffix : {"none", "binary", "structured"}, api : BOOLEAN, render : BOOLEAN,
        max : Int, credential : Credentials]
  /\ SearchInputs \subseteq
       [adapter : {"search"}, url : Urls, limit : Nat, maxAge : Nat, declared : BOOLEAN,
        credential : {"none", "delivered"}]
  /\ Answers \subseteq Seq(Nat)

VARIABLES
  stage,    \* the adapter: "parse", "get" or "ended"
  input,    \* the run's input, while it is parsed
  format,   \* web.fetch: expected_format
  media,    \* web.fetch: the format the answer came in
  limits,   \* search.web: limit and max_age_hours
  range,    \* search.web: the time_range it submits
  answer,   \* search.web: the instance's list
  listed,   \* search.web: positions of the results it returns
  dropped,  \* search.web: dropped_by_recency
  derived,  \* web.fetch: the kind of the derived material
  result    \* "none", "ok", "refused", "failed" or "raised"

adapter == <<stage, input, format, media, limits, range, answer, listed, dropped, derived, result>>
allVars == <<vars, adapter>>

WebInit ==
  /\ Init
  /\ stage = "parse" /\ input \in FetchInputs \cup SearchInputs
  /\ format = "none" /\ media = "none" /\ limits = NoLimits /\ range = "none" /\ answer = <<>>
  /\ listed = <<>> /\ dropped = 0 /\ derived = "none" /\ result = "none"

-----------------------------------------------------------------------------
(* Buckets.                                                                 *)

WeightClass(n) == IF n <= Light THEN "light" ELSE IF n <= Medium THEN "medium" ELSE "heavy"

\* classify_web_fetch; access is claimed whole and left out.
SourceKind_SuffixFirst(i) ==
  IF i.suffix = "structured" \/ i.api THEN "api_json"
  ELSE IF i.render THEN "js_rendered"
  ELSE IF i.format = "bytes" \/ i.suffix = "binary" THEN "binary"
  ELSE IF i.format \in {"json", "csv"} THEN "api_json" ELSE "static_html"
SourceKind(i) ==
  IF i.render THEN "js_rendered"
  ELSE IF i.format = "bytes" \/ i.suffix = "binary" THEN "binary"
  ELSE IF i.format \in {"json", "csv"} \/ i.suffix = "structured" \/ i.api THEN "api_json"
  ELSE "static_html"

\* classify_search; query_form is claimed whole and left out.
Recency(i) == IF i.maxAge = 0 THEN "any_time"
              ELSE IF i.maxAge <= 24 THEN "realtime"
              ELSE IF i.maxAge <= 24 * 90 THEN "recent" ELSE "any_time"
Depth(i) == IF i.limit <= 10 THEN "shallow" ELSE IF i.limit <= 50 THEN "standard" ELSE "deep"

Bucket(i) == IF i.adapter = "fetch" THEN <<SourceKind(i), WeightClass(i.max)>>
             ELSE <<Recency(i), Depth(i)>>

\* manifest.yaml: declared_input_buckets, "*" for any class.
FetchSelectors == {<<"static_html", "light">>, <<"static_html", "medium">>, <<"api_json", "*">>}
SearchSelectors == {<<"any_time", "shallow">>, <<"any_time", "standard">>, <<"recent", "shallow">>}
Selectors(i) == IF i.adapter = "fetch" THEN FetchSelectors ELSE SearchSelectors

\* BucketSelector.matches
Matches(selector, bucket) == \A d \in 1..2 : selector[d] \in {"*", bucket[d]}

-----------------------------------------------------------------------------
(* The input.                                                               *)

AdapterOnly == UNCHANGED vars

\* _Request.parse: what is malformed, and a credential that was not delivered or
\* is not a header value.
FetchMalformed(i) ==
  \/ i.url.scheme \notin {"http", "https"}
  \/ i.max \notin 1..MaxResponse
  \/ i.credential \in {"undelivered", "unusable"}

\* The render check, then _decline_unserved.
FetchUnserved(i) == \/ i.render
                    \/ SourceKind(i) = "binary"
                    \/ SourceKind(i) = "static_html" /\ i.max > Medium

SearchMalformed(i) == i.limit = 0

SearchUnserved(i) == \/ i.maxAge > 0 /\ i.maxAge <= 24
                     \/ i.limit > 50
                     \/ i.maxAge > 0 /\ i.maxAge <= 24 * 90 /\ i.limit > 10

Malformed(i) == IF i.adapter = "fetch" THEN FetchMalformed(i) ELSE SearchMalformed(i)
Unserved(i) == IF i.adapter = "fetch" THEN FetchUnserved(i) ELSE SearchUnserved(i)

\* The instance is among the declared origins, or the configuration may name any.
UndeclaredInstance(i) == i.adapter = "search" /\ ~i.declared

\* What is declined for the input alone is declined before a request is made.
Decline ==
  /\ stage = "parse" /\ (Malformed(input) \/ Unserved(input) \/ UndeclaredInstance(input))
  /\ stage' = "ended" /\ result' = "refused"
  /\ UNCHANGED <<input, format, media, limits, range, answer, listed, dropped, derived>> /\ AdapterOnly

\* guarded_client_factory and default_client_factory.
Via(i) == IF i.url.host \in RecordedHosts THEN "recording"
          ELSE IF i.adapter = "fetch" THEN "guarded" ELSE "open"

TimeRange(maxAge) == IF maxAge = 0 THEN "none"
                     ELSE IF maxAge <= 24 THEN "day"
                     ELSE IF maxAge <= 24 * 30 THEN "month" ELSE "year"

Request ==
  /\ stage = "parse" /\ ~Malformed(input) /\ ~Unserved(input) /\ ~UndeclaredInstance(input)
  /\ Begin([url |-> input.url, headers |-> input.credential = "delivered", via |-> Via(input),
            cap |-> IF input.adapter = "fetch" THEN input.max ELSE SearchCap])
  /\ IF input.adapter = "fetch"
     THEN format' = input.format /\ UNCHANGED <<limits, range>>
     ELSE /\ limits' = [limit |-> input.limit, maxAge |-> input.maxAge]
          /\ range' = TimeRange(input.maxAge) /\ UNCHANGED format
  /\ stage' = "get" /\ input' = NoInput
  /\ UNCHANGED <<media, answer, listed, dropped, derived, result>>

-----------------------------------------------------------------------------
(* The answer.                                                              *)

Get1 == stage = "get" /\ (Get \/ Reply) /\ UNCHANGED adapter

End(how) == stage' = "ended" /\ result' = how
IsFetch == format # "none"

\* A refusal and a body over the cap are the adapter's to answer in web.fetch;
\* in search.web, and whatever the network raises in both, they leave it.
Unanswered ==
  /\ stage = "get" /\ pc \in {"refused", "raised", "too_large"}
  /\ End(IF pc = "refused" \/ (pc = "too_large" /\ IsFetch) THEN "refused" ELSE "raised")
  /\ UNCHANGED <<input, format, media, limits, range, answer, listed, dropped, derived>> /\ AdapterOnly

NotSuccess ==
  /\ stage = "get" /\ pc = "done" /\ status # "success"
  /\ End("failed")
  /\ UNCHANGED <<input, format, media, limits, range, answer, listed, dropped, derived>> /\ AdapterOnly

\* validate_format: "auto" takes what came.
Settled(actual) == IF format = "auto" THEN actual ELSE format
FormatAgrees_Always(actual) == TRUE
FormatAgrees(actual) == format \in {"auto", "bytes", actual}

\* Extraction is for documents: anything but html is carried through.
Extracts(actual) == Settled(actual) = "html"

FetchAnswers ==
  /\ stage = "get" /\ pc = "done" /\ status = "success" /\ IsFetch
  /\ \E actual \in Formats, wellFormed, extract, hasText \in BOOLEAN :
       /\ format' = Settled(actual) /\ media' = actual
       /\ \/ /\ ~FormatAgrees(actual) \/ (Settled(actual) \in {"json", "csv"} /\ ~wellFormed)
             /\ End("failed") /\ UNCHANGED derived
          \/ /\ FormatAgrees(actual) /\ (Settled(actual) \in {"json", "csv"} => wellFormed)
             /\ IF ~extract THEN End("ok") /\ UNCHANGED derived
                ELSE IF ~Extracts(actual) THEN End("ok") /\ derived' = "verbatim"
                ELSE IF hasText THEN End("ok") /\ derived' = "markdown"
                ELSE End("refused") /\ UNCHANGED derived
  /\ UNCHANGED <<input, limits, range, answer, listed, dropped>> /\ AdapterOnly

\* _filter_by_recency keeps what has no date.
Fresh(age) == limits.maxAge = 0 \/ age = Undated \/ age <= limits.maxAge
FirstOf(s, n) == SubSeq(s, 1, IF n <= Len(s) THEN n ELSE Len(s))

\* Its loop: the places of what it has kept of the first n.
Kept(list) ==
  LET kept[n \in 0..Len(list)] == IF n = 0 THEN <<>>
                                  ELSE IF Fresh(list[n]) THEN Append(kept[n - 1], n) ELSE kept[n - 1]
  IN kept

Listed(list) == FirstOf(Kept(list)[Len(list)], limits.limit)
Dropped(list) == Cardinality({i \in DOMAIN list : ~Fresh(list[i])})

\* An answer that is no JSON object fails; an as_of that is no instant refuses.
SearchAnswers ==
  /\ stage = "get" /\ pc = "done" /\ status = "success" /\ ~IsFetch
  /\ \/ \E list \in Answers :
          /\ answer' = list /\ listed' = Listed(list) /\ dropped' = Dropped(list) /\ End("ok")
     \/ \E how \in {"failed", "refused"} : End(how) /\ UNCHANGED <<answer, listed, dropped>>
  /\ UNCHANGED <<input, format, media, limits, range, derived>> /\ AdapterOnly

WebNext == Decline \/ Request \/ Get1 \/ Unanswered \/ NotSuccess \/ FetchAnswers \/ SearchAnswers

\* A wait for the far side has no end of its own: the timeout is per read of the
\* socket, and interim responses, or bytes that decode to nothing, are reads that
\* bring the run no further.
Waits == stage = "get" /\ pc \in {"answer", "read"} /\ req.via # "recording"

\* The adapter's own steps are taken, and a connection's attempt ends, in an
\* answer awaited or in the timeout; nothing is assumed of what a server sends.
WebSpec == WebInit /\ [][WebNext]_allVars
WebFairSpec == WebSpec /\ WF_allVars(WebNext /\ ~Waits)

-----------------------------------------------------------------------------
(* Properties.                                                              *)

\* "what is refused here is exactly what the manifest leaves unclaimed": of the
\* inputs that are well formed, an adapter serves those in a claimed bucket.
ServesClaimed ==
  stage = "parse" /\ ~Malformed(input) =>
    (Unserved(input) <=> \A s \in Selectors(input) : ~Matches(s, Bucket(input)))

\* A fetch that succeeds has read a successful answer to its end, within the cap,
\* has the format the run asked for or takes it as bytes, and has extracted from
\* nothing but a page.
FetchedWhole ==
  result = "ok" /\ IsFetch =>
    /\ pc = "done" /\ status = "success" /\ body <= req.cap
    /\ format \in {media, "bytes"}
    /\ derived = "markdown" => media = "html"

\* The results returned are the first of the fresh ones, in the order the
\* instance gave them, as many as the limit allows; no fresh one is passed over.
ListedAreFreshest ==
  result = "ok" /\ ~IsFetch =>
    /\ \A k \in DOMAIN listed : Fresh(answer[listed[k]])
    /\ \A k, l \in DOMAIN listed : k < l => listed[k] < listed[l]
    /\ \A i \in DOMAIN answer :
         Fresh(answer[i]) /\ (\A k \in DOMAIN listed : listed[k] # i)
           => Len(listed) = limits.limit /\ listed[Len(listed)] < i
    /\ dropped + Cardinality({i \in DOMAIN answer : Fresh(answer[i])}) = Len(answer)

\* A run that succeeds returns what the transport read, or the best of it.
ResultIsWhole == FetchedWhole /\ ListedAreFreshest

\* "Submitting the narrower range would lose results the run asked for".
HoursOf == [day |-> 24, month |-> 24 * 30, year |-> 24 * 365]
RangeCoversBound == range # "none" => limits.maxAge <= HoursOf[range]

\* Every run of an adapter ends, whatever the chain does and however the body
\* trickles, unless it is left waiting for one and the same answer for good.
RunsEnd == <>(stage = "ended") \/ (\E n \in 1..MaxRedirects + 1 : <>[](Waits /\ asked = n))
=============================================================================
