-------------------------- MODULE WebTransportProofs --------------------------
(***************************************************************************)
(* Where a run of the web plane connects, what it carries there, what it   *)
(* records, when it stops following and how much it keeps, proved for any  *)
(* urls, resolver answers, redirects, limits and bodies.                   *)
(*                                                                         *)
(* Every step of an adapter is one of the client's or leaves the client    *)
(* alone (AdapterSteps), so the invariants are shown of the client's. What *)
(* the adapters return is shown last: that of search.web by induction on   *)
(* the results of its list.                                                *)
(***************************************************************************)
EXTENDS WebAdapters, FiniteSetTheorems, WellFoundedInduction, TLAPS

Requests == [url : Urls, headers : BOOLEAN, via : Vias, cap : Caps]

ClientStep == \/ \E r \in Requests : Begin(r)
              \/ Vet \/ NoVet \/ Send \/ Redirected \/ Answered \/ ReadChunk \/ ReadEnd \/ Lost

\* Before the request there is only the input.
Waiting == stage = "parse" => pc = "idle" /\ input \in FetchInputs \cup SearchInputs

\* The input's url, limit and credential make a request of the client.
LEMMA InputsAreRequests ==
  ASSUME NEW i \in FetchInputs \cup SearchInputs, ~Malformed(i)
  PROVE  [url |-> i.url, headers |-> i.credential = "delivered", via |-> Via(i),
          cap |-> IF i.adapter = "fetch" THEN i.max ELSE SearchCap] \in Requests
<1>1. i.url \in Urls
  BY WebAssumption
<1>2. Via(i) \in Vias
  BY DEF Via, Vias
<1>3. (IF i.adapter = "fetch" THEN i.max ELSE SearchCap) \in Caps
  <2>1. CASE i \in FetchInputs
    BY <2>1, WebAssumption DEF Malformed, FetchMalformed
  <2>2. CASE i \in SearchInputs
    BY <2>2, WebAssumption
  <2> QED BY <2>1, <2>2
<1> QED BY <1>1, <1>2, <1>3 DEF Requests

\* A step of an adapter is a step of its client or none.
LEMMA AdapterSteps ==
  ASSUME Waiting, [WebNext]_allVars
  PROVE  ClientStep \/ UNCHANGED vars
<1>1. CASE Request
  <2>1. input \in FetchInputs \cup SearchInputs /\ ~Malformed(input)
    BY <1>1 DEF Request, Waiting
  <2> QED BY <1>1, <2>1, InputsAreRequests DEF Request, ClientStep
<1>2. CASE Get1
  BY <1>2 DEF Get1, Get, Reply, ClientStep
<1>3. CASE Decline \/ Unanswered \/ NotSuccess \/ FetchAnswers \/ SearchAnswers \/ UNCHANGED allVars
  BY <1>3 DEF Decline, Unanswered, NotSuccess, FetchAnswers, SearchAnswers, AdapterOnly, allVars
<1> QED BY <1>1, <1>2, <1>3 DEF WebNext

\* The input waits for the request.
LEMMA WaitingInvariant == WebSpec => []Waiting
<1>1. WebInit => Waiting
  BY DEF WebInit, Waiting, Init
<1>2. Waiting /\ [WebNext]_allVars => Waiting'
  BY DEF Waiting, WebNext, Decline, Request, Get1, Unanswered, NotSuccess, FetchAnswers,
         SearchAnswers, AdapterOnly, End, adapter, allVars, vars
<1> QED BY <1>1, <1>2, PTL DEF WebSpec

-----------------------------------------------------------------------------
(* Types.                                                                   *)

\* An origin is one of Origins.
LEMMA OriginType == \A u \in Urls : Origin(u) \in Origins
BY DEF Origins


\* What is known before the request, of its arguments, and of an answered one.
Placed ==
  /\ pc = "idle" => /\ pool = {} /\ wire = Unsent /\ contacts = {}
                    /\ asked = 0 /\ turns = 0 /\ code = "none" /\ body = 0
  /\ pc # "idle" => req \in Requests /\ target \in Urls
  /\ pc = "answer" => /\ wire.origin \in Origins
                      /\ req.via # "recording" => wire.address \in Addresses

\* Requests begun against redirects answered.
Hops ==
  /\ pc \in {"hop", "send"} => asked = turns /\ turns <= MaxRedirects
  /\ pc = "answer" => asked = turns + 1 /\ turns <= MaxRedirects
  /\ pc \in {"read", "done", "too_large"} => turns <= MaxRedirects
  /\ code # "none" => pc = "refused"
  /\ code = "redirect_limit" => turns = MaxRedirects + 1

TInv == TransportTypeOK /\ Placed /\ Hops

\* A host of a url is a host, and a literal's address an address.
LEMMA HostFacts ==
  /\ \A u \in Urls : u.host \in Hosts
  /\ \A h \in Hosts : HostKind[h] = "literal" => LiteralOf[h] \in Addresses
BY TransportAssumption

\* What a connection may go to is an address, but where nothing is dialled.
LEMMA DialledType ==
  ASSUME TInv, pc = "send"
  PROVE  Dialled \subseteq Addresses \cup {NoAddress} /\ (req.via # "recording" => Dialled \subseteq Addresses)
<1>1. target.host \in Hosts /\ pins[target.host] \subseteq Addresses
  BY HostFacts DEF TInv, Placed, TransportTypeOK
<1>2. \A c \in pool : c.address \in Addresses
  BY DEF TInv, TransportTypeOK
<1>3. req.via \in Vias
  BY DEF TInv, Placed, Requests
<1>4. {c.address : c \in {k \in pool : k.origin = Origin(target)}} \subseteq Addresses
  BY <1>2
<1> QED BY <1>1, <1>3, <1>4 DEF Dialled, Vias

\* Vetting keeps addresses for hosts.
LEMMA VetType ==
  ASSUME TInv, Vet
  PROVE  pins' \in [Hosts -> SUBSET Addresses] /\ pc' \in {"send", "raised", "refused"}
         /\ (pc' = "refused" => code' = "provider_declined") /\ (pc' # "refused" => code' = code)
<1>1. target.host \in Hosts /\ pins \in [Hosts -> SUBSET Addresses]
  BY HostFacts DEF TInv, Placed, TransportTypeOK, Vet
<1>2. CASE HostKind[target.host] = "local"
  BY <1>1, <1>2 DEF Vet, Go, Refuse
<1>3. CASE HostKind[target.host] # "local"
  <2>1. PICK found \in IF HostKind[target.host] = "literal" THEN {{LiteralOf[target.host]}}
                        ELSE SUBSET Addresses :
          IF found = {} THEN Go("raised") /\ UNCHANGED pins
          ELSE IF \E a \in found : Blocked(a) THEN Refuse("provider_declined") /\ UNCHANGED pins
          ELSE Go("send") /\ pins' = [pins EXCEPT ![target.host] = found]
    BY <1>3 DEF Vet
  <2>2. found \in SUBSET Addresses
    BY <1>1, HostFacts
  <2>3. CASE found = {}
    BY <1>1, <2>1, <2>3 DEF Go
  <2>4. CASE found # {} /\ \E a \in found : Blocked(a)
    BY <1>1, <2>1, <2>4 DEF Refuse
  <2>5. CASE found # {} /\ ~\E a \in found : Blocked(a)
    BY <1>1, <2>1, <2>2, <2>5 DEF Go
  <2> QED BY <2>3, <2>4, <2>5
<1> QED BY <1>2, <1>3

\* The client's state has its types, and its place and its counts agree.
LEMMA StepKeepsTInv == ASSUME TInv, ClientStep \/ UNCHANGED vars PROVE TInv'
<1> USE TransportAssumption DEF TInv, TransportTypeOK, Placed, Hops, Codes
<1>1. CASE \E r \in Requests : Begin(r)
  BY <1>1 DEF Begin, Go, Requests, Unsent
<1>2. CASE Vet
  <2>1. pins' \in [Hosts -> SUBSET Addresses] /\ pc' \in {"send", "raised", "refused"}
        /\ (pc' = "refused" => code' = "provider_declined") /\ (pc' # "refused" => code' = code)
    BY <1>2, VetType
  <2>2. pc = "hop" /\ UNCHANGED <<req, target, asked, pool, contacts, status, body, wire, turns>>
    BY <1>2 DEF Vet, VetOnly
  <2> QED BY <2>1, <2>2
<1>3. CASE NoVet
  BY <1>3 DEF NoVet, VetOnly, Go
<1>4. CASE Send
  <2>1. /\ pc = "send" /\ asked' = asked + 1
        /\ contacts' = contacts \cup {Origin(target)}
        /\ UNCHANGED <<req, target, pins, pool, status, body, turns, code>>
        /\ Origin(target) \in Origins
    BY <1>4, OriginType DEF Send, RecordsHop, Go
  <2>2. CASE \E a \in Dialled :
               /\ wire' = [origin |-> Origin(target), address |-> a, headers |-> req.headers]
               /\ Go("answer")
    BY <2>1, <2>2, DialledType DEF Go, Requests
  <2>3. CASE Go("raised") /\ UNCHANGED wire
    BY <2>1, <2>3 DEF Go
  <2> QED BY <1>4, <2>2, <2>3 DEF Send
<1>5. CASE Redirected
  <2>1. PICK there \in Urls :
          IF NextHopFault(there) # "none" THEN Refuse(NextHopFault(there)) /\ UNCHANGED target
          ELSE /\ target' = there
               /\ IF MoreHops THEN Go("hop") ELSE Refuse("redirect_limit")
    BY <1>5 DEF Redirected
  <2>2. pool' \subseteq [origin : Origins, address : Addresses]
    BY <1>5 DEF Redirected, KeepsOrNot
  <2>3. NextHopFault(there) \in {"none", "unsupported_redirect_scheme", "cross_origin_credentialed_redirect"}
    BY DEF NextHopFault
  <2>4. /\ pc = "answer" /\ status' = "redirect" /\ turns' = turns + 1
        /\ UNCHANGED <<req, asked, pins, contacts, body, wire>>
    BY <1>5 DEF Redirected
  <2>5. CASE NextHopFault(there) # "none"
    BY <2>1, <2>2, <2>3, <2>4, <2>5 DEF Refuse
  <2>6. CASE NextHopFault(there) = "none" /\ MoreHops
    BY <2>1, <2>2, <2>4, <2>6 DEF Go, MoreHops
  <2>7. CASE NextHopFault(there) = "none" /\ ~MoreHops
    BY <2>1, <2>2, <2>4, <2>7 DEF Refuse, MoreHops
  <2> QED BY <2>5, <2>6, <2>7
<1>6. CASE Answered
  BY <1>6 DEF Answered, Go
<1>7. CASE ReadChunk
  BY <1>7 DEF ReadChunk, Grown
<1>8. CASE ReadEnd \/ Lost
  BY <1>8 DEF ReadEnd, Lost, Go
<1>9. CASE UNCHANGED vars
  BY <1>9 DEF vars
<1> QED BY <1>1, <1>2, <1>3, <1>4, <1>5, <1>6, <1>7, <1>8, <1>9 DEF ClientStep

\* The invariant of the client holds through every run of an adapter.
LEMMA TInvariant == WebSpec => []TInv
<1>1. WebInit => TInv
  BY TransportAssumption DEF WebInit, Init, TInv, TransportTypeOK, Placed, Hops, Codes, NoReq, Unsent, NoUrl,
        NoAddress, Hosts
<1>2. TInv /\ Waiting /\ [WebNext]_allVars => TInv'
  BY AdapterSteps, StepKeepsTInv
<1> QED BY <1>1, <1>2, WaitingInvariant, PTL DEF WebSpec

\* Every variable of the client stays in its set (RecordingClient).
THEOREM TransportTypes == WebSpec => []TransportTypeOK
<1>1. TInv => TransportTypeOK
  BY DEF TInv
<1> QED BY <1>1, TInvariant, PTL

\* A chain is refused for its length exactly when it has one redirect too many
\* (RecordingClient.get).
THEOREM ChainsEndAtTheLimit == WebSpec => []LimitExact
<1>1. TInv => LimitExact
  BY DEF TInv, Hops, LimitExact
<1> QED BY <1>1, TInvariant, PTL

-----------------------------------------------------------------------------
(* Where connections go.                                                    *)

\* A blocked address is one that gets to an internal network.
LEMMA BlockedIsInternal ==
  \A a \in Addresses : Blocked(a) <=> "internal" \in Reaches(a)
BY TransportAssumption DEF Blocked, Reaches, Nets

\* What the guard remembers, what is kept open and what was used last gets into no
\* internal network.
Clean == /\ \A h \in Hosts : \A a \in pins[h] : ~Blocked(a)
         /\ req.via = "guarded" => \A c \in pool : ~Blocked(c.address)
         /\ req.via = "guarded" /\ wire # Unsent =>
              wire.address \in Addresses /\ ~Blocked(wire.address)
         /\ pc = "answer" => wire # Unsent

LEMMA StepKeepsClean == ASSUME TInv, TInv', Clean, ClientStep \/ UNCHANGED vars PROVE Clean'
<1> USE DEF Clean
<1>1. CASE \E r \in Requests : Begin(r)
  BY <1>1 DEF Begin, Go, TInv, Placed
<1>2. CASE Vet
  <2>1. \A h \in Hosts : \A a \in pins'[h] : ~Blocked(a)
    <3>1. target.host \in Hosts /\ pins \in [Hosts -> SUBSET Addresses]
      BY <1>2, HostFacts DEF TInv, Placed, TransportTypeOK, Vet
    <3>2. CASE HostKind[target.host] = "local"
      BY <1>2, <3>2 DEF Vet
    <3>3. CASE HostKind[target.host] # "local"
      <4>1. PICK found \in IF HostKind[target.host] = "literal" THEN {{LiteralOf[target.host]}}
                            ELSE SUBSET Addresses :
              IF found = {} THEN Go("raised") /\ UNCHANGED pins
              ELSE IF \E a \in found : Blocked(a) THEN Refuse("provider_declined") /\ UNCHANGED pins
              ELSE Go("send") /\ pins' = [pins EXCEPT ![target.host] = found]
        BY <1>2, <3>3 DEF Vet
      <4>2. CASE pins' = pins
        BY <4>2
      <4>3. CASE /\ \A a \in found : ~Blocked(a)
                 /\ pins' = [pins EXCEPT ![target.host] = found]
        <5> SUFFICES ASSUME NEW h \in Hosts, NEW a \in pins'[h] PROVE ~Blocked(a)
          OBVIOUS
        <5> QED BY <3>1, <4>3
      <4> QED BY <4>1, <4>2, <4>3
    <3> QED BY <3>2, <3>3
  <2>2. pc' # "answer"
    BY <1>2 DEF Vet, Go, Refuse
  <2> QED BY <1>2, <2>1, <2>2 DEF VetOnly, Vet
<1>3. CASE NoVet
  BY <1>3 DEF NoVet, VetOnly, Go
<1>4. CASE Send
  <2>1. UNCHANGED <<req, pins, pool>>
    BY <1>4 DEF Send
  <2>2. CASE UNCHANGED wire /\ Go("raised")
    BY <2>1, <2>2 DEF Go
  <2>3. CASE \E a \in Dialled :
               /\ wire' = [origin |-> Origin(target), address |-> a, headers |-> req.headers]
               /\ Go("answer")
    <3>1. PICK a \in Dialled :
            wire' = [origin |-> Origin(target), address |-> a, headers |-> req.headers]
      BY <2>3
    <3>2. a \in Addresses \cup {NoAddress} /\ (req.via # "recording" => a \in Addresses)
      BY <1>4, DialledType DEF Send
    <3>3. req.via = "guarded" => ~Blocked(a)
      <4>1. target.host \in Hosts
        BY <1>4, HostFacts DEF TInv, Placed, Send
      <4> QED BY <4>1 DEF Dialled
    <3>4. wire' # Unsent
      <4>1. wire'.origin = Origin(target) /\ target \in Urls
        BY <3>1, <1>4 DEF TInv, Placed, Send
      <4>2. Origin(target).scheme # "none"
        BY <4>1, TransportAssumption DEF Origin
      <4> QED BY <4>1, <4>2 DEF Unsent, NoUrl
    <3> QED BY <2>1, <3>1, <3>2, <3>3, <3>4
  <2> QED BY <1>4, <2>2, <2>3 DEF Send
<1>5. CASE Redirected
  BY <1>5 DEF Redirected, KeepsOrNot, Go, Refuse
<1>6. CASE Answered
  BY <1>6 DEF Answered, Go
<1>7. CASE ReadChunk
  BY <1>7 DEF ReadChunk
<1>8. CASE ReadEnd \/ Lost
  BY <1>8 DEF ReadEnd, Lost, Go
<1>9. CASE UNCHANGED vars
  BY <1>9 DEF vars
<1> QED BY <1>1, <1>2, <1>3, <1>4, <1>5, <1>6, <1>7, <1>8, <1>9 DEF ClientStep

\* "connections go only to vetted addresses" (addresses.AddressGuard,
\* http._PinnedBackend): a guarded client never sends into an internal network.
THEOREM GuardedStayOutside == WebSpec => []NothingInternal
<1>1. WebInit => Clean
  BY DEF WebInit, Init, Clean
<1>2. Clean /\ TInv /\ TInv' /\ Waiting /\ [WebNext]_allVars => Clean'
  BY AdapterSteps, StepKeepsClean
<1>3. Clean => NothingInternal
  BY BlockedIsInternal DEF Clean, NothingInternal
<1> QED BY <1>1, <1>2, <1>3, TInvariant, WaitingInvariant, PTL DEF WebSpec

-----------------------------------------------------------------------------
(* Where the headers go.                                                    *)

\* The origin the run named, or the same over https.
Home(o) == \/ o = Origin(req.url)
           \/ req.url.scheme = "http" /\ o = [Origin(req.url) EXCEPT !.scheme = "https"]

HeadersHome ==
  /\ pc # "idle" /\ req.headers /\ pc \notin {"refused"} => Home(Origin(target))
  /\ wire.headers => Home(wire.origin)

\* An origin has the scheme of its url.
LEMMA OriginScheme == \A u \in Urls : Origin(u).scheme = u.scheme
BY TransportAssumption DEF Origin

LEMMA StepKeepsHome == ASSUME TInv, HeadersHome, ClientStep \/ UNCHANGED vars PROVE HeadersHome'
<1> USE DEF HeadersHome, Home
<1>1. CASE \E r \in Requests : Begin(r)
  BY <1>1 DEF Begin, Go, TInv, Placed, Unsent
<1>2. CASE Vet
  BY <1>2 DEF Vet, VetOnly, Go, Refuse
<1>3. CASE NoVet
  BY <1>3 DEF NoVet, VetOnly, Go
<1>4. CASE Send
  BY <1>4 DEF Send, Go
<1>5. CASE Redirected
  <2>1. PICK there \in Urls :
          IF NextHopFault(there) # "none" THEN Refuse(NextHopFault(there)) /\ UNCHANGED target
          ELSE /\ target' = there
               /\ IF MoreHops THEN Go("hop") ELSE Refuse("redirect_limit")
    BY <1>5 DEF Redirected
  <2>2. UNCHANGED <<req, wire>> /\ pc = "answer"
    BY <1>5 DEF Redirected
  <2>3. CASE NextHopFault(there) # "none"
    BY <2>1, <2>2, <2>3 DEF Refuse
  <2>4. CASE NextHopFault(there) = "none" /\ req.headers
    <3>1. target' = there /\ ~CrossesOrigin(target, there)
      BY <2>1, <2>4 DEF NextHopFault
    <3>2. target \in Urls /\ req.url \in Urls /\ Home(Origin(target))
      BY <2>2, <2>4 DEF TInv, Placed, Requests
    <3>3. Home(Origin(there))
      BY <3>1, <3>2, OriginScheme DEF CrossesOrigin, Origin
    <3> QED BY <2>2, <3>1, <3>3
  <2>5. CASE ~req.headers
    BY <2>2, <2>5
  <2> QED BY <2>3, <2>4, <2>5
<1>6. CASE Answered
  BY <1>6 DEF Answered, Go
<1>7. CASE ReadChunk
  BY <1>7 DEF ReadChunk
<1>8. CASE ReadEnd \/ Lost
  BY <1>8 DEF ReadEnd, Lost, Go
<1>9. CASE UNCHANGED vars
  BY <1>9 DEF vars
<1> QED BY <1>1, <1>2, <1>3, <1>4, <1>5, <1>6, <1>7, <1>8, <1>9 DEF ClientStep

\* Over any chain the run's headers go to the origin it named or to the same place
\* over https (http._next_hop, _crosses_origin).
THEOREM CredentialsStayHome == WebSpec => []HeadersStayHome
<1>1. WebInit => HeadersHome
  BY DEF WebInit, Init, HeadersHome, Unsent
<1>2. HeadersHome /\ TInv /\ Waiting /\ [WebNext]_allVars => HeadersHome'
  BY AdapterSteps, StepKeepsHome
<1>3. HeadersHome => HeadersStayHome
  BY DEF HeadersHome, Home, HeadersStayHome
<1> QED BY <1>1, <1>2, <1>3, TInvariant, WaitingInvariant, PTL DEF WebSpec

-----------------------------------------------------------------------------
(* What is recorded and what is kept.                                       *)

Recorded == /\ wire # Unsent => wire.origin \in contacts
            /\ IsFiniteSet(contacts) /\ Cardinality(contacts) <= asked

LEMMA StepKeepsRecorded == ASSUME TInv, Recorded, ClientStep \/ UNCHANGED vars PROVE Recorded'
<1> USE DEF Recorded
<1>1. CASE Send
  <2>1. contacts' = contacts \cup {Origin(target)} /\ asked' = asked + 1
        /\ (wire' = wire \/ wire'.origin = Origin(target))
    BY <1>1 DEF Send, RecordsHop
  <2>2. IsFiniteSet(contacts') /\ Cardinality(contacts') <= Cardinality(contacts) + 1
        /\ Cardinality(contacts) \in Nat /\ Cardinality(contacts') \in Nat
    <3>1. Cardinality(contacts \cup {Origin(target)})
            = IF Origin(target) \in contacts THEN Cardinality(contacts) ELSE Cardinality(contacts) + 1
      BY FS_AddElement
    <3>2. IsFiniteSet(contacts \cup {Origin(target)}) /\ Cardinality(contacts) \in Nat
      BY FS_AddElement, FS_CardinalityType
    <3> QED BY <2>1, <3>1, <3>2
  <2>3. asked \in Nat
    BY TransportAssumption DEF TInv, TransportTypeOK
  <2> QED BY <2>1, <2>2, <2>3
<1>2. CASE ~Send
  <2>1. UNCHANGED <<contacts, asked, wire>>
    BY <1>2 DEF ClientStep, Begin, Vet, NoVet, VetOnly, Redirected, Answered, ReadChunk, ReadEnd,
                Lost, vars
  <2> QED BY <2>1
<1> QED BY <1>1, <1>2

\* "every request the client issues lands in the run's egress recorder", and
\* nothing else does (http.RecordingClient, egress.EgressRecorder).
THEOREM EveryRequestRecorded == WebSpec => []AllRecorded
<1>1. WebInit => Recorded
  BY FS_EmptySet DEF WebInit, Init, Recorded
<1>2. Recorded /\ TInv /\ Waiting /\ [WebNext]_allVars => Recorded'
  BY AdapterSteps, StepKeepsRecorded
<1>3. Recorded => AllRecorded
  BY DEF Recorded, AllRecorded
<1> QED BY <1>1, <1>2, <1>3, TInvariant, WaitingInvariant, PTL DEF WebSpec

LEMMA StepKeepsBounded == ASSUME TInv, BodyBounded, ClientStep \/ UNCHANGED vars PROVE BodyBounded'
<1> USE TransportAssumption DEF BodyBounded, TInv, TransportTypeOK, Placed
<1>1. CASE \E r \in Requests : Begin(r)
  <2>1. PICK r \in Requests : Begin(r)
    BY <1>1
  <2>2. body' = 0 /\ req' = r
    BY <2>1 DEF Begin
  <2>3. r.cap \in Nat
    BY DEF Requests
  <2> QED BY <2>2, <2>3
<1>2. CASE Answered
  <2>1. req.cap \in Nat
    BY <1>2 DEF Answered, Requests
  <2> QED BY <1>2, <2>1 DEF Answered
<1>3. CASE ReadChunk
  <2>1. req.cap \in Nat /\ UNCHANGED req
    BY <1>3 DEF ReadChunk, Requests
  <2> QED BY <1>3, <2>1 DEF ReadChunk, Grown, TooLarge
<1>4. CASE Vet \/ NoVet \/ Send \/ Redirected \/ ReadEnd \/ Lost \/ UNCHANGED vars
  BY <1>4 DEF Vet, NoVet, VetOnly, Send, Redirected, ReadEnd, Lost, vars
<1> QED BY <1>1, <1>2, <1>3, <1>4 DEF ClientStep

\* "reading at most cap_bytes" (RecordingClient._read).
THEOREM BodiesStayUnderTheCap == WebSpec => []BodyBounded
<1>1. WebInit => BodyBounded
  BY DEF WebInit, Init, BodyBounded, NoReq
<1>2. BodyBounded /\ TInv /\ Waiting /\ [WebNext]_allVars => BodyBounded'
  BY AdapterSteps, StepKeepsBounded
<1> QED BY <1>1, <1>2, TInvariant, WaitingInvariant, PTL DEF WebSpec

-----------------------------------------------------------------------------
(* What is served.                                                          *)

\* A well-formed fetch is declined exactly when no selector has its bucket.
LEMMA FetchGateIsManifest ==
  ASSUME NEW i \in FetchInputs, ~FetchMalformed(i)
  PROVE  FetchUnserved(i) <=> \A s \in FetchSelectors : ~Matches(s, Bucket(i))
<1>1. i.max \in 1..MaxResponse /\ i.adapter = "fetch" /\ i.render \in BOOLEAN /\ i.api \in BOOLEAN
  BY WebAssumption DEF FetchMalformed
<1>2. WeightClass(i.max) = "light" \/ WeightClass(i.max) = "medium" <=> i.max <= Medium
  BY <1>1, WebAssumption DEF WeightClass
<1>3. Bucket(i) = <<SourceKind(i), WeightClass(i.max)>>
  BY <1>1 DEF Bucket
<1>4. (\A s \in FetchSelectors : ~Matches(s, Bucket(i))) <=>
        /\ ~(SourceKind(i) = "static_html" /\ WeightClass(i.max) = "light")
        /\ ~(SourceKind(i) = "static_html" /\ WeightClass(i.max) = "medium")
        /\ SourceKind(i) # "api_json"
  <2>1. SourceKind(i) # "*" /\ WeightClass(i.max) # "*"
    BY DEF SourceKind, WeightClass
  <2>2. \A x, y : Matches(<<x, y>>, Bucket(i)) <=> x \in {"*", SourceKind(i)} /\ y \in {"*", WeightClass(i.max)}
    BY <1>3 DEF Matches
  <2> QED BY <2>1, <2>2 DEF FetchSelectors
<1> QED BY <1>1, <1>2, <1>4, WebAssumption DEF FetchUnserved, SourceKind

\* A well-formed search is declined exactly when no selector has its bucket.
LEMMA SearchGateIsManifest ==
  ASSUME NEW i \in SearchInputs, ~SearchMalformed(i)
  PROVE  SearchUnserved(i) <=> \A s \in SearchSelectors : ~Matches(s, Bucket(i))
<1>1. i.limit \in Nat /\ i.maxAge \in Nat /\ i.adapter = "search"
  BY WebAssumption
<1>2. Bucket(i) = <<Recency(i), Depth(i)>>
  BY <1>1 DEF Bucket
<1>3. Recency(i) # "*" /\ Depth(i) # "*"
  BY DEF Recency, Depth
<1>4. \A x, y : Matches(<<x, y>>, Bucket(i)) <=> x \in {"*", Recency(i)} /\ y \in {"*", Depth(i)}
  BY <1>2 DEF Matches
<1>5. (\A s \in SearchSelectors : ~Matches(s, Bucket(i))) <=>
        /\ ~(Recency(i) = "any_time" /\ Depth(i) \in {"shallow", "standard"})
        /\ ~(Recency(i) = "recent" /\ Depth(i) = "shallow")
  BY <1>3, <1>4 DEF SearchSelectors
<1> QED BY <1>1, <1>5 DEF SearchUnserved, Recency, Depth

\* "what is refused here is exactly what the manifest leaves unclaimed"
\* (fetch._decline_unserved, search._decline_unserved, manifest.yaml).
THEOREM ServedIsClaimed == WebSpec => []ServesClaimed
<1>1. Waiting => ServesClaimed
  <2> SUFFICES ASSUME Waiting, stage = "parse", ~Malformed(input)
               PROVE Unserved(input) <=> \A s \in Selectors(input) : ~Matches(s, Bucket(input))
    BY DEF ServesClaimed
  <2>1. CASE input \in FetchInputs
    <3>1. input.adapter = "fetch"
      BY <2>1, WebAssumption
    <3> QED BY <2>1, <3>1, FetchGateIsManifest DEF Malformed, Unserved, Selectors
  <2>2. CASE input \in SearchInputs
    <3>1. input.adapter # "fetch"
      BY <2>2, WebAssumption
    <3> QED BY <2>2, <3>1, SearchGateIsManifest DEF Malformed, Unserved, Selectors
  <2> QED BY <2>1, <2>2 DEF Waiting
<1> QED BY <1>1, WaitingInvariant, PTL

-----------------------------------------------------------------------------
(* What is returned.                                                        *)

\* The order of the numbers, as pairs.
LEMMA LessRelation == OpToRel(<, Nat) = {p \in Nat \X Nat : p[1] < p[2]}
BY DEF OpToRel

\* A set of numbers that holds 0 and what follows each of its members holds all.
LEMMA NumbersReached ==
  ASSUME NEW T, 0 \in T, \A n \in Nat : n \in T => n + 1 \in T
  PROVE  Nat \subseteq T
<1> SUFFICES ASSUME Nat \ T # {} PROVE FALSE
  OBVIOUS
<1>1. PICK n \in Nat \ T : \A m \in Nat \ T : ~(m < n)
  <2> DEFINE R == OpToRel(<, Nat)
  <2>1. IsWellFoundedOn(R, Nat)
    BY NatLessThanWellFounded
  <2>2. R = {p \in Nat \X Nat : p[1] < p[2]}
    BY LessRelation
  <2> HIDE DEF R
  <2>3. PICK n \in Nat \ T : \A m \in Nat \ T : ~(<<m, n>> \in R)
    BY <2>1, WFMin
  <2> QED BY <2>2, <2>3
<1>2. n # 0 /\ n - 1 \in Nat
  BY <1>1
<1>3. n - 1 \in T
  BY <1>1, <1>2
<1> QED BY <1>2, <1>3

\* One turn of the loop, from the places kept before it.
Turn(list, g, n) == IF n = 0 THEN <<>>
                    ELSE IF Fresh(list[n]) THEN Append(g[n - 1], n) ELSE g[n - 1]

\* The loop has a value after each turn.
LEMMA KeptIsLoop ==
  ASSUME NEW list \in Seq(Nat)
  PROVE  Kept(list) = [n \in 0..Len(list) |-> Turn(list, Kept(list), n)]
<1> DEFINE IsLoop(g, m) == g = [n \in 0..m |-> Turn(list, g, n)]
           T == {m \in Nat : \E g : IsLoop(g, m)}
<1>1. 0 \in T
  <2> DEFINE g == [n \in 0..0 |-> <<>>]
  <2>1. IsLoop(g, 0)
    BY DEF Turn
  <2> QED BY <2>1
<1>2. ASSUME NEW m \in Nat, m \in T PROVE m + 1 \in T
  <2>1. PICK g : IsLoop(g, m)
    BY <1>2
  <2> DEFINE h == [n \in 0..(m + 1) |-> IF n <= m THEN g[n] ELSE Turn(list, g, n)]
  <2>2. ASSUME NEW n \in 0..(m + 1) PROVE h[n] = Turn(list, h, n)
    <3>1. CASE n <= m
      <4>1. n \in 0..m /\ g[n] = Turn(list, g, n)
        BY <2>1, <3>1
      <4>2. n # 0 => h[n - 1] = g[n - 1]
        BY <3>1
      <4> QED BY <3>1, <4>1, <4>2 DEF Turn
    <3>2. CASE ~(n <= m)
      <4>1. n # 0 /\ h[n - 1] = g[n - 1] /\ h[n] = Turn(list, g, n)
        BY <3>2
      <4> QED BY <4>1 DEF Turn
    <3> QED BY <3>1, <3>2
  <2>3. IsLoop(h, m + 1)
    BY <2>2
  <2> HIDE DEF h
  <2> QED BY <2>3
<1>3. Len(list) \in T
  <2> HIDE DEF T
  <2>1. Nat \subseteq T
    BY <1>1, <1>2, NumbersReached
  <2> QED BY <2>1
<1>4. PICK g : g = [n \in 0..Len(list) |-> IF n = 0 THEN <<>>
                     ELSE IF Fresh(list[n]) THEN Append(g[n - 1], n) ELSE g[n - 1]]
  BY <1>3 DEF Turn
<1> QED BY <1>4 DEF Kept, Turn

\* What the loop has kept of the first n: the fresh ones among them, in order.
KeptSoFar(list, s, n) ==
  /\ s \in Seq(1..n)
  /\ \A k \in DOMAIN s : Fresh(list[s[k]])
  /\ \A k, l \in DOMAIN s : k < l => s[k] < s[l]
  /\ \A i \in 1..n : Fresh(list[i]) => \E k \in DOMAIN s : s[k] = i

\* The loop keeps the fresh results, all of them and in order.
LEMMA KeptIsFresh ==
  ASSUME NEW list \in Seq(Nat)
  PROVE  KeptSoFar(list, Kept(list)[Len(list)], Len(list))
<1>1. PICK kept : kept = Kept(list)
  OBVIOUS
<1> DEFINE T == {n \in Nat : n <= Len(list) => KeptSoFar(list, kept[n], n)}
<1>a. Len(list) \in Nat
  OBVIOUS
<1>b. \A n \in 0..Len(list) : kept[n] = Turn(list, kept, n)
  <2>1. kept = [n \in 0..Len(list) |-> Turn(list, kept, n)]
    BY <1>1, KeptIsLoop
  <2> QED BY <2>1, Zenon
<1>2. 0 \in T
  <2>1. kept[0] = Turn(list, kept, 0)
    BY <1>a, <1>b
  <2>2. kept[0] = <<>>
    BY <2>1, Zenon DEF Turn
  <2>3. <<>> \in Seq(1..0) /\ DOMAIN <<>> = {} /\ 1..0 = {}
    OBVIOUS
  <2>4. KeptSoFar(list, <<>>, 0)
    BY <2>3, Zenon DEF KeptSoFar
  <2> QED BY <2>2, <2>4
<1>3. ASSUME NEW n \in Nat, n \in T PROVE n + 1 \in T
  <2> SUFFICES ASSUME n + 1 <= Len(list) PROVE KeptSoFar(list, kept[n + 1], n + 1)
    OBVIOUS
  <2>1. KeptSoFar(list, kept[n], n)
    BY <1>3
  <2>2. kept[n + 1] = IF Fresh(list[n + 1]) THEN Append(kept[n], n + 1) ELSE kept[n]
    <3>1. kept[n + 1] = Turn(list, kept, n + 1) /\ n + 1 # 0 /\ (n + 1) - 1 = n
      BY <1>a, <1>b
    <3> QED BY <3>1, Zenon DEF Turn
  <2>3. CASE ~Fresh(list[n + 1])
    BY <2>1, <2>2, <2>3 DEF KeptSoFar
  <2>4. CASE Fresh(list[n + 1])
    <3> DEFINE s == kept[n]
               t == Append(s, n + 1)
    <3>1. s \in Seq(1..n) /\ s \in Seq(1..(n + 1)) /\ t \in Seq(1..(n + 1)) /\ Len(t) = Len(s) + 1
          /\ DOMAIN s = 1..Len(s) /\ DOMAIN t = 1..(Len(s) + 1) /\ Len(s) \in Nat
      BY <2>1 DEF KeptSoFar
    <3>2. t[Len(s) + 1] = n + 1 /\ \A k \in DOMAIN s : t[k] = s[k] /\ s[k] \in 1..n
      <4>1. s \in Seq(1..n) /\ Len(s) \in Nat /\ DOMAIN s = 1..Len(s)
        BY <3>1
      <4> HIDE DEF s
      <4>2. s \in Seq(Nat) /\ n + 1 \in Nat
        BY <4>1
      <4>3. t[Len(s) + 1] = n + 1
        BY <4>2
      <4>4. \A k \in 1..Len(s) : t[k] = s[k]
        BY <4>2
      <4>5. \A k \in 1..Len(s) : s[k] \in 1..n
        BY <4>1
      <4> QED BY <4>1, <4>3, <4>4, <4>5
    <3>3. /\ \A k \in DOMAIN s : Fresh(list[s[k]])
          /\ \A k, l \in DOMAIN s : k < l => s[k] < s[l]
          /\ \A i \in 1..n : Fresh(list[i]) => \E k \in DOMAIN s : s[k] = i
      BY <2>1 DEF KeptSoFar
    <3> HIDE DEF t, s
    <3>4. \A k \in DOMAIN t : k \in DOMAIN s \/ k = Len(s) + 1
      BY <3>1
    <3>5. ASSUME NEW k \in DOMAIN t PROVE Fresh(list[t[k]])
      BY <2>4, <3>2, <3>3, <3>4, <3>5, Zenon
    <3>6. ASSUME NEW k \in DOMAIN t, NEW l \in DOMAIN t, k < l PROVE t[k] < t[l]
      <4>1. k \in DOMAIN s
        BY <3>1, <3>6
      <4>2. CASE l \in DOMAIN s
        BY <3>2, <3>3, <3>6, <4>1, <4>2
      <4>3. CASE l = Len(s) + 1
        BY <3>2, <4>1, <4>3
      <4> QED BY <3>4, <3>6, <4>2, <4>3
    <3>7. ASSUME NEW i \in 1..(n + 1), Fresh(list[i]) PROVE \E k \in DOMAIN t : t[k] = i
      <4>1. CASE i \in 1..n
        <5>1. PICK k \in DOMAIN s : s[k] = i
          BY <3>3, <3>7, <4>1
        <5>2. k \in DOMAIN t /\ t[k] = i
          BY <3>1, <3>2, <5>1
        <5> QED BY <5>2
      <4>2. CASE i = n + 1
        <5>1. Len(s) + 1 \in DOMAIN t
          BY <3>1
        <5> QED BY <3>2, <4>2, <5>1
      <4> QED BY <3>7, <4>1, <4>2
    <3> QED BY <2>2, <2>4, <3>1, <3>5, <3>6, <3>7 DEF KeptSoFar, t, s
  <2> QED BY <2>3, <2>4
<1>4. Len(list) \in T
  <2> HIDE DEF T
  <2>1. Nat \subseteq T
    BY <1>2, <1>3, NumbersReached
  <2> QED BY <2>1
<1> QED BY <1>1, <1>4

\* Filtered, then cut to the limit: the freshest, and what was dropped makes up
\* the list.
LEMMA ListedIsFreshest ==
  ASSUME NEW list \in Seq(Nat), limits.limit \in Nat \ {0}
  PROVE  /\ \A k \in DOMAIN Listed(list) : Fresh(list[Listed(list)[k]])
         /\ \A k, l \in DOMAIN Listed(list) : k < l => Listed(list)[k] < Listed(list)[l]
         /\ \A i \in DOMAIN list :
              Fresh(list[i]) /\ (\A k \in DOMAIN Listed(list) : Listed(list)[k] # i)
                => Len(Listed(list)) = limits.limit /\ Listed(list)[Len(Listed(list))] < i
         /\ Dropped(list) + Cardinality({i \in DOMAIN list : Fresh(list[i])}) = Len(list)
<1> DEFINE s == Kept(list)[Len(list)]
           m == IF limits.limit <= Len(s) THEN limits.limit ELSE Len(s)
           t == Listed(list)
<1>1. KeptSoFar(list, s, Len(list))
  BY KeptIsFresh
<1>2. t = SubSeq(s, 1, m)
  BY DEF Listed, FirstOf
<1> HIDE DEF s, t
<1>3. s \in Seq(1..Len(list)) /\ Len(s) \in Nat /\ m \in 0..Len(s) /\ DOMAIN s = 1..Len(s)
  BY <1>1 DEF KeptSoFar
<1>4. Len(t) = m /\ DOMAIN t = 1..m /\ \A k \in 1..m : t[k] = s[k]
  BY <1>2, <1>3
<1>5. DOMAIN list = 1..Len(list) /\ Len(list) \in Nat
  OBVIOUS
<1>6. \A k \in DOMAIN t : Fresh(list[t[k]])
  BY <1>1, <1>3, <1>4 DEF KeptSoFar
<1>7. \A k, l \in DOMAIN t : k < l => t[k] < t[l]
  BY <1>1, <1>3, <1>4 DEF KeptSoFar
<1>8. ASSUME NEW i \in DOMAIN list, Fresh(list[i]), \A k \in DOMAIN t : t[k] # i
      PROVE  Len(t) = limits.limit /\ t[Len(t)] < i
  <2>1. PICK k \in DOMAIN s : s[k] = i
    BY <1>1, <1>5, <1>8 DEF KeptSoFar
  <2>2. k \notin 1..m
    BY <1>4, <1>8, <2>1
  <2>3. m < k /\ m = limits.limit /\ m \in DOMAIN s
    BY <1>3, <2>1, <2>2
  <2>4. s[m] < s[k]
    BY <1>1, <2>1, <2>3 DEF KeptSoFar
  <2>5. t[m] = s[m] /\ Len(t) = m
    BY <1>4, <2>3
  <2> QED BY <2>1, <2>3, <2>4, <2>5
<1>9. Dropped(list) + Cardinality({i \in DOMAIN list : Fresh(list[i])}) = Len(list)
  <2> DEFINE Old == {i \in DOMAIN list : ~Fresh(list[i])}
             New == {i \in DOMAIN list : Fresh(list[i])}
  <2>1. IsFiniteSet(1..Len(list)) /\ Cardinality(1..Len(list)) = Len(list)
    <3>1. 1 \in Int /\ Len(list) \in Int
      BY <1>5
    <3>2. Cardinality(1..Len(list)) = IF 1 > Len(list) THEN 0 ELSE Len(list) - 1 + 1
      BY <3>1, FS_Interval
    <3> QED BY <1>5, <3>1, <3>2, FS_Interval
  <2>2. IsFiniteSet(Old) /\ IsFiniteSet(New)
    BY <1>5, <2>1, FS_Subset
  <2>3. Old \cup New = 1..Len(list) /\ Old \cap New = {}
    BY <1>5
  <2>4. Cardinality(Old) \in Nat /\ Cardinality(New) \in Nat /\ Cardinality({}) = 0
    BY <2>2, FS_CardinalityType, FS_EmptySet
  <2>5. Cardinality(Old \cup New) = Cardinality(Old) + Cardinality(New) - Cardinality(Old \cap New)
    BY <2>2, FS_Union
  <2> HIDE DEF Old, New
  <2>6. Cardinality(Old) + Cardinality(New) = Len(list)
    <3>1. Len(list) = Cardinality(Old) + Cardinality(New) - 0
      BY <2>1, <2>3, <2>4, <2>5
    <3> QED BY <2>4, <3>1
  <2> QED BY <2>6 DEF Dropped, Old, New
<1> QED BY <1>6, <1>7, <1>8, <1>9 DEF t

\* Before the end there is no result and nothing derived; a search that was made
\* has a limit.
Underway == /\ stage # "ended" => result = "none" /\ derived = "none"
            /\ stage = "get" /\ ~IsFetch => limits.limit \in Nat \ {0}
            /\ stage = "parse" => format = "none"

AdapterIInv == Underway /\ ResultIsWhole

\* An adapter's request carries the limit of a search.
LEMMA RequestHasLimit == ASSUME Waiting, Underway, Request PROVE Underway'
<1>1. stage' = "get" /\ result' = result /\ derived' = derived /\ stage = "parse"
  BY DEF Request
<1>2. CASE input \in FetchInputs
  <2>1. input.adapter = "fetch" /\ input.format \in Formats \cup {"auto"}
    BY <1>2, WebAssumption
  <2>2. format' # "none"
    BY <2>1 DEF Request, Formats
  <2> QED BY <1>1, <2>2 DEF Underway, IsFetch
<1>3. CASE input \in SearchInputs
  <2>1. input.adapter = "search" /\ input.limit \in Nat
    BY <1>3, WebAssumption
  <2>2. limits' = [limit |-> input.limit, maxAge |-> input.maxAge] /\ input.limit # 0
    BY <2>1 DEF Request, Malformed, SearchMalformed
  <2> QED BY <1>1, <2>1, <2>2 DEF Underway
<1> QED BY <1>1, <1>2, <1>3 DEF Waiting

\* A fetch's answer is settled, agreed on and extracted from.
LEMMA FetchIsWhole ==
  ASSUME Underway, body <= req.cap, FetchAnswers PROVE AdapterIInv'
<1>1. PICK actual \in Formats, wellFormed \in BOOLEAN, extract \in BOOLEAN, hasText \in BOOLEAN :
        /\ format' = Settled(actual) /\ media' = actual
        /\ \/ /\ ~FormatAgrees(actual) \/ (Settled(actual) \in {"json", "csv"} /\ ~wellFormed)
              /\ End("failed") /\ UNCHANGED derived
           \/ /\ FormatAgrees(actual) /\ (Settled(actual) \in {"json", "csv"} => wellFormed)
              /\ IF ~extract THEN End("ok") /\ UNCHANGED derived
                 ELSE IF ~Extracts(actual) THEN End("ok") /\ derived' = "verbatim"
                 ELSE IF hasText THEN End("ok") /\ derived' = "markdown"
                 ELSE End("refused") /\ UNCHANGED derived
  BY DEF FetchAnswers
<1>2. stage = "get" /\ derived = "none" /\ pc = "done" /\ status = "success" /\ IsFetch
      /\ UNCHANGED <<pc, status, body, req>>
  BY DEF FetchAnswers, Underway, AdapterOnly, vars
<1>3. stage' = "ended" /\ format' # "none"
  BY <1>1, <1>2 DEF End, Settled, Formats, IsFetch
<1>4. result' = "ok" => FormatAgrees(actual) /\ (derived' = "markdown" => Extracts(actual))
  BY <1>1, <1>2 DEF End
<1>5. FormatAgrees(actual) => format' \in {media', "bytes"}
  BY <1>1 DEF FormatAgrees, Settled
<1>6. FormatAgrees(actual) /\ Extracts(actual) => media' = "html"
  BY <1>1 DEF FormatAgrees, Settled, Extracts, Formats
<1>7. FetchedWhole'
  BY <1>2, <1>4, <1>5, <1>6 DEF FetchedWhole
<1>8. ListedAreFreshest'
  BY <1>3 DEF ListedAreFreshest, IsFetch
<1> QED BY <1>3, <1>7, <1>8 DEF AdapterIInv, Underway, ResultIsWhole

\* A search's answer is filtered and cut.
LEMMA SearchIsFreshest == ASSUME Underway, SearchAnswers PROVE AdapterIInv'
<1>1. stage' = "ended" /\ ~IsFetch /\ UNCHANGED <<format, limits>> /\ limits.limit \in Nat \ {0}
  BY DEF SearchAnswers, End, Underway
<1>2. CASE result' # "ok"
  BY <1>1, <1>2 DEF AdapterIInv, Underway, ResultIsWhole, FetchedWhole, ListedAreFreshest
<1>3. CASE result' = "ok"
  <2>1. PICK list \in Answers :
          answer' = list /\ listed' = Listed(list) /\ dropped' = Dropped(list)
    BY <1>3 DEF SearchAnswers, End
  <2>2. list \in Seq(Nat)
    BY WebAssumption
  <2>3. \A age : Fresh(age)' <=> Fresh(age)
    BY <1>1 DEF Fresh
  <2>4. ListedAreFreshest'
    BY <1>1, <2>1, <2>2, <2>3, ListedIsFreshest DEF ListedAreFreshest, Fresh
  <2>5. FetchedWhole'
    BY <1>1 DEF FetchedWhole, IsFetch
  <2> QED BY <1>1, <2>4, <2>5 DEF AdapterIInv, Underway, ResultIsWhole
<1> QED BY <1>2, <1>3

\* A step that leaves the result alone before the end leaves it so.
LEMMA UnderwayIsWhole ==
  ASSUME Underway', result' # "ok" PROVE AdapterIInv'
BY DEF AdapterIInv, ResultIsWhole, FetchedWhole, ListedAreFreshest

LEMMA StepKeepsAdapter ==
  ASSUME Waiting, AdapterIInv, BodyBounded, TInv, [WebNext]_allVars PROVE AdapterIInv'
<1>1. CASE Request
  <2>1. result' # "ok"
    BY <1>1 DEF AdapterIInv, Underway, Request
  <2> QED BY <1>1, <2>1, RequestHasLimit, UnderwayIsWhole DEF AdapterIInv
<1>2. CASE Get1
  BY <1>2, UnderwayIsWhole DEF Get1, adapter, AdapterIInv, Underway, IsFetch
<1>3. CASE Decline \/ Unanswered \/ NotSuccess
  <2>1. Underway'
    BY <1>3 DEF Decline, Unanswered, NotSuccess, End, Underway
  <2>2. result' # "ok"
    BY <1>3 DEF Decline, Unanswered, NotSuccess, End
  <2> QED BY <2>1, <2>2, UnderwayIsWhole
<1>4. CASE FetchAnswers
  <2>1. body <= req.cap
    BY <1>4 DEF FetchAnswers, BodyBounded
  <2> QED BY <1>4, <2>1, FetchIsWhole DEF AdapterIInv
<1>5. CASE SearchAnswers
  BY <1>5, SearchIsFreshest DEF AdapterIInv
<1>6. CASE UNCHANGED allVars
  BY <1>6 DEF allVars, vars, adapter, AdapterIInv, Underway, ResultIsWhole, FetchedWhole,
              ListedAreFreshest, Fresh, IsFetch
<1> QED BY <1>1, <1>2, <1>3, <1>4, <1>5, <1>6 DEF WebNext

\* A fetch that succeeds has the whole answer, in the format asked for; a search
\* that does has the freshest results of the list, as many as asked for, and none
\* was passed over (fetch.WebFetch.__call__, search._filter_by_recency).
THEOREM ResultsAreWhole == WebSpec => []ResultIsWhole
<1>1. WebInit => AdapterIInv
  BY DEF WebInit, AdapterIInv, Underway, ResultIsWhole, FetchedWhole, ListedAreFreshest
<1>2. AdapterIInv /\ Waiting /\ BodyBounded /\ TInv /\ [WebNext]_allVars => AdapterIInv'
  BY StepKeepsAdapter
<1>3. AdapterIInv => ResultIsWhole
  BY DEF AdapterIInv
<1> QED BY <1>1, <1>2, <1>3, WaitingInvariant, TInvariant, BodiesStayUnderTheCap, PTL DEF WebSpec

-----------------------------------------------------------------------------
(* A run ends: each step leaves it less to do.                              *)

\* What is left to do: a turn of the redirect walk for each request not begun yet, a
\* piece of the answer for each byte the cap leaves, and the adapter's own steps.
HopsLeft == 3 * (MaxRedirects + 1 - asked) + MaxResponse

StepsLeft ==
  CASE stage = "parse" -> 3 * (MaxRedirects + 1) + MaxResponse + 5
    [] stage = "get" /\ pc = "hop" -> HopsLeft + 4
    [] stage = "get" /\ pc = "send" -> HopsLeft + 3
    [] stage = "get" /\ pc = "answer" -> HopsLeft + 5
    [] stage = "get" /\ pc = "read" -> req.cap - body + 2
    [] stage = "get" /\ pc \notin {"hop", "send", "answer", "read"} -> 1
    [] OTHER -> 0

\* The adapter is in one of its stages.
Staged == stage \in {"parse", "get", "ended"}

\* What StepsLeft is made of are numbers, and a cap is one up to the most a run may ask for.
LEMMA LeftIsNumber ==
  ASSUME TInv, BodyBounded
  PROVE  /\ asked \in Nat /\ asked <= MaxRedirects + 1 /\ MaxRedirects \in Nat /\ MaxResponse \in Nat
         /\ body \in Nat /\ StepsLeft \in Nat
         /\ pc # "idle" => req.cap \in Nat /\ req.cap <= MaxResponse /\ body <= req.cap
<1>1. asked \in Nat /\ asked <= MaxRedirects + 1 /\ MaxRedirects \in Nat /\ MaxResponse \in Nat /\ body \in Nat
  BY TransportAssumption, WebAssumption DEF TInv, TransportTypeOK
<1>2. pc # "idle" => req.cap \in Nat /\ req.cap <= MaxResponse /\ body <= req.cap
  BY WebAssumption DEF TInv, Placed, Requests, BodyBounded
<1>3. StepsLeft \in Nat
  BY <1>1, <1>2 DEF StepsLeft, HopsLeft
<1> QED BY <1>1, <1>2, <1>3

\* Every step of the client in a run leaves less to do.
LEMMA ClientLeavesLess ==
  ASSUME TInv, TInv', BodyBounded, BodyBounded', Get1
  PROVE  StepsLeft' < StepsLeft
<1>1. /\ asked \in Nat /\ asked <= MaxRedirects + 1 /\ MaxRedirects \in Nat /\ MaxResponse \in Nat
      /\ body \in Nat
      /\ pc # "idle" => req.cap \in Nat /\ req.cap <= MaxResponse /\ body <= req.cap
  BY LeftIsNumber
<1>2. stage = "get" /\ stage' = "get" BY DEF Get1, adapter
<1>3. CASE Vet \/ NoVet
  <2>1. pc = "hop" /\ pc' \in {"refused", "raised", "send"} /\ asked' = asked
    BY <1>3 DEF Vet, NoVet, VetOnly, Refuse, Go
  <2> QED BY <1>1, <1>2, <2>1 DEF StepsLeft, HopsLeft
<1>4. CASE Send
  <2>1. pc = "send" /\ pc' \in {"answer", "raised"} /\ asked' = asked + 1
    BY <1>4 DEF Send, Go
  <2> QED BY <1>1, <1>2, <2>1 DEF StepsLeft, HopsLeft
<1>5. CASE Redirected
  <2>1. pc = "answer" /\ pc' \in {"hop", "refused"} /\ asked' = asked
    BY <1>5 DEF Redirected, Go, Refuse
  <2> QED BY <1>1, <1>2, <2>1 DEF StepsLeft, HopsLeft
<1>6. CASE Answered
  <2>1. pc = "answer" /\ pc' = "read" /\ req' = req /\ body' = 0
    BY <1>6 DEF Answered, Go
  <2> QED BY <1>1, <1>2, <2>1 DEF StepsLeft, HopsLeft
<1>7. CASE ReadChunk
  <2>1. /\ pc = "read" /\ req' = req
        /\ (pc' = "too_large") \/ (pc' = "read" /\ \E n \in 1..MaxChunk : body' = body + n)
    BY <1>7 DEF ReadChunk, Grown
  <2>2. pc' = "read" => body' \in Nat /\ body' > body /\ body' <= req.cap
    BY <1>1, <2>1, TransportAssumption DEF BodyBounded
  <2> QED BY <1>1, <1>2, <2>1, <2>2 DEF StepsLeft
<1>8. CASE ReadEnd \/ Lost
  <2>1. pc \in {"answer", "read"} /\ pc' \in {"done", "raised"}
    BY <1>8 DEF ReadEnd, Lost, Go
  <2> QED BY <1>1, <1>2, <2>1 DEF StepsLeft, HopsLeft
<1> QED BY <1>3, <1>4, <1>5, <1>6, <1>7, <1>8 DEF Get1, Get, Reply

\* So does every step of an adapter.
LEMMA StepLeavesLess ==
  ASSUME TInv, TInv', BodyBounded, BodyBounded', Waiting, WebNext
  PROVE  StepsLeft' < StepsLeft
<1>1. /\ asked \in Nat /\ asked <= MaxRedirects + 1 /\ MaxRedirects \in Nat /\ MaxResponse \in Nat
      /\ StepsLeft \in Nat
  BY LeftIsNumber
<1>2. CASE Request
  <2>1. /\ stage = "parse" /\ stage' = "get" /\ pc' = "hop" /\ asked' = asked /\ asked = 0
    BY <1>2 DEF Request, Begin, Go, Waiting, TInv, Placed
  <2> QED BY <1>1, <2>1 DEF StepsLeft, HopsLeft
<1>3. CASE Decline
  <2>1. stage = "parse" /\ stage' = "ended" BY <1>3 DEF Decline
  <2> QED BY <1>1, <2>1 DEF StepsLeft
<1>4. CASE Unanswered \/ NotSuccess \/ FetchAnswers \/ SearchAnswers
  <2>1. stage = "get" /\ stage' = "ended" /\ pc \in {"refused", "raised", "too_large", "done"}
    BY <1>4 DEF Unanswered, NotSuccess, FetchAnswers, SearchAnswers, End
  <2> QED BY <2>1 DEF StepsLeft
<1> QED BY <1>2, <1>3, <1>4, ClientLeavesLess DEF WebNext

\* http.py: however a chain leads on and an answer trickles, each step of a run
\* leaves it less to do than before, from a number the limits give.
THEOREM RunsRunOut ==
  WebSpec => [](StepsLeft \in Nat) /\ [][StepsLeft' < StepsLeft]_allVars
<1>1. TInv /\ BodyBounded => StepsLeft \in Nat BY LeftIsNumber
<1>2. TInv /\ TInv' /\ BodyBounded /\ BodyBounded' /\ Waiting /\ [WebNext]_allVars
        => [StepsLeft' < StepsLeft]_allVars
  BY StepLeavesLess
<1> QED BY <1>1, <1>2, TInvariant, WaitingInvariant, BodiesStayUnderTheCap, PTL DEF WebSpec
=============================================================================
