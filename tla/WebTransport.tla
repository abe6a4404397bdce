---------------------------- MODULE WebTransport ----------------------------
(***************************************************************************)
(* One retrieval by the web plane's client (http.RecordingClient.get, the  *)
(* redirect walk it does itself, the address guard and the pinned          *)
(* connection pool).                                                       *)
(*                                                                         *)
(* The far side is free: a name resolves to other addresses each time it   *)
(* is asked about, a server answers with any status and any location and   *)
(* sends as much as it likes, a connection fails, or is kept and used      *)
(* again.  An address is the network it is on and, for the IPv6 forms that *)
(* carry one, the network of the IPv4 address inside it.                   *)
(***************************************************************************)
EXTENDS Naturals, FiniteSets

CONSTANTS
  Urls,          \* records [scheme, host, port]
  HostKind,      \* of each host: "name", "local" or "literal"
  LiteralOf,     \* the address a literal host spells
  Addresses,     \* records [own, carries, inner]
  Caps,          \* cap_bytes
  MaxRedirects,  \* MAX_REDIRECTS
  MaxChunk       \* bound: the largest piece of a body

Nets == {"public", "internal"}
Vias == {"guarded", "open", "recording"}
NoAddress == [own |-> "none", carries |-> "none", inner |-> "none"]
Hosts == DOMAIN HostKind

ASSUME TransportAssumption ==
  /\ Urls \subseteq [scheme : {"http", "https", "ftp"}, host : Hosts, port : STRING]
  /\ HostKind \in [Hosts -> {"name", "local", "literal"}]
  /\ \A h \in Hosts : HostKind[h] = "literal" => h \in DOMAIN LiteralOf /\ LiteralOf[h] \in Addresses
  /\ Addresses \subseteq [own : Nets, carries : {"nothing", "translation", "tunnel"}, inner : Nets]
  /\ Caps \subseteq Nat /\ MaxRedirects \in Nat /\ MaxChunk \in Nat \ {0}

VARIABLES
  pc,        \* where get is
  req,       \* its arguments, and how the client was made: [url, headers, via, cap]
  target,    \* the url of the hop
  asked,     \* requests begun
  pins,      \* AddressGuard._pins
  pool,      \* connections kept open
  contacts,  \* EgressRecorder.contacted
  status,    \* of the last response: "none", "redirect", "success" or "other"
  body,      \* of it, as far as read
  code,      \* what get refused with
  wire,      \* history: the last request sent
  turns      \* history: redirects answered

vars == <<pc, req, target, asked, pins, pool, contacts, status, body, code, wire, turns>>

NoUrl == [scheme |-> "none", host |-> "none", port |-> "none"]
Unsent == [origin |-> NoUrl, address |-> NoAddress, headers |-> FALSE]
NoReq == [url |-> NoUrl, headers |-> FALSE, via |-> "open", cap |-> 0]

\* normalize_endpoint: the port goes when it is the scheme's own.
DefaultPort == [https |-> "443", http |-> "80", ftp |-> "21"]
Origin(url) == IF url.port = DefaultPort[url.scheme] THEN [url EXCEPT !.port = "none"] ELSE url
Origins == {Origin(u) : u \in Urls}

Init ==
  /\ pc = "idle" /\ req = NoReq /\ target = NoUrl /\ asked = 0
  /\ pins = [h \in Hosts |-> {}] /\ pool = {} /\ contacts = {}
  /\ status = "none" /\ body = 0 /\ code = "none"
  /\ wire = Unsent /\ turns = 0

-----------------------------------------------------------------------------
(* The client.                                                              *)

Refuse(c) == pc' = "refused" /\ code' = c
Go(to) == pc' = to /\ UNCHANGED code

Begin(r) ==
  /\ pc = "idle"
  /\ req' = r /\ target' = r.url /\ Go("hop")
  /\ UNCHANGED <<asked, pins, pool, contacts, status, body, wire, turns>>

\* The IPv4 address inside decides for a translation, and also for a tunnel.
Blocked(a) == \/ a.carries # "nothing" /\ a.inner = "internal"
              \/ a.carries # "translation" /\ a.own = "internal"

VetOnly == UNCHANGED <<req, target, asked, pool, contacts, status, body, wire, turns>>

\* AddressGuard.vet, asked before every request: every address must pass, and
\* those of this answer replace the ones remembered for the host.
Vet ==
  /\ pc = "hop" /\ req.via = "guarded"
  /\ \/ /\ HostKind[target.host] = "local"
        /\ Refuse("provider_declined") /\ UNCHANGED pins
     \/ \E answer \in IF HostKind[target.host] = "literal" THEN {{LiteralOf[target.host]}}
                      ELSE SUBSET Addresses :
          /\ HostKind[target.host] # "local"
          /\ IF answer = {} THEN Go("raised") /\ UNCHANGED pins
             ELSE IF \E a \in answer : Blocked(a) THEN Refuse("provider_declined") /\ UNCHANGED pins
             ELSE Go("send") /\ pins' = [pins EXCEPT ![target.host] = answer]
  /\ VetOnly

NoVet == pc = "hop" /\ req.via # "guarded" /\ Go("send") /\ UNCHANGED pins /\ VetOnly

\* What a connection for the hop may go to: a kept one, or a new one.
Dialled_Resolves ==
  {c.address : c \in {k \in pool : k.origin = Origin(target)}}
  \cup (IF req.via # "recording" THEN Addresses ELSE {NoAddress})
Dialled ==
  {c.address : c \in {k \in pool : k.origin = Origin(target)}}
  \cup (IF req.via = "guarded" THEN pins[target.host]
        ELSE IF req.via = "open" THEN Addresses ELSE {NoAddress})

RecordsHop == contacts' = contacts \cup {Origin(target)}

\* The event hook records the request before there is a connection.
Send ==
  /\ pc = "send"
  /\ RecordsHop /\ asked' = asked + 1
  /\ \/ \E a \in Dialled :
          /\ wire' = [origin |-> Origin(target), address |-> a, headers |-> req.headers]
          /\ Go("answer")
     \/ req.via # "recording" /\ Go("raised") /\ UNCHANGED wire
  /\ UNCHANGED <<req, target, pins, pool, status, body, turns>>

\* The connection may be kept when the response was given up or read.
KeepsOrNot == pool' \in {pool, pool \cup {[origin |-> wire.origin, address |-> wire.address]}}

CrossesOrigin_ByHost(here, there) == here.host # there.host
CrossesOrigin(here, there) ==
  /\ Origin(here) # Origin(there)
  /\ Origin(there) # (IF here.scheme = "http" THEN [Origin(here) EXCEPT !.scheme = "https"]
                      ELSE Origin(here))

NextHopFault(there) ==
  IF there.scheme \notin {"http", "https"} THEN "unsupported_redirect_scheme"
  ELSE IF req.headers /\ CrossesOrigin(target, there) THEN "cross_origin_credentialed_redirect"
  ELSE "none"

MoreHops_OneLess == asked < MaxRedirects
MoreHops == asked < MaxRedirects + 1

\* A redirect that names a place is judged, and only then is the chain too long.
Redirected ==
  /\ pc = "answer" /\ req.via # "recording"
  /\ status' = "redirect" /\ turns' = turns + 1
  /\ \E there \in Urls :
       IF NextHopFault(there) # "none" THEN Refuse(NextHopFault(there)) /\ UNCHANGED target
       ELSE /\ target' = there
            /\ IF MoreHops THEN Go("hop") ELSE Refuse("redirect_limit")
  /\ KeepsOrNot
  /\ UNCHANGED <<req, asked, pins, contacts, body, wire>>

\* Any other response is the answer, a redirect without a location among them.
Answered ==
  /\ pc = "answer" /\ Go("read")
  /\ status' \in {"success", "redirect", "other"} /\ body' = 0
  /\ UNCHANGED <<req, target, asked, pins, pool, contacts, wire, turns>>

TooLarge(read) == read > req.cap

Grown_LastOnly(n) == n
Grown(n) == body + n

\* The piece that goes over the cap is counted and not kept.
ReadChunk ==
  /\ pc = "read"
  /\ \E n \in 1..MaxChunk :
       IF TooLarge(Grown(n)) THEN pc' = "too_large" /\ UNCHANGED body
       ELSE body' = Grown(n) /\ UNCHANGED pc
  /\ UNCHANGED <<req, target, asked, pins, pool, contacts, status, code, wire, turns>>

ReadEnd ==
  /\ pc = "read" /\ Go("done")
  /\ UNCHANGED <<req, target, asked, pins, pool, contacts, status, body, wire, turns>>

\* The network fails, or nothing arrives for as long as httpx's timeout.
Lost ==
  /\ pc \in {"answer", "read"} /\ req.via # "recording" /\ Go("raised")
  /\ UNCHANGED <<req, target, asked, pins, pool, contacts, status, body, wire, turns>>

Get == Vet \/ NoVet \/ Send
Reply == Redirected \/ Answered \/ ReadChunk \/ ReadEnd \/ Lost

Over == pc \in {"done", "refused", "raised", "too_large"}

-----------------------------------------------------------------------------
(* Properties.                                                              *)

\* Networks a packet to the address gets to.
Reaches(a) == CASE a.carries = "nothing" -> {a.own}
                [] a.carries = "translation" -> {a.inner}
                [] a.carries = "tunnel" -> {a.own, a.inner}

Codes == {"none", "provider_declined", "unsupported_redirect_scheme",
          "cross_origin_credentialed_redirect", "redirect_limit"}

TransportTypeOK ==
  /\ pc \in {"idle", "hop", "send", "answer", "read", "done", "refused", "raised", "too_large"}
  /\ req \in [url : Urls, headers : BOOLEAN, via : Vias, cap : Caps] \cup {NoReq}
  /\ target \in Urls \cup {NoUrl} /\ asked \in 0..MaxRedirects + 1
  /\ pins \in [Hosts -> SUBSET Addresses]
  /\ pool \subseteq [origin : Origins, address : Addresses]
  /\ contacts \subseteq Origins
  /\ status \in {"none", "redirect", "success", "other"} /\ body \in Nat /\ code \in Codes
  /\ wire \in [origin : Origins \cup {NoUrl}, address : Addresses \cup {NoAddress}, headers : BOOLEAN]
  /\ turns \in Nat

\* "connections go only to vetted addresses": whatever the names resolve to from
\* one moment to the next, wherever the chain leads and whichever connections are
\* used again, a guarded client never has a socket into an internal network.
NothingInternal ==
  req.via = "guarded" /\ wire # Unsent => "internal" \notin Reaches(wire.address)

\* The headers the run's credential is in go to the origin the run named and to
\* nobody else over any chain, but for the same place over https.
HeadersStayHome ==
  wire.headers =>
    \/ wire.origin = Origin(req.url)
    \/ req.url.scheme = "http" /\ wire.origin = [Origin(req.url) EXCEPT !.scheme = "https"]

\* "every request the client issues, redirect hops included, lands in the run's
\* egress recorder", also when it was never answered; nothing else does.
AllRecorded == /\ wire # Unsent => wire.origin \in contacts
               /\ Cardinality(contacts) <= asked

\* A chain is refused for its length only when it has one redirect more than the
\* limit, and one of exactly the limit is read to its end.
LimitExact ==
  /\ code = "redirect_limit" => turns = MaxRedirects + 1
  /\ pc \in {"read", "done", "too_large"} => turns <= MaxRedirects
  /\ pc \in {"hop", "send"} => asked = turns

\* "reading at most cap_bytes": of an answer no more than the cap is ever kept.
BodyBounded == body <= req.cap
=============================================================================
