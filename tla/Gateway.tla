------------------------------ MODULE Gateway ------------------------------
(***************************************************************************)
(* What happens to an accepted connection: the peek loop                   *)
(* (managed_stream.rs), the choice between tunnel and termination          *)
(* (proxy.rs, tcp.rs), the choice of a backend (v3.rs), the terminating    *)
(* service (http_proxy) and the connection's entry in the tracked          *)
(* connections.                                                            *)
(*                                                                         *)
(* One site is configured; clients ask for it or for odd-box's own API.    *)
(* Of what a client has sent the peek loop sees nothing, a sliver (too few *)
(* bytes for a TLS record, or a piece of the HTTP/2 preface), a part (half *)
(* a ClientHello or request head, the HTTP/2 preface with one frame) or    *)
(* the whole.                                                              *)
(***************************************************************************)
EXTENDS Naturals, FiniteSets, Sequences

CONSTANTS
  Conns,       \* connections
  Arrivals,    \* Arrivals[c]: what may arrive as c: records of Client
  SiteChoices, \* configurations of the site: records of Site
  MaxTries,    \* peeks before a connection is dropped (5 in the code)
  Permits,     \* requests to backends at a time (400 in the code)
  Wrap,        \* where the counter of accesses starts over (bound)
  None

Hints   == {"H1", "H2", "H2C", "H2CPK"}
Backend == [https : BOOLEAN, hints : SUBSET Hints]

\* A client: the port it connects to, whether it speaks TLS and names a server, the
\* HTTP version, an upgrade it asks for, and whom it asks for.
Client == [port : {"http", "https"}, tls : BOOLEAN, sni : BOOLEAN, ver : {"h1", "h2"},
           upgrade : {"none", "h2c", "ws"}, host : {"site", "api"}]

Site == [kind : {"hosted", "remote", "other"}, redirect : BOOLEAN, termHttp : BOOLEAN,
         termTls : BOOLEAN, le : BOOLEAN, rewrite : BOOLEAN, backends : Seq(Backend)]

\* An entry of active_connections: what the flags of the stream say.
Entry == [tls : BOOLEAN, tlsTerm : BOOLEAN, httpTerm : BOOLEAN, tunnel : {"none", "raw", "tls"},
          new : BOOLEAN]

ASSUME GatewayAssumption ==
  /\ IsFiniteSet(Conns)
  /\ Arrivals \in [Conns -> SUBSET Client] /\ SiteChoices \subseteq Site
  /\ \A s \in SiteChoices : s.kind # "other" => s.backends # <<>>
  /\ \A s \in SiteChoices : s.kind = "hosted" => Len(s.backends) = 1
  /\ MaxTries \in Nat /\ Permits \in Nat /\ Wrap \in Nat \ {0}
  /\ None \notin Client \cup Entry

VARIABLES
  site,    \* the configuration of the site
  proc,    \* its process, if hosted: "unstarted" (no port yet), "stopped", "starting", "running"
  count,   \* lb_access_count_per_hostname of the site
  phase,   \* where each connection is
  client,  \* what arrived, or None
  seen,    \* how much of its first message has been sent: an index of Pieces
  tries,   \* attempts of the peek loop
  obs,     \* H2Observer of the peek: "fresh", "half" (a piece of the preface is in its
           \* buffer), "fed" (the preface is consumed) or "garbled"
  peeked,  \* result of the peek: "none", "bad", "tls", "h1", "h2", "late" (HTTP/2
           \* that must be answered before it names a host)
  wrapped, \* odd-box has terminated its TLS
  backend, \* index of its backend, or 0
  tracked, \* its entry in active_connections, or None
  opened, closed \* TCPEvents Open and Close sent for it

siteVars  == <<site, proc, count>>
peekVars  == <<seen, tries, obs>>
trackVars == <<tracked, opened, closed>>
vars == <<siteVars, phase, client, peekVars, peeked, wrapped, backend, trackVars>>

Peeking == {"peek", "peekTunnel", "peekServe"}
Phases  == Peeking \cup
  {"out", "route", "acceptApi", "acceptTunnel", "acceptServe", "pick", "connect", "tunnel",
   "fallback", "serve", "wake", "permit", "response", "websocket", "api", "drop", "dropInner",
   "gone"}
Pieces == <<"nothing", "sliver", "part", "whole">>
Has(c) == Pieces[seen[c]]

Goto(c, p)     == phase' = [phase EXCEPT ![c] = p]
FreshPeek(c)   == /\ seen' = [seen EXCEPT ![c] = 1] /\ tries' = [tries EXCEPT ![c] = 0]
                  /\ obs' = [obs EXCEPT ![c] = "fresh"]

-----------------------------------------------------------------------------
(* Clients. *)

Arrive(c, k) ==
  /\ phase[c] = "out"
  /\ Goto(c, "peek") /\ client' = [client EXCEPT ![c] = k]
  /\ UNCHANGED <<siteVars, peekVars, peeked, wrapped, backend, trackVars>>

Sends(c, n) ==
  /\ phase[c] \in Peeking /\ n \in seen[c] + 1 .. Len(Pieces)
  /\ seen' = [seen EXCEPT ![c] = n]
  /\ UNCHANGED <<siteVars, phase, client, tries, obs, peeked, wrapped, backend, trackVars>>

-----------------------------------------------------------------------------
(* The peek loop, on the raw stream and again on a terminated one. *)

\* A ClientHello is looked for on the raw stream only: inside TLS it is not TLS.
Hello(c)     == client[c].tls /\ ~wrapped[c]
HalfHello(c) == phase[c] \in Peeking /\ Hello(c) /\ Has(c) = "part"

\* is_valid_http2_request wants 14 bytes, the observer 24; every peek hands the whole
\* buffer to the observer again.
Refed(o, piece) ==
  CASE o = "fresh" /\ piece = "sliver" -> "half"
    [] o = "fresh" /\ piece = "part"   -> "fed"
    [] o = "half"                      -> "fresh"
    [] OTHER                           -> "garbled"

\* The entry of a stream with which nothing has been done.
Flags(c) == [tls |-> client[c].tls, tlsTerm |-> wrapped[c], httpTerm |-> FALSE,
             tunnel |-> "none", new |-> FALSE]

\* update_tracked_info: the flags are refreshed from the stream and then changed; an
\* entry that is gone stays gone.
Refreshed(c) == [Flags(c) EXCEPT !.tunnel = tracked[c].tunnel]
Update(c, e) == tracked' = [tracked EXCEPT ![c] = IF @ = None THEN None ELSE e]

\* The peek has a result: seal, track (the raw stream), go on.
PeekEnds(c, r) ==
  /\ FreshPeek(c)
  /\ peeked' = [peeked EXCEPT ![c] = r]
  /\ \/ /\ phase[c] = "peek"
        /\ Goto(c, "route")
        /\ tracked' = [tracked EXCEPT ![c] = [Flags(c) EXCEPT !.new = TRUE]]
        /\ opened' = [opened EXCEPT ![c] = @ + 1]
     \/ /\ phase[c] = "peekTunnel"
        /\ Goto(c, IF r = "bad" THEN "drop" ELSE "pick")
        /\ IF r = "h2" THEN Update(c, Refreshed(c)) ELSE UNCHANGED tracked
        /\ UNCHANGED opened
     \/ /\ phase[c] = "peekServe"
        /\ Goto(c, "serve")
        /\ Update(c, [Refreshed(c) EXCEPT !.tls = TRUE, !.tlsTerm = TRUE, !.httpTerm = TRUE])
        /\ UNCHANGED opened
  /\ UNCHANGED <<siteVars, client, wrapped, backend, closed>>

\* What the loop is looking for is there.  HTTP/2 needs a fresh observer; without a
\* host in its first request it is answered by the SNI inside TLS, else not at all.
Found(c) ==
  /\ phase[c] \in Peeking /\ tries[c] < MaxTries /\ Has(c) = "whole"
  /\ IF Hello(c) THEN client[c].sni /\ PeekEnds(c, "tls")
     ELSE IF client[c].ver = "h1" THEN PeekEnds(c, "h1")
     ELSE /\ obs[c] = "fresh"
          /\ \E r \in {"h2"} \cup (IF wrapped[c] THEN {} ELSE {"late"}) : PeekEnds(c, r)

\* Fewer than six bytes of a TLS record are "not a handshake".
Broken(c) ==
  /\ phase[c] \in Peeking /\ tries[c] < MaxTries
  /\ Hello(c) /\ Has(c) = "sliver"
  /\ PeekEnds(c, "bad")

\* Mutant of Again: polls that find nothing are not counted.
Again_NotCounted(c) ==
  /\ phase[c] \in Peeking /\ tries[c] < MaxTries
  /\ \/ Has(c) = "nothing" /\ UNCHANGED <<tries, obs>>
     \/ /\ Hello(c) /\ Has(c) = "whole" /\ ~client[c].sni
        /\ tries' = [tries EXCEPT ![c] = @ + 1] /\ UNCHANGED obs
     \/ /\ ~Hello(c) /\ Has(c) \in {"sliver", "part"}
        /\ tries' = [tries EXCEPT ![c] = @ + 1]
        /\ obs' = [obs EXCEPT ![c] = IF client[c].ver = "h2" THEN Refed(@, Has(c)) ELSE @]
  /\ UNCHANGED <<siteVars, phase, client, seen, peeked, wrapped, backend, trackVars>>

\* Not enough yet: another attempt.  Half a ClientHello is the exception: the loop
\* continues without a pause or a count.
Again(c) ==
  /\ phase[c] \in Peeking /\ tries[c] < MaxTries
  /\ tries' = [tries EXCEPT ![c] = @ + 1]
  /\ \/ Has(c) = "nothing" /\ UNCHANGED obs
     \/ Hello(c) /\ Has(c) = "whole" /\ ~client[c].sni /\ UNCHANGED obs
     \/ ~Hello(c) /\ client[c].ver = "h1" /\ Has(c) \in {"sliver", "part"} /\ UNCHANGED obs
     \/ ~Hello(c) /\ client[c].ver = "h2" /\ Has(c) = "sliver" /\ UNCHANGED obs
     \/ /\ ~Hello(c) /\ client[c].ver = "h2" /\ Has(c) # "nothing"
        /\ Has(c) = "whole" => obs[c] # "fresh"
        /\ obs' = [obs EXCEPT ![c] = Refed(@, Has(c))]
  /\ UNCHANGED <<siteVars, phase, client, seen, peeked, wrapped, backend, trackVars>>

GiveUp(c) ==
  /\ phase[c] \in Peeking /\ tries[c] = MaxTries
  /\ PeekEnds(c, "bad")

-----------------------------------------------------------------------------
(* Tunnel or terminate. *)

BackendHints == UNION {site.backends[i].hints : i \in DOMAIN site.backends}

\* try_find_site knows hosted sites with a port and remote ones.
Findable == site.kind = "remote" \/ (site.kind = "hosted" /\ proc # "unstarted")

\* Mutant of Enforced: Let's Encrypt sites are tunnelled.
Enforced_NotForLE(c) ==
  \/ site.redirect /\ peeked[c] # "tls"
  \/ site.termHttp
  \/ site.kind = "remote" /\ site.rewrite

\* The configuration wants its requests terminated.
Enforced(c) ==
  \/ site.redirect /\ peeked[c] # "tls"
  \/ site.termHttp
  \/ site.le
  \/ site.kind = "remote" /\ site.rewrite

\* No backend is said to understand what arrives.
Unhinted(c) ==
  \/ peeked[c] = "h2" /\ BackendHints \cap {"H2", "H2CPK"} = {}
  \/ peeked[c] = "h1" /\ client[c].upgrade = "h2c" /\ "H2C" \notin BackendHints

\* TLS is terminated for a tunnel if the site says so or no backend speaks it.
TerminatesTls(c) ==
  peeked[c] = "tls" /\ (site.termTls \/ \A i \in DOMAIN site.backends : ~site.backends[i].https)

RouteTo(c) ==
  IF peeked[c] = "bad" THEN "drop"
  ELSE IF peeked[c] = "late" THEN "fallback"
  ELSE IF client[c].host = "api" /\ client[c].port = "https" THEN "acceptApi"
  ELSE IF client[c].host = "api" \/ ~Findable \/ Enforced(c) \/ Unhinted(c) THEN "fallback"
  ELSE IF ~TerminatesTls(c) THEN "pick"
  ELSE IF client[c].port = "https" THEN "acceptTunnel" ELSE "drop"

\* A hosted site that is stopped is started by whoever wants to tunnel to it.
Woken(c) == IF RouteTo(c) \in {"pick", "acceptTunnel"} /\ site.kind = "hosted" /\ proc = "stopped"
            THEN "starting" ELSE proc

\* handle_new_tcp_stream up to the call that carries the stream on.
Route(c) ==
  /\ phase[c] = "route"
  /\ Goto(c, RouteTo(c))
  /\ proc' = Woken(c)
  /\ IF RouteTo(c) = "acceptApi"
     THEN Update(c, [Refreshed(c) EXCEPT !.httpTerm = TRUE]) ELSE UNCHANGED tracked
  /\ UNCHANGED <<site, count, client, peekVars, peeked, wrapped, backend, opened, closed>>

\* Mutant of Fallback: a connection that was terminated for a tunnel is served without
\* telling its entry.
Fallback_Untold(c) ==
  /\ phase[c] = "fallback"
  /\ IF client[c].port = "https" /\ ~wrapped[c]
     THEN Goto(c, "acceptServe") /\ UNCHANGED tracked
     ELSE /\ Goto(c, "serve")
          /\ IF wrapped[c] THEN UNCHANGED tracked
             ELSE Update(c, [Refreshed(c) EXCEPT !.httpTerm = TRUE])
  /\ UNCHANGED <<siteVars, client, peekVars, peeked, wrapped, backend, opened, closed>>

\* use_fallback_mode up to the TLS handshake or the service.
Fallback(c) ==
  /\ phase[c] = "fallback"
  /\ IF client[c].port = "https" /\ ~wrapped[c]
     THEN Goto(c, "acceptServe") /\ UNCHANGED tracked
     ELSE /\ Goto(c, "serve")
          /\ Update(c, [Refreshed(c) EXCEPT !.httpTerm = TRUE])
  /\ UNCHANGED <<siteVars, client, peekVars, peeked, wrapped, backend, opened, closed>>

\* A TLS handshake ends well; what follows depends on who asked for it.
Accept(c) ==
  /\ phase[c] \in {"acceptApi", "acceptTunnel", "acceptServe"} /\ client[c].tls
  /\ wrapped' = [wrapped EXCEPT ![c] = TRUE]
  /\ \/ /\ phase[c] = "acceptApi" /\ Goto(c, "api")
        /\ tracked' = [tracked EXCEPT ![c].tlsTerm = TRUE, ![c].httpTerm = TRUE, ![c].new = FALSE]
     \/ phase[c] = "acceptTunnel" /\ Goto(c, "peekTunnel") /\ UNCHANGED tracked
     \/ phase[c] = "acceptServe" /\ Goto(c, "peekServe") /\ UNCHANGED tracked
  /\ UNCHANGED <<siteVars, client, peekVars, peeked, backend, opened, closed>>

\* Clear text on the TLS port cannot shake hands.
AcceptFails(c) ==
  /\ phase[c] \in {"acceptApi", "acceptTunnel", "acceptServe"} /\ ~client[c].tls
  /\ Goto(c, "drop")
  /\ UNCHANGED <<siteVars, client, peekVars, peeked, wrapped, backend, trackVars>>

-----------------------------------------------------------------------------
(* Backends. *)

\* Mutant of Suits: what is tunnelled undeciphered may go to any backend.
Suits_AnyForTls(c, b) ==
  CASE peeked[c] = "tls"                               -> TRUE
    [] peeked[c] = "h2" /\ wrapped[c]                  -> b.hints \cap {"H2", "H2CPK"} # {}
    [] peeked[c] = "h2" /\ ~wrapped[c]                 -> "H2CPK" \in b.hints
    [] peeked[c] = "h1" /\ client[c].upgrade = "h2c" /\ ~wrapped[c] -> "H2C" \in b.hints
    [] OTHER                                           -> b.hints = {} \/ "H1" \in b.hints

\* peekresult_to_backend_filter and filter_backend: may c be tunnelled to b?  An upgrade
\* to h2c is only seen on the raw stream.
Suits(c, b) ==
  CASE peeked[c] = "tls"                               -> b.https
    [] peeked[c] = "h2" /\ wrapped[c]                  -> b.hints \cap {"H2", "H2CPK"} # {}
    [] peeked[c] = "h2" /\ ~wrapped[c]                 -> "H2CPK" \in b.hints
    [] peeked[c] = "h1" /\ client[c].upgrade = "h2c" /\ ~wrapped[c] -> "H2C" \in b.hints
    [] OTHER                                           -> b.hints = {} \/ "H1" \in b.hints

\* next_backend: round robin over the indices that are left, by the accesses so far.
IsNext(S, i, accesses) == Cardinality({j \in S : j < i}) = accesses % Cardinality(S)
All         == DOMAIN site.backends
Suitable(c) == {i \in All : Suits(c, site.backends[i])}
Counted     == (count + 1) % Wrap

Pick(c) ==
  /\ phase[c] = "pick"
  /\ \/ Suitable(c) = {} /\ Goto(c, "fallback") /\ UNCHANGED backend
     \/ \E i \in Suitable(c) :
          /\ IsNext(Suitable(c), i, count)
          /\ backend' = [backend EXCEPT ![c] = i]
          /\ Goto(c, "connect")
  /\ UNCHANGED <<siteVars, client, peekVars, peeked, wrapped, trackVars>>

\* The backend accepts the connection (and the TLS handshake, if one is erected).
Connect(c) ==
  /\ phase[c] = "connect"
  /\ Goto(c, "tunnel")
  /\ count' = Counted
  /\ Update(c, [Refreshed(c) EXCEPT !.tls = client[c].tls, !.tunnel =
              IF site.backends[backend[c]].https THEN "tls" ELSE "raw"])
  /\ UNCHANGED <<site, proc, client, peekVars, peeked, wrapped, backend, opened, closed>>

\* It does not: only successful connections count.
ConnectFails(c) ==
  /\ phase[c] = "connect"
  /\ Goto(c, "drop")
  /\ UNCHANGED <<siteVars, client, peekVars, peeked, wrapped, backend, trackVars>>

-----------------------------------------------------------------------------
(* The terminating service. *)

\* TLS that was not terminated cannot be served.
Unservable(c) ==
  /\ phase[c] = "serve" /\ client[c].tls /\ ~wrapped[c]
  /\ Goto(c, "drop")
  /\ UNCHANGED <<siteVars, client, peekVars, peeked, wrapped, backend, trackVars>>

Readable(c) == ~client[c].tls \/ wrapped[c]

\* A websocket goes its own way: no redirect, no count, no permit; a hosted process
\* must have a port.
UpgradeWebsocket(c) ==
  /\ phase[c] = "serve" /\ Readable(c) /\ client[c].host = "site" /\ client[c].upgrade = "ws"
  /\ \/ /\ Findable
        /\ \E i \in All : IsNext(All, i, count) /\ backend' = [backend EXCEPT ![c] = i]
        /\ Goto(c, "websocket")
     \/ Goto(c, "drop") /\ UNCHANGED backend
  /\ UNCHANGED <<siteVars, client, peekVars, peeked, wrapped, trackVars>>

\* handle_http_request up to its first wait.  The count goes up before the backend is
\* chosen.  What is not the site's is answered at once, and so is a redirect.
Request(c) ==
  /\ phase[c] = "serve" /\ Readable(c) /\ client[c].upgrade # "ws"
  /\ IF client[c].host = "api"
     THEN UNCHANGED <<siteVars, phase, backend>>
     ELSE /\ count' = Counted /\ UNCHANGED site
          /\ IF site.kind = "other" \/ (site.redirect /\ ~wrapped[c])
             THEN UNCHANGED <<proc, phase, backend>>
             ELSE IF site.kind = "hosted"
             THEN /\ proc' = IF proc \in {"unstarted", "stopped"} THEN "starting" ELSE proc
                  /\ Goto(c, "wake") /\ UNCHANGED backend
             ELSE /\ UNCHANGED proc
                  /\ \E i \in All : IsNext(All, i, count') /\ backend' = [backend EXCEPT ![c] = i]
                  /\ Goto(c, "permit")
  /\ UNCHANGED <<client, peekVars, peeked, wrapped, trackVars>>

\* The wait for a hosted process ends: it has a pid and a port, or "please wait", or
\* after eleven looks an error.
Woke(c) ==
  /\ phase[c] = "wake" /\ proc = "running"
  /\ backend' = [backend EXCEPT ![c] = 1]
  /\ Goto(c, "permit")
  /\ UNCHANGED <<siteVars, client, peekVars, peeked, wrapped, trackVars>>

TooLate(c) ==
  /\ phase[c] = "wake" /\ proc # "running"
  /\ Goto(c, "serve")
  /\ UNCHANGED <<siteVars, client, peekVars, peeked, wrapped, backend, trackVars>>

InFlight == {c \in Conns : phase[c] = "response"}

\* Mutant of Permit: the semaphore is not asked.
Permit_Unlimited(c) ==
  /\ phase[c] = "permit"
  /\ Goto(c, "response")
  /\ UNCHANGED <<siteVars, client, peekVars, peeked, wrapped, backend, trackVars>>

\* A permit of ACTIVE_HYPER_CLIENT_CONNECTIONS, held until the head of the response.
Permit(c) ==
  /\ phase[c] = "permit" /\ Cardinality(InFlight) < Permits
  /\ Goto(c, "response")
  /\ UNCHANGED <<siteVars, client, peekVars, peeked, wrapped, backend, trackVars>>

\* The backend answers, or the request fails.  Nothing limits the wait.
Respond(c) ==
  /\ phase[c] = "response"
  /\ Goto(c, "serve") /\ backend' = [backend EXCEPT ![c] = 0]
  /\ UNCHANGED <<siteVars, client, peekVars, peeked, wrapped, trackVars>>

\* A hosted process comes up, and may end; the supervisor's business.
ProcUp ==
  /\ proc = "starting" /\ proc' = "running"
  /\ UNCHANGED <<site, count, phase, client, peekVars, peeked, wrapped, backend, trackVars>>

ProcStopped ==
  /\ proc = "running" /\ proc' = "stopped"
  /\ UNCHANGED <<site, count, phase, client, peekVars, peeked, wrapped, backend, trackVars>>

-----------------------------------------------------------------------------
(* The end. *)

\* The client hangs up, or the tunnel ends.
Leaves(c) ==
  /\ phase[c] \in Phases \ {"out", "peek", "peekTunnel", "peekServe", "drop", "dropInner", "gone"}
  /\ Goto(c, "drop")
  /\ UNCHANGED <<siteVars, client, peekVars, peeked, wrapped, backend, trackVars>>

\* It hangs up while it is peeked at.
PeekClosed(c) == phase[c] \in Peeking /\ PeekEnds(c, "bad")

Forget(c) ==
  /\ client' = [client EXCEPT ![c] = None]
  /\ peeked' = [peeked EXCEPT ![c] = "none"]
  /\ wrapped' = [wrapped EXCEPT ![c] = FALSE]
  /\ backend' = [backend EXCEPT ![c] = 0]

\* Mutant of Deleted: the event is sent whether there was an entry or not.
Deleted_Always(c) ==
  /\ tracked' = [tracked EXCEPT ![c] = None]
  /\ closed' = [closed EXCEPT ![c] = @ + 1]
  /\ UNCHANGED opened

\* del_connection: the entry goes, and if there was one an event.
Deleted(c) ==
  /\ tracked' = [tracked EXCEPT ![c] = None]
  /\ closed' = [closed EXCEPT ![c] = IF tracked[c] = None THEN @ ELSE @ + 1]
  /\ UNCHANGED opened

\* Drop of a stream; a terminated one holds the raw one, which is dropped after it.
Drop(c) ==
  /\ phase[c] = "drop"
  /\ Deleted(c)
  /\ IF wrapped[c]
     THEN Goto(c, "dropInner") /\ UNCHANGED <<client, peeked, wrapped, backend>>
     ELSE Goto(c, "gone") /\ Forget(c)
  /\ UNCHANGED <<siteVars, peekVars>>

DropInner(c) ==
  /\ phase[c] = "dropInner"
  /\ Deleted(c)
  /\ Goto(c, "gone") /\ Forget(c)
  /\ UNCHANGED <<siteVars, peekVars>>

-----------------------------------------------------------------------------
Init ==
  /\ site \in SiteChoices /\ count = 0
  /\ proc \in IF site.kind = "hosted" THEN {"unstarted", "running"} ELSE {"unstarted"}
  /\ phase = [c \in Conns |-> "out"] /\ client = [c \in Conns |-> None]
  /\ seen = [c \in Conns |-> 1] /\ tries = [c \in Conns |-> 0]
  /\ obs = [c \in Conns |-> "fresh"] /\ peeked = [c \in Conns |-> "none"]
  /\ wrapped = [c \in Conns |-> FALSE] /\ backend = [c \in Conns |-> 0]
  /\ tracked = [c \in Conns |-> None]
  /\ opened = [c \in Conns |-> 0] /\ closed = [c \in Conns |-> 0]

\* Steps of odd-box that wait for nobody else.
Poll(c) == Found(c) \/ Broken(c) \/ Again(c) \/ GiveUp(c)
OwnStep(c) ==
  \/ Poll(c)
  \/ Route(c) \/ Fallback(c) \/ AcceptFails(c) \/ Pick(c) \/ Connect(c) \/ ConnectFails(c)
  \/ Unservable(c) \/ Woke(c) \/ TooLate(c) \/ Drop(c) \/ DropInner(c)

Next ==
  \/ \E c \in Conns :
       \/ \E k \in Arrivals[c] : Arrive(c, k)
       \/ \E n \in 1..Len(Pieces) : Sends(c, n)
       \/ OwnStep(c) \/ Permit(c)
       \/ Accept(c) \/ UpgradeWebsocket(c) \/ Request(c) \/ Respond(c)
       \/ Leaves(c) \/ PeekClosed(c)
  \/ ProcUp \/ ProcStopped

\* Every connection has a task of its own; Tokio's semaphore is first-in first-out.
\* Clients and backends owe nothing.
Fairness == \A c \in Conns : WF_vars(OwnStep(c)) /\ SF_vars(Permit(c))

Spec == Init /\ [][Next]_vars /\ Fairness

-----------------------------------------------------------------------------
\* Values stay in their types: the peek loop never exceeds its attempts, a connection has
\* a backend in mind exactly where it needs one, and never more requests are in flight
\* than there are permits (managed_stream.rs, tcp.rs, utils.rs).
TypeOK ==
  /\ site \in SiteChoices /\ proc \in {"unstarted", "stopped", "starting", "running"}
  /\ count \in 0..Wrap - 1
  /\ phase \in [Conns -> Phases]
  /\ \A c \in Conns : client[c] \in Arrivals[c] \cup {None}
  /\ \A c \in Conns : client[c] = None <=> phase[c] \in {"out", "gone"}
  /\ seen \in [Conns -> 1..Len(Pieces)] /\ tries \in [Conns -> 0..MaxTries]
  /\ obs \in [Conns -> {"fresh", "half", "fed", "garbled"}]
  /\ peeked \in [Conns -> {"none", "bad", "tls", "h1", "h2", "late"}]
  /\ wrapped \in [Conns -> BOOLEAN] /\ tracked \in [Conns -> Entry \cup {None}]
  /\ \A c \in Conns : wrapped[c] => client[c].tls
  /\ \A c \in Conns : backend[c] \in 0..Len(site.backends)
  /\ \A c \in Conns : phase[c] \in {"connect", "tunnel", "permit", "response", "websocket"}
                        => backend[c] # 0
  /\ Cardinality(InFlight) <= Permits

(***************************************************************************)
(* What a backend receives.                                                *)
(***************************************************************************)
UsesH2cPrior(c, b) ==
  LET h2c == ~wrapped[c] /\ (client[c].ver = "h2" \/ client[c].upgrade = "h2c")
  IN  "H2CPK" \in b.hints /\ (h2c \/ "H1" \notin b.hints)

\* Does the wire to the backend carry TLS?  A tunnel goes as it came unless it was
\* terminated, or clear, and the backend wants TLS.
WireTls(c, b) ==
  CASE phase[c] = "tunnel" /\ peeked[c] = "tls" -> TRUE
    [] phase[c] = "websocket"                   -> b.https \/ wrapped[c]
    [] OTHER                                    -> b.https

\* The HTTP version on it; "alpn" if the two ends agree on one.
WireHttp(c, b) ==
  CASE phase[c] = "tunnel"    -> IF peeked[c] = "tls" THEN "alpn" ELSE peeked[c]
    [] phase[c] = "websocket" -> "h1"
    [] OTHER -> IF UsesH2cPrior(c, b) THEN "h2" ELSE IF b.https THEN "alpn" ELSE "h1"

\* H2 is for TLS, H2C and H2CPK are for clear text.
Coherent(b) == IF b.https THEN b.hints \subseteq {"H1", "H2"} ELSE "H2" \notin b.hints

\* A backend understands HTTP/1.1 if it hints at nothing or at H1, or if it is asked to
\* upgrade to h2c and can.
TakesHttp1(c, b) ==
  \/ b.hints = {} \/ "H1" \in b.hints
  \/ client[c].upgrade = "h2c" /\ "H2C" \in b.hints

(***************************************************************************)
(* The exceptions, both against the hints: websockets that arrive over TLS *)
(* are sent on over TLS, to clear-text backends too; and HTTP/1.1 goes to  *)
(* a backend that hints but not at H1, always for a websocket, and for a   *)
(* terminated request where h2c by upgrade is all it offers.               *)
(***************************************************************************)
WssToClear(c, b) == phase[c] = "websocket" /\ wrapped[c] /\ ~b.https
Http1Anyway(c, b) ==
  /\ b.hints # {} /\ "H1" \notin b.hints
  /\ \/ phase[c] = "websocket"
     \/ phase[c] = "response" /\ b.hints = {"H2C"} /\ client[c].upgrade # "h2c"

Understands(c, b) ==
  /\ (WireTls(c, b) <=> b.https) \/ WssToClear(c, b)
  /\ WireHttp(c, b) = "h2" => IF b.https THEN "H2" \in b.hints ELSE "H2CPK" \in b.hints
  /\ WireHttp(c, b) = "h1" => TakesHttp1(c, b) \/ Http1Anyway(c, b)

\* Whatever arrives, on whatever path, a backend is only ever spoken to in TLS if it
\* speaks TLS, and in a version of HTTP its hints allow (v3.rs 888: "we only assume h1 is
\* supported if it is explicitly set"), with the two exceptions above and no other.
SpeaksItsLanguage ==
  \A c \in Conns :
    phase[c] \in {"tunnel", "response", "websocket"} /\ Coherent(site.backends[backend[c]])
      => Understands(c, site.backends[backend[c]])

\* The site's settings hold on every path, the fallbacks included: nothing is tunnelled
\* that must be terminated, and only a websocket gets round redirect_to_https.
PolicyKept ==
  \A c \in Conns :
    /\ phase[c] = "tunnel" =>
         /\ ~site.termHttp /\ ~site.le /\ ~(site.kind = "remote" /\ site.rewrite)
         /\ site.termTls /\ client[c].tls => wrapped[c]
    /\ phase[c] \in {"tunnel", "response"} /\ site.redirect => client[c].tls

\* A connection has one entry from the end of the peek to its drop, one Open and one
\* Close, however many streams wrap it: no update brings an entry back.
TrackedWhileAlive ==
  \A c \in Conns :
    /\ tracked[c] # None <=> phase[c] \notin {"out", "peek", "dropInner", "gone"}
    /\ opened[c] = IF phase[c] \in {"out", "peek"} THEN 0 ELSE 1
    /\ closed[c] = IF phase[c] \in {"dropInner", "gone"} THEN 1 ELSE 0

(***************************************************************************)
(* get_connection_type, and what the connection really is.                 *)
(***************************************************************************)
Kind(e) ==
  IF e.new THEN "PendingInit" ELSE
  CASE ~e.tls /\ e.tunnel = "raw"                                  -> "HttpPassthru"
    [] ~e.tls /\ e.tunnel = "tls"                                  -> "HttpWithOutgoingTLS"
    [] ~e.tls /\ ~e.tlsTerm /\ e.httpTerm /\ e.tunnel = "none"     -> "HttpTermination"
    [] e.tls /\ e.tlsTerm /\ ~e.httpTerm /\ e.tunnel = "tls"       -> "TlsTerminatedWithOutgoingTLS"
    [] e.tls /\ e.tlsTerm /\ ~e.httpTerm /\ e.tunnel = "raw" -> "TlsTerminatedWithOutgoingClearText"
    [] e.tls /\ ~e.tlsTerm /\ ~e.httpTerm /\ e.tunnel = "raw"      -> "TlsPassthru"
    [] e.tls /\ e.tlsTerm /\ e.httpTerm /\ e.tunnel = "none"       -> "TlsTermination"
    [] OTHER                                                       -> "Invalid"

RealKind(c) ==
  IF phase[c] = "tunnel"
  THEN LET https == site.backends[backend[c]].https IN
       IF ~client[c].tls  THEN IF https THEN "HttpWithOutgoingTLS" ELSE "HttpPassthru"
       ELSE IF wrapped[c] THEN IF https THEN "TlsTerminatedWithOutgoingTLS"
                                        ELSE "TlsTerminatedWithOutgoingClearText"
       ELSE "TlsPassthru"
  ELSE IF wrapped[c] THEN "TlsTermination" ELSE "HttpTermination"

\* Once a connection has settled, its entry shows what it is.  Two kinds are shown as
\* invalid: a tunnel of undeciphered TLS, whose backend always speaks TLS, which the
\* table does not expect; and TLS on the port for clear text, about to be dropped.
KindIsReal ==
  \A c \in Conns :
    phase[c] \in {"tunnel", "serve", "wake", "permit", "response", "websocket", "api"} =>
      IF RealKind(c) = "TlsPassthru" \/ (phase[c] = "serve" /\ ~Readable(c))
      THEN Kind(tracked[c]) = "Invalid"
      ELSE Kind(tracked[c]) = RealKind(c)

\* No connection is peeked at for ever, unless it keeps half a ClientHello back; and a
\* request gets to its backend or an answer, unless requests to backends that do not
\* answer hold every permit for ever.
ConnectionsEnd ==
  \A c \in Conns :
    /\ []<>(phase[c] \notin Peeking) \/ <>[]HalfHello(c)
    /\ []<>(phase[c] \notin {"wake", "permit"}) \/ <>[](Cardinality(InFlight) = Permits)
=============================================================================
