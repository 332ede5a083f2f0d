--------------------------- MODULE GatewayProofs ---------------------------
(***************************************************************************)
(* What holds on every path of a connection, for any number of connections *)
(* and clients, any configuration of the site and any number of attempts   *)
(* and permits.                                                            *)
(***************************************************************************)
EXTENDS Gateway, FiniteSetTheorems, TLAPS

-----------------------------------------------------------------------------
(***************************************************************************)
(* The inductive invariant.  Every step concerns one connection, so the    *)
(* parts speak of each connection alone.                                   *)
(***************************************************************************)
Types ==
  /\ site \in SiteChoices
  /\ phase \in [Conns -> Phases]
  /\ client \in [Conns -> Client \cup {None}]
  /\ peeked \in [Conns -> {"none", "bad", "tls", "h1", "h2", "late"}]
  /\ wrapped \in [Conns -> BOOLEAN]
  /\ backend \in [Conns -> 0..Len(site.backends)]
  /\ tracked \in [Conns -> Entry \cup {None}]
  /\ opened \in [Conns -> Nat] /\ closed \in [Conns -> Nat]

\* A connection that has arrived and is not gone is somebody's.
Known(c) == phase[c] \notin {"out", "gone"} => client[c] \in Client

\* Only a client that speaks TLS has it terminated, after the first peek.
WrappedTls(c) ==
  wrapped[c] => client[c].tls /\ phase[c] \notin {"out", "peek", "route", "gone"}

\* On the raw stream TLS is always recognised as such, or nothing is.
TlsIsSeen(c) ==
  /\ phase[c] = "out" => peeked[c] = "none"
  /\ peeked[c] = "tls" => client[c].tls
  /\ phase[c] = "route" /\ client[c].tls => peeked[c] \in {"tls", "bad"}

ToTunnel == {"acceptTunnel", "peekTunnel", "pick", "connect", "tunnel"}

\* Whatever is on its way to a tunnel has passed the configuration's demands.
MayTunnel(c) ==
  /\ phase[c] \in ToTunnel =>
       /\ ~site.termHttp /\ ~site.le /\ ~(site.kind = "remote" /\ site.rewrite)
       /\ site.redirect => client[c].tls
  /\ phase[c] = "peekTunnel" => wrapped[c]
  /\ phase[c] \in {"pick", "connect", "tunnel"} /\ site.termTls /\ client[c].tls => wrapped[c]

\* Whoever waits for an answer of a site that redirects has come over TLS.
MayAsk(c) == phase[c] \in {"wake", "permit", "response"} /\ site.redirect => client[c].tls

\* A backend is in mind where one is needed.
HasBackend(c) ==
  phase[c] \in {"connect", "tunnel", "permit", "response", "websocket"} => backend[c] # 0

\* What goes through a tunnel fits its backend; undeciphered TLS is known as TLS.
TunnelFits(c) ==
  /\ phase[c] \in {"connect", "tunnel"} => Suits(c, site.backends[backend[c]])
  /\ phase[c] \in {"pick", "connect", "tunnel"} /\ client[c].tls /\ ~wrapped[c]
       => peeked[c] = "tls"

Served == {"wake", "permit", "response", "websocket"}

\* Only a stream that can be read is served.
ServedIsReadable(c) ==
  /\ phase[c] \in Served => Readable(c)
  /\ phase[c] = "wake" => site.kind = "hosted"
  /\ phase[c] = "peekServe" => wrapped[c]

\* What the entry of a settled connection says, and that a tunnel is entered as the last.
EntryTells(c) ==
  /\ tracked[c] # None /\ phase[c] \notin {"tunnel", "drop"} => tracked[c].tunnel = "none"
  /\ phase[c] \in Served \cup {"serve", "api"} =>
       tracked[c] = [tls |-> client[c].tls, tlsTerm |-> wrapped[c], httpTerm |-> TRUE,
                     tunnel |-> "none", new |-> FALSE]
  /\ phase[c] = "acceptApi" => tracked[c].tls = client[c].tls
  /\ phase[c] = "api" => wrapped[c]
  /\ phase[c] = "tunnel" =>
       tracked[c] = [tls |-> client[c].tls, tlsTerm |-> wrapped[c], httpTerm |-> FALSE,
                     tunnel |-> IF site.backends[backend[c]].https THEN "tls" ELSE "raw",
                     new |-> FALSE]

\* One entry, one Open, one Close.
Tracked(c) ==
  /\ tracked[c] # None <=> phase[c] \notin {"out", "peek", "dropInner", "gone"}
  /\ opened[c] = IF phase[c] \in {"out", "peek"} THEN 0 ELSE 1
  /\ closed[c] = IF phase[c] \in {"dropInner", "gone"} THEN 1 ELSE 0

ConnInv(c) ==
  /\ Known(c) /\ WrappedTls(c) /\ TlsIsSeen(c) /\ MayTunnel(c) /\ MayAsk(c)
  /\ HasBackend(c) /\ TunnelFits(c) /\ ServedIsReadable(c) /\ EntryTells(c) /\ Tracked(c)

GateInv == Types /\ \A c \in Conns : ConnInv(c)

-----------------------------------------------------------------------------
LEMMA NoneIsNothing == None \notin Client /\ None \notin Entry
  BY GatewayAssumption DEF GatewayAssumption

LEMMA GateInit == Init => GateInv
  BY GatewayAssumption
     DEF Init, GateInv, Types, ConnInv, Known, WrappedTls, TlsIsSeen, MayTunnel, MayAsk,
         HasBackend, TunnelFits, ServedIsReadable, EntryTells, Tracked, ToTunnel, Served, Phases,
         GatewayAssumption, Site

\* A step of one connection leaves the others alone.
LEMMA OthersKeep ==
  ASSUME NEW c \in Conns, NEW d \in Conns \ {c}, ConnInv(d),
         phase'[d] = phase[d], client'[d] = client[d], peeked'[d] = peeked[d],
         wrapped'[d] = wrapped[d], backend'[d] = backend[d], tracked'[d] = tracked[d],
         opened'[d] = opened[d], closed'[d] = closed[d], site' = site
  PROVE  ConnInv(d)'
<1>1. /\ Known(d)' /\ WrappedTls(d)' /\ TlsIsSeen(d)' /\ MayTunnel(d)' /\ MayAsk(d)'
      /\ HasBackend(d)' /\ Tracked(d)'
  BY DEF ConnInv, Known, WrappedTls, TlsIsSeen, MayTunnel, MayAsk, HasBackend, Tracked
<1>2. TunnelFits(d)' /\ ServedIsReadable(d)' /\ EntryTells(d)'
  BY DEF ConnInv, TunnelFits, ServedIsReadable, EntryTells, Suits, Readable
<1> QED BY <1>1, <1>2 DEF ConnInv

\* The flags of a stream make an entry, with whatever was done to it.
LEMMA EntryType ==
  ASSUME Types, NEW c \in Conns, ConnInv(c), phase[c] \notin {"out", "gone"}
  PROVE  /\ Flags(c) \in Entry
         /\ [Flags(c) EXCEPT !.new = TRUE] \in Entry
         /\ tracked[c] # None =>
              /\ Refreshed(c) \in Entry
              /\ [Refreshed(c) EXCEPT !.httpTerm = TRUE] \in Entry
              /\ [Refreshed(c) EXCEPT !.tls = TRUE, !.tlsTerm = TRUE, !.httpTerm = TRUE] \in Entry
              /\ \A t \in {"raw", "tls"} :
                   [Refreshed(c) EXCEPT !.tls = client[c].tls, !.tunnel = t] \in Entry
<1>1. client[c].tls \in BOOLEAN /\ wrapped[c] \in BOOLEAN
  BY DEF Types, ConnInv, Known, Client
<1>2. Flags(c) \in Entry
  BY <1>1 DEF Flags, Entry
<1>3. tracked[c] # None => tracked[c] \in Entry
  BY DEF Types
<1>4. tracked[c] # None => Refreshed(c) \in Entry
  BY <1>2, <1>3 DEF Refreshed, Entry
<1> QED BY <1>1, <1>2, <1>4 DEF Entry

\* An update changes what an entry says and not whether there is one.
LEMMA UpdateType ==
  ASSUME Types, NEW c \in Conns, NEW e \in Entry, Update(c, e)
  PROVE  /\ tracked' \in [Conns -> Entry \cup {None}]
         /\ tracked'[c] # None <=> tracked[c] # None
         /\ \A d \in Conns \ {c} : tracked'[d] = tracked[d]
  BY NoneIsNothing DEF Types, Update
\* The end of a peek, with a result that fits what has come.
LEMMA PeekEndsKeeps ==
  ASSUME GateInv, NEW c \in Conns, NEW r \in {"bad", "tls", "h1", "h2", "late"},
         phase[c] \in Peeking, PeekEnds(c, r),
         r = "tls" => client[c].tls,
         phase[c] = "peek" /\ client[c].tls => r \in {"tls", "bad"}
  PROVE  GateInv'
<1>0. Types /\ ConnInv(c) /\ phase[c] \notin {"out", "gone"}
  BY DEF GateInv, Peeking
<1>1. /\ tracked' \in [Conns -> Entry \cup {None}]
      /\ \A d \in Conns \ {c} : tracked'[d] = tracked[d]
      /\ phase[c] = "peek" => tracked'[c] # None
      /\ phase[c] # "peek" => (tracked'[c] # None <=> tracked[c] # None)
  <2>1. CASE phase[c] = "peek"
    <3>1. PICK e \in Entry : e = [Flags(c) EXCEPT !.new = TRUE]
      BY <1>0, EntryType
    <3>2. tracked' = [tracked EXCEPT ![c] = e]
      BY <2>1, <3>1 DEF PeekEnds
    <3> QED BY <1>0, <2>1, <3>2, NoneIsNothing DEF Types
  <2>2. CASE phase[c] # "peek" /\ tracked' = tracked
    BY <1>0, <2>2 DEF Types
  <2>3. CASE phase[c] # "peek" /\ tracked[c] # None
    <3>1. tracked' = tracked \/ \E e \in Entry : Update(c, e)
      BY <1>0, <2>3, EntryType DEF PeekEnds
    <3> QED BY <1>0, <2>3, <3>1, UpdateType DEF Types
  <2>4. CASE phase[c] # "peek" /\ tracked[c] = None
    BY <1>0, <2>4 DEF PeekEnds, Update, Types
  <2> QED BY <2>1, <2>2, <2>3, <2>4
<1>2. /\ phase' \in [Conns -> Phases] /\ peeked' \in [Conns -> {"none", "bad", "tls", "h1", "h2", "late"}]
      /\ opened' \in [Conns -> Nat] /\ closed' = closed
      /\ client' = client /\ wrapped' = wrapped /\ site' = site /\ backend' = backend
      /\ peeked'[c] = r
      /\ phase'[c] = CASE phase[c] = "peek"       -> "route"
                       [] phase[c] = "peekTunnel" -> IF r = "bad" THEN "drop" ELSE "pick"
                       [] OTHER                   -> "serve"
      /\ opened'[c] = IF phase[c] = "peek" THEN opened[c] + 1 ELSE opened[c]
      /\ \A d \in Conns \ {c} : /\ phase'[d] = phase[d] /\ peeked'[d] = peeked[d]
                                /\ opened'[d] = opened[d]
  <2>1. PICK p \in Phases :
          /\ Goto(c, p)
          /\ p = CASE phase[c] = "peek"       -> "route"
                   [] phase[c] = "peekTunnel" -> IF r = "bad" THEN "drop" ELSE "pick"
                   [] OTHER                   -> "serve"
    BY DEF PeekEnds, Peeking, Phases
  <2>2. /\ phase \in [Conns -> Phases] /\ opened \in [Conns -> Nat]
        /\ peeked \in [Conns -> {"none", "bad", "tls", "h1", "h2", "late"}]
    BY <1>0 DEF Types
  <2>3. /\ peeked' = [peeked EXCEPT ![c] = r]
        /\ opened' = IF phase[c] = "peek" THEN [opened EXCEPT ![c] = @ + 1] ELSE opened
        /\ UNCHANGED <<client, wrapped, site, backend, closed>>
    BY DEF PeekEnds, Peeking, siteVars
  <2> QED BY <2>1, <2>2, <2>3 DEF Goto
<1>3. Types'
  BY <1>0, <1>1, <1>2 DEF Types
<1>4. ConnInv(c)'
  <2>1. /\ Known(c)' /\ WrappedTls(c)' /\ TlsIsSeen(c)' /\ MayTunnel(c)' /\ MayAsk(c)'
        /\ HasBackend(c)' /\ Tracked(c)'
    BY <1>0, <1>1, <1>2
       DEF ConnInv, Known, WrappedTls, TlsIsSeen, MayTunnel, MayAsk, HasBackend, Tracked,
           ToTunnel, Peeking
  <2>2. TunnelFits(c)' /\ ServedIsReadable(c)'
    BY <1>0, <1>2 DEF ConnInv, MayTunnel, TunnelFits, ServedIsReadable, Served, Readable, Peeking
  <2>3. EntryTells(c)'
    <3>1. CASE phase[c] = "peek"
      <4>1. tracked'[c] = [Flags(c) EXCEPT !.new = TRUE]
        BY <1>0, <3>1 DEF PeekEnds, Types
      <4> QED BY <1>2, <3>1, <4>1 DEF EntryTells, Served, Flags
    <3>2. CASE phase[c] = "peekTunnel"
      <4>1. tracked'[c] = Refreshed(c) \/ tracked'[c] = tracked[c]
        BY <1>0, <3>2 DEF PeekEnds, Types, Update
      <4> QED BY <1>0, <1>1, <1>2, <3>2, <4>1
              DEF ConnInv, EntryTells, Served, Refreshed, Flags
    <3>3. CASE phase[c] = "peekServe"
      <4>1. tracked[c] # None
        BY <1>0, <3>3 DEF ConnInv, Tracked
      <4>2. tracked'[c] =
              [Refreshed(c) EXCEPT !.tls = TRUE, !.tlsTerm = TRUE, !.httpTerm = TRUE]
        BY <1>0, <3>3, <4>1 DEF PeekEnds, Types, Update
      <4>3. wrapped[c] = TRUE /\ client[c].tls = TRUE /\ tracked[c].tunnel = "none"
        BY <1>0, <3>3, <4>1
           DEF ConnInv, ServedIsReadable, WrappedTls, EntryTells, Types, Known, Client
      <4> QED BY <1>2, <3>3, <4>2, <4>3 DEF EntryTells, Served, Refreshed, Flags
    <3> QED BY <3>1, <3>2, <3>3 DEF Peeking
  <2> QED BY <2>1, <2>2, <2>3 DEF ConnInv
<1>5. ASSUME NEW d \in Conns \ {c} PROVE ConnInv(d)'
  BY <1>1, <1>2, <1>5, OthersKeep DEF GateInv
<1> QED BY <1>3, <1>4, <1>5 DEF GateInv

\* A step that moves c to p with what p asks for, and at most updates its entry.
LEMMA MoveKeeps ==
  ASSUME GateInv, NEW c \in Conns, NEW p \in Phases, Goto(c, p),
         phase[c] \notin {"out", "peek", "drop", "dropInner", "gone"},
         p \notin {"out", "peek", "peekTunnel", "route", "dropInner", "gone"},
         p \in ToTunnel =>
           /\ ~site.termHttp /\ ~site.le /\ ~(site.kind = "remote" /\ site.rewrite)
           /\ site.redirect => client[c].tls,
         p \in {"pick", "connect", "tunnel"} /\ site.termTls /\ client[c].tls => wrapped[c],
         p \in {"wake", "permit", "response"} /\ site.redirect => client[c].tls,
         HasBackend(c)', TunnelFits(c)', ServedIsReadable(c)', EntryTells(c)',
         backend' \in [Conns -> 0..Len(site.backends)],
         \A d \in Conns \ {c} : backend'[d] = backend[d],
         tracked' = tracked \/ \E e \in Entry : Update(c, e),
         UNCHANGED <<site, client, peeked, wrapped, opened, closed>>
  PROVE  GateInv'
<1>0. Types /\ ConnInv(c)
  BY DEF GateInv
<1>1. /\ tracked' \in [Conns -> Entry \cup {None}]
      /\ tracked'[c] # None <=> tracked[c] # None
      /\ \A d \in Conns \ {c} : tracked'[d] = tracked[d]
  <2>1. CASE tracked' = tracked
    BY <1>0, <2>1 DEF Types
  <2>2. CASE \E e \in Entry : Update(c, e)
    BY <1>0, <2>2, UpdateType
  <2> QED BY <2>1, <2>2
<1>2. /\ phase' \in [Conns -> Phases] /\ phase'[c] = p
      /\ \A d \in Conns \ {c} : phase'[d] = phase[d]
  BY <1>0 DEF Goto, Types
<1>3. Types'
  BY <1>0, <1>1, <1>2 DEF Types
<1>4. ConnInv(c)'
  <2>1. /\ Known(c)' /\ WrappedTls(c)' /\ TlsIsSeen(c)' /\ MayTunnel(c)' /\ MayAsk(c)'
        /\ Tracked(c)'
    BY <1>0, <1>1, <1>2
       DEF ConnInv, Known, WrappedTls, TlsIsSeen, MayTunnel, MayAsk, Tracked, ToTunnel
  <2> QED BY <2>1 DEF ConnInv
<1>5. ASSUME NEW d \in Conns \ {c} PROVE ConnInv(d)'
  BY <1>1, <1>2, <1>5, OthersKeep DEF GateInv
<1> QED BY <1>3, <1>4, <1>5 DEF GateInv

\* Nothing the invariant speaks of changes.
LEMMA GateFrame ==
  ASSUME GateInv,
         UNCHANGED <<site, phase, client, peeked, wrapped, backend, tracked, opened, closed>>
  PROVE  GateInv'
<1>1. Types'
  BY DEF GateInv, Types
<1>2. ASSUME NEW c \in Conns PROVE ConnInv(c)'
  <2>1. ConnInv(c)
    BY DEF GateInv
  <2>2. /\ Known(c)' /\ WrappedTls(c)' /\ TlsIsSeen(c)' /\ MayTunnel(c)' /\ MayAsk(c)'
        /\ HasBackend(c)' /\ Tracked(c)'
    BY <2>1 DEF ConnInv, Known, WrappedTls, TlsIsSeen, MayTunnel, MayAsk, HasBackend, Tracked
  <2>3. TunnelFits(c)' /\ ServedIsReadable(c)' /\ EntryTells(c)'
    BY <2>1 DEF ConnInv, TunnelFits, ServedIsReadable, EntryTells, Suits, Readable
  <2> QED BY <2>2, <2>3 DEF ConnInv
<1> QED BY <1>1, <1>2 DEF GateInv

\* A step on the way out of a tunnel, a peek or an answer, which tells nobody.
LEMMA LeaveKeeps ==
  ASSUME GateInv, NEW c \in Conns, NEW p \in {"drop", "fallback", "acceptServe"}, Goto(c, p),
         phase[c] \notin {"out", "peek", "drop", "dropInner", "gone"},
         phase[c] = "tunnel" => p = "drop",
         UNCHANGED <<site, client, peeked, wrapped, backend, trackVars>>
  PROVE  GateInv'
<1>0. Types /\ ConnInv(c) /\ phase'[c] = p
  BY DEF GateInv, Types, Goto
<1>1. HasBackend(c)' /\ TunnelFits(c)' /\ ServedIsReadable(c)'
  BY <1>0 DEF HasBackend, TunnelFits, ServedIsReadable, Served
<1>2. EntryTells(c)'
  BY <1>0 DEF ConnInv, EntryTells, Served, trackVars
<1>3. p \in Phases /\ p \notin ToTunnel
  BY DEF Phases, ToTunnel
<1>4. GateInv /\ UNCHANGED <<tracked, opened, closed>> /\ backend' \in [Conns -> 0..Len(site.backends)]
  BY <1>0 DEF trackVars, Types
<1> QED BY <1>1, <1>2, <1>3, <1>4, MoveKeeps

-----------------------------------------------------------------------------
\* The peek loop finds TLS on the raw stream wherever the client speaks it.
LEMMA PollKeeps ==
  ASSUME GateInv, NEW c \in Conns, Poll(c) \/ PeekClosed(c)
  PROVE  GateInv'
<1>0. GateInv /\ Types /\ ConnInv(c)
  BY DEF GateInv
<1>1. phase[c] = "peek" => ~wrapped[c]
  BY <1>0 DEF ConnInv, WrappedTls
<1>2. CASE Found(c)
  BY <1>0, <1>1, <1>2, PeekEndsKeeps DEF Found, Hello
<1>3. CASE Broken(c) \/ GiveUp(c) \/ PeekClosed(c)
  BY <1>0, <1>3, PeekEndsKeeps DEF Broken, GiveUp, PeekClosed
<1>4. CASE Again(c)
  BY <1>0, <1>4, GateFrame DEF Again, siteVars, trackVars
<1> QED BY <1>2, <1>3, <1>4 DEF Poll

\* The way from the peek: only what the configuration lets through goes to a tunnel.
LEMMA RouteKeeps ==
  ASSUME GateInv, NEW c \in Conns, Route(c)
  PROVE  GateInv'
<1>0. GateInv /\ Types /\ ConnInv(c) /\ phase[c] = "route"
  BY DEF GateInv, Route
<1>1. PICK p \in {"drop", "fallback", "acceptApi", "pick", "acceptTunnel"} :
        p = RouteTo(c) /\ Goto(c, p) /\ phase'[c] = p
  BY <1>0 DEF RouteTo, Route, Goto, Types
<1>2. p \in {"pick", "acceptTunnel"} =>
        /\ ~site.termHttp /\ ~site.le /\ ~(site.kind = "remote" /\ site.rewrite)
        /\ site.redirect => client[c].tls
  BY <1>0, <1>1 DEF RouteTo, Enforced, ConnInv, TlsIsSeen
<1>3. p = "pick" /\ client[c].tls => ~site.termTls /\ peeked[c] = "tls"
  BY <1>0, <1>1 DEF RouteTo, TerminatesTls, ConnInv, TlsIsSeen
<1>4. UNCHANGED <<site, client, peeked, wrapped, backend, opened, closed>>
  BY DEF Route
<1>5. tracked[c] # None /\ tracked[c].tunnel = "none"
  BY <1>0 DEF ConnInv, Tracked, EntryTells
<1>6. tracked' = tracked \/ \E e \in Entry : Update(c, e)
  BY <1>0, <1>5, EntryType DEF Route
<1>7. EntryTells(c)'
  <2>1. CASE p = "acceptApi"
    <3>1. tracked'[c] = [Refreshed(c) EXCEPT !.httpTerm = TRUE]
      BY <1>0, <1>1, <1>5, <2>1 DEF Route, Update, Types
    <3> QED BY <1>1, <1>4, <1>5, <2>1, <3>1 DEF EntryTells, Served, Refreshed, Flags
  <2>2. CASE p # "acceptApi"
    BY <1>1, <1>5, <2>2 DEF Route, EntryTells, Served
  <2> QED BY <2>1, <2>2
<1>8. HasBackend(c)' /\ TunnelFits(c)' /\ ServedIsReadable(c)'
  BY <1>1, <1>3, <1>4 DEF HasBackend, TunnelFits, ServedIsReadable, Served
<1>9. p \in Phases /\ backend' \in [Conns -> 0..Len(site.backends)]
  BY <1>0, <1>4 DEF Phases, Types
<1> QED BY <1>0, <1>1, <1>2, <1>3, <1>4, <1>6, <1>7, <1>8, <1>9, MoveKeeps DEF ToTunnel

LEMMA HandshakeKeeps ==
  ASSUME GateInv, NEW c \in Conns, Accept(c)
  PROVE  GateInv'
<1>0. Types /\ ConnInv(c) /\ client[c].tls /\ tracked[c] \in Entry
  BY DEF GateInv, Accept, Types, ConnInv, Tracked
<1>1. PICK p \in {"api", "peekTunnel", "peekServe"} :
        /\ Goto(c, p)
        /\ p = "peekTunnel" => phase[c] = "acceptTunnel"
        /\ IF p = "api"
           THEN /\ phase[c] = "acceptApi"
                /\ tracked' = [tracked EXCEPT ![c].tlsTerm = TRUE, ![c].httpTerm = TRUE,
                                              ![c].new = FALSE]
           ELSE tracked' = tracked
  BY DEF Accept
<1>2. /\ tracked' \in [Conns -> Entry \cup {None}]
      /\ tracked'[c] = IF p = "api"
                       THEN [tracked[c] EXCEPT !.tlsTerm = TRUE, !.httpTerm = TRUE, !.new = FALSE]
                       ELSE tracked[c]
      /\ tracked'[c] # None
      /\ \A d \in Conns \ {c} : tracked'[d] = tracked[d]
  <2>1. [tracked[c] EXCEPT !.tlsTerm = TRUE, !.httpTerm = TRUE, !.new = FALSE] \in Entry
    BY <1>0 DEF Entry
  <2>2. CASE p # "api"
    BY <1>0, <1>1, <2>2, NoneIsNothing DEF Types
  <2>3. CASE p = "api"
    <3>1. PICK e \in Entry :
            e = [tracked[c] EXCEPT !.tlsTerm = TRUE, !.httpTerm = TRUE, !.new = FALSE]
      BY <2>1
    <3>2. tracked' = [tracked EXCEPT ![c] = e]
      BY <1>0, <1>1, <2>3, <3>1 DEF Types
    <3> QED BY <1>0, <2>3, <3>1, <3>2, NoneIsNothing DEF Types
  <2> QED BY <2>2, <2>3
<1>3. /\ phase' \in [Conns -> Phases] /\ phase'[c] = p
      /\ phase[c] \in {"acceptApi", "acceptTunnel", "acceptServe"}
      /\ wrapped' \in [Conns -> BOOLEAN] /\ wrapped'[c] = TRUE
      /\ UNCHANGED <<site, client, peeked, backend, opened, closed>>
      /\ \A d \in Conns \ {c} : phase'[d] = phase[d] /\ wrapped'[d] = wrapped[d]
  BY <1>0, <1>1 DEF Accept, Goto, Types, Phases, Peeking, siteVars
<1>4. Types'
  BY <1>0, <1>2, <1>3 DEF Types
<1>5. ConnInv(c)'
  <2>1. /\ Known(c)' /\ WrappedTls(c)' /\ TlsIsSeen(c)' /\ MayTunnel(c)' /\ MayAsk(c)'
        /\ HasBackend(c)' /\ TunnelFits(c)' /\ ServedIsReadable(c)' /\ Tracked(c)'
    BY <1>0, <1>1, <1>2, <1>3
       DEF ConnInv, Known, WrappedTls, TlsIsSeen, MayTunnel, MayAsk, HasBackend, TunnelFits,
           ServedIsReadable, Tracked, ToTunnel, Served
  <2>2. EntryTells(c)'
    <3>1. tracked[c].tunnel = "none" /\ (p = "api" => tracked[c].tls = client[c].tls)
      BY <1>0, <1>1, <1>3, NoneIsNothing DEF ConnInv, EntryTells
    <3>2. CASE p = "api"
      BY <1>0, <1>2, <1>3, <3>1, <3>2 DEF EntryTells, Served, Entry
    <3>3. CASE p # "api"
      BY <1>1, <1>2, <1>3, <3>1, <3>3 DEF EntryTells, Served
    <3> QED BY <3>2, <3>3
  <2> QED BY <2>1, <2>2 DEF ConnInv
<1>6. ASSUME NEW d \in Conns \ {c} PROVE ConnInv(d)'
  BY <1>2, <1>3, <1>6, OthersKeep DEF GateInv
<1> QED BY <1>4, <1>5, <1>6 DEF GateInv

\* Backends: what is picked suits, and what is tunnelled has been picked.
LEMMA TunnelKeeps ==
  ASSUME GateInv, NEW c \in Conns, Pick(c) \/ Connect(c) \/ ConnectFails(c)
  PROVE  GateInv'
<1>0. GateInv /\ Types /\ ConnInv(c)
  BY DEF GateInv
<1>1. CASE Pick(c)
  <2>1. CASE Goto(c, "fallback") /\ UNCHANGED backend
    BY <1>0, <1>1, <2>1, LeaveKeeps DEF Pick, siteVars
  <2>2. CASE \E i \in Suitable(c) :
               backend' = [backend EXCEPT ![c] = i] /\ Goto(c, "connect")
    <3>1. PICK i \in 1..Len(site.backends) :
            /\ Suits(c, site.backends[i])
            /\ backend' = [backend EXCEPT ![c] = i] /\ Goto(c, "connect")
      <4>1. site.backends \in Seq(Backend)
        BY <1>0, GatewayAssumption DEF Types, GatewayAssumption, Site
      <4>2. PICK i \in Suitable(c) : backend' = [backend EXCEPT ![c] = i] /\ Goto(c, "connect")
        BY <2>2
      <4>3. i \in All /\ Suits(c, site.backends[i])
        BY Zenon DEF Suitable
      <4>4. i \in 1..Len(site.backends)
        BY <4>1, <4>3 DEF All
      <4> QED BY <4>2, <4>3, <4>4
    <3>2. /\ phase[c] = "pick" /\ phase'[c] = "connect" /\ backend'[c] = i /\ i # 0
          /\ UNCHANGED <<site, client, peeked, wrapped, tracked, opened, closed>>
      BY <1>0, <1>1, <3>1 DEF Pick, Goto, Types, siteVars, trackVars
    <3>3. HasBackend(c)' /\ TunnelFits(c)' /\ ServedIsReadable(c)' /\ EntryTells(c)'
      <4>1. Suits(c, site.backends[i])'
        BY <3>1, <3>2 DEF Suits
      <4> QED BY <1>0, <3>2, <4>1
              DEF ConnInv, HasBackend, TunnelFits, ServedIsReadable, Served, EntryTells
    <3>4. /\ backend' \in [Conns -> 0..Len(site.backends)]
          /\ \A d \in Conns \ {c} : backend'[d] = backend[d]
      BY <1>0, <3>1 DEF Types
    <3>5. MayTunnel(c) /\ "connect" \in Phases
      BY <1>0 DEF ConnInv, Phases
    <3> QED BY <1>0, <3>1, <3>2, <3>3, <3>4, <3>5, MoveKeeps DEF MayTunnel, ToTunnel
  <2> QED BY <1>1, <2>1, <2>2 DEF Pick
<1>2. CASE Connect(c)
  <2>1. PICK t \in {"raw", "tls"} : t = IF site.backends[backend[c]].https THEN "tls" ELSE "raw"
    OBVIOUS
  <2>2. PICK e \in Entry : e = [Refreshed(c) EXCEPT !.tls = client[c].tls, !.tunnel = t]
    BY <1>0, <1>2, EntryType DEF Connect, ConnInv, Tracked
  <2>3. /\ Update(c, e) /\ tracked[c] # None /\ tracked'[c] = e
        /\ phase[c] = "connect" /\ phase'[c] = "tunnel" /\ Goto(c, "tunnel")
        /\ UNCHANGED <<site, client, peeked, wrapped, backend, opened, closed>>
    BY <1>0, <1>2, <2>1, <2>2 DEF Connect, Update, Goto, Types, ConnInv, Tracked
  <2>4. HasBackend(c)' /\ ServedIsReadable(c)'
    BY <1>0, <2>3 DEF ConnInv, HasBackend, ServedIsReadable, Served
  <2>5. TunnelFits(c)'
    BY <1>0, <2>3 DEF ConnInv, TunnelFits, Suits
  <2>6. EntryTells(c)'
    <3>1. e = [tls |-> client[c].tls, tlsTerm |-> wrapped[c], httpTerm |-> FALSE,
               tunnel |-> t, new |-> FALSE]
      BY <2>2 DEF Refreshed, Flags
    <3> QED BY <2>1, <2>3, <3>1 DEF EntryTells, Served
  <2>7. MayTunnel(c) /\ "tunnel" \in Phases /\ backend' \in [Conns -> 0..Len(site.backends)]
    BY <1>0, <2>3 DEF ConnInv, Phases, Types
  <2> QED BY <1>0, <2>3, <2>4, <2>5, <2>6, <2>7, MoveKeeps DEF MayTunnel, ToTunnel
<1>3. CASE ConnectFails(c)
  BY <1>0, <1>3, LeaveKeeps DEF ConnectFails, siteVars
<1> QED BY <1>1, <1>2, <1>3

\* A step inside the service: the stream is readable, the entry stays as it is.
LEMMA ServedKeeps ==
  ASSUME GateInv, NEW c \in Conns, NEW p \in Served \cup {"serve"}, Goto(c, p),
         phase[c] \in Served \cup {"serve"}, Readable(c),
         p = "wake" => site.kind = "hosted",
         p \in {"wake", "permit", "response"} /\ site.redirect => client[c].tls,
         NEW i \in 0..Len(site.backends), backend' = [backend EXCEPT ![c] = i],
         p \in {"permit", "response", "websocket"} => i # 0,
         UNCHANGED <<site, client, peeked, wrapped, trackVars>>
  PROVE  GateInv'
<1>0. GateInv /\ Types /\ ConnInv(c)
  BY DEF GateInv
<1>1. /\ phase'[c] = p /\ backend'[c] = i /\ UNCHANGED <<tracked, opened, closed>>
      /\ backend' \in [Conns -> 0..Len(site.backends)]
      /\ \A d \in Conns \ {c} : backend'[d] = backend[d]
  BY <1>0 DEF Goto, Types, trackVars
<1>2. HasBackend(c)' /\ TunnelFits(c)' /\ ServedIsReadable(c)' /\ EntryTells(c)'
  <2>1. HasBackend(c)' /\ TunnelFits(c)'
    BY <1>1 DEF HasBackend, TunnelFits, Served
  <2>2. ServedIsReadable(c)'
    BY <1>1 DEF ServedIsReadable, Served, Readable
  <2>3. EntryTells(c)'
    BY <1>0, <1>1 DEF ConnInv, EntryTells, Served
  <2> QED BY <2>1, <2>2, <2>3
<1>3. p \in Phases /\ p \notin ToTunnel
  BY DEF Phases, ToTunnel, Served
<1> QED BY <1>0, <1>1, <1>2, <1>3, MoveKeeps DEF Served, ToTunnel

\* The terminating service.
LEMMA ServeKeeps ==
  ASSUME GateInv, NEW c \in Conns,
         \/ Fallback(c) \/ AcceptFails(c) \/ Unservable(c) \/ UpgradeWebsocket(c) \/ Request(c)
         \/ Woke(c) \/ TooLate(c) \/ Permit(c) \/ Respond(c) \/ Leaves(c)
  PROVE  GateInv'
<1>0. GateInv /\ Types /\ ConnInv(c)
  BY DEF GateInv
<1>1. CASE Fallback(c)
  <2>1. CASE Goto(c, "acceptServe") /\ UNCHANGED tracked
    BY <1>0, <1>1, <2>1, LeaveKeeps DEF Fallback, siteVars, trackVars
  <2>2. CASE Goto(c, "serve") /\ Update(c, [Refreshed(c) EXCEPT !.httpTerm = TRUE])
    <3>1. tracked[c] # None /\ tracked[c].tunnel = "none"
      BY <1>0, <1>1 DEF Fallback, ConnInv, Tracked, EntryTells
    <3>2. PICK e \in Entry : e = [Refreshed(c) EXCEPT !.httpTerm = TRUE]
      BY <1>0, <1>1, <3>1, EntryType DEF Fallback
    <3>3. /\ Update(c, e) /\ tracked'[c] = e
          /\ phase[c] = "fallback" /\ phase'[c] = "serve"
          /\ UNCHANGED <<site, client, peeked, wrapped, backend, opened, closed>>
      BY <1>0, <1>1, <2>2, <3>1, <3>2 DEF Fallback, Update, Goto, Types, siteVars
    <3>4. HasBackend(c)' /\ TunnelFits(c)' /\ ServedIsReadable(c)'
      BY <3>3 DEF HasBackend, TunnelFits, ServedIsReadable, Served
    <3>5. EntryTells(c)'
      BY <3>1, <3>2, <3>3 DEF EntryTells, Served, Refreshed, Flags
    <3>6. "serve" \in Phases /\ backend' \in [Conns -> 0..Len(site.backends)]
      BY <1>0, <3>3 DEF Phases, Types
    <3> QED BY <1>0, <2>2, <3>3, <3>4, <3>5, <3>6, MoveKeeps DEF ToTunnel
  <2> QED BY <1>1, <2>1, <2>2 DEF Fallback
<1>2. CASE AcceptFails(c) \/ Unservable(c) \/ Leaves(c)
  BY <1>0, <1>2, LeaveKeeps DEF AcceptFails, Unservable, Leaves, siteVars, Phases, Peeking
<1>3. backend = [backend EXCEPT ![c] = backend[c]] /\ backend[c] \in 0..Len(site.backends)
  BY <1>0 DEF Types
<1>4. 0 \in 0..Len(site.backends) /\ \A i \in All : i \in 0..Len(site.backends) /\ i # 0
  <2>1. site.backends \in Seq(Backend)
    BY <1>0, GatewayAssumption DEF Types, GatewayAssumption, Site
  <2> QED BY <2>1 DEF All
<1>5. CASE UpgradeWebsocket(c)
  <2>1. CASE Goto(c, "drop") /\ UNCHANGED backend
    BY <1>0, <1>5, <2>1, LeaveKeeps DEF UpgradeWebsocket, siteVars
  <2>2. CASE \E i \in All : backend' = [backend EXCEPT ![c] = i] /\ Goto(c, "websocket")
    <3>1. PICK i \in 0..Len(site.backends) :
            i # 0 /\ backend' = [backend EXCEPT ![c] = i] /\ Goto(c, "websocket")
      BY <1>4, <2>2
    <3> QED BY <1>0, <1>5, <3>1, ServedKeeps DEF UpgradeWebsocket, siteVars, Served
  <2> QED BY <1>5, <2>1, <2>2 DEF UpgradeWebsocket
<1>6. CASE Request(c)
  <2>0. phase[c] = "serve" /\ Readable(c) /\ site' = site
        /\ UNCHANGED <<client, peeked, wrapped, trackVars>>
    BY <1>6 DEF Request, siteVars
  <2>1. CASE UNCHANGED <<phase, backend>>
    BY <1>0, <2>0, <2>1, GateFrame DEF trackVars
  <2>2. CASE ~UNCHANGED <<phase, backend>>
    <3>1. site.redirect => client[c].tls
      BY <1>0, <1>6, <2>2 DEF Request, ConnInv, WrappedTls
    <3>2. \/ Goto(c, "wake") /\ backend' = backend /\ site.kind = "hosted"
          \/ \E i \in All : backend' = [backend EXCEPT ![c] = i] /\ Goto(c, "permit")
      BY <1>6, <2>2 DEF Request
    <3>3. PICK p \in {"wake", "permit"}, i \in 0..Len(site.backends) :
            /\ Goto(c, p) /\ backend' = [backend EXCEPT ![c] = i]
            /\ p = "wake" => site.kind = "hosted"
            /\ p = "permit" => i # 0
      BY <1>3, <1>4, <3>2
    <3> QED BY <1>0, <2>0, <3>1, <3>3, ServedKeeps DEF Served
  <2> QED BY <2>1, <2>2
<1>7. CASE Woke(c)
  <2>1. 1 \in 0..Len(site.backends) /\ Readable(c) /\ (site.redirect => client[c].tls)
    BY <1>0, <1>7, GatewayAssumption
       DEF Woke, Types, GatewayAssumption, ConnInv, ServedIsReadable, Served, MayAsk
  <2>2. phase[c] = "wake" /\ Goto(c, "permit") /\ backend' = [backend EXCEPT ![c] = 1]
        /\ UNCHANGED <<site, client, peeked, wrapped, trackVars>>
    BY <1>7 DEF Woke, siteVars
  <2>3. PICK i \in 0..Len(site.backends) : i = 1
    BY <2>1
  <2>4. backend' = [backend EXCEPT ![c] = i] /\ i # 0
    BY <2>2, <2>3
  <2>5. PICK p \in {"permit"} : Goto(c, p)
    BY <2>2
  <2> QED BY <1>0, <2>1, <2>2, <2>4, <2>5, ServedKeeps DEF Served
<1>8. CASE TooLate(c) \/ Permit(c)
  <2>1. PICK p \in {"serve", "response"} :
          /\ Goto(c, p)
          /\ p = "response" => phase[c] = "permit"
          /\ phase[c] \in {"wake", "permit"}
          /\ UNCHANGED <<site, client, peeked, wrapped, backend, trackVars>>
    BY <1>8 DEF TooLate, Permit, siteVars
  <2>2. Readable(c) /\ (site.redirect => client[c].tls) /\ (p = "response" => backend[c] # 0)
    BY <1>0, <2>1 DEF ConnInv, ServedIsReadable, Served, MayAsk, HasBackend
  <2>3. backend' = [backend EXCEPT ![c] = backend[c]]
    BY <1>3, <2>1
  <2> QED BY <1>0, <1>3, <2>1, <2>2, <2>3, ServedKeeps DEF Served
<1>9. CASE Respond(c)
  <2>1. Readable(c) /\ phase[c] = "response"
    BY <1>0, <1>9 DEF Respond, ConnInv, ServedIsReadable, Served
  <2>2. PICK p \in {"serve"}, i \in 0..Len(site.backends) :
          Goto(c, p) /\ backend' = [backend EXCEPT ![c] = i]
    BY <1>4, <1>9 DEF Respond
  <2> QED BY <1>0, <1>9, <2>1, <2>2, ServedKeeps DEF Respond, Served, siteVars
<1> QED BY <1>1, <1>2, <1>5, <1>6, <1>7, <1>8, <1>9

\* The end: the entry goes with the first of the streams that are dropped.
LEMMA DropKeeps ==
  ASSUME GateInv, NEW c \in Conns, Drop(c) \/ DropInner(c)
  PROVE  GateInv'
<1>0. GateInv /\ Types /\ ConnInv(c)
  BY DEF GateInv
<1>1. PICK p \in {"dropInner", "gone"} :
        /\ phase[c] \in {"drop", "dropInner"}
        /\ Goto(c, p) /\ Deleted(c) /\ site' = site
        /\ p = "dropInner" => /\ wrapped[c] /\ phase[c] = "drop"
                              /\ UNCHANGED <<client, peeked, wrapped, backend>>
        /\ p = "gone" => Forget(c)
  BY DEF Drop, DropInner, siteVars
<1>2. /\ tracked' = [tracked EXCEPT ![c] = None]
      /\ closed' = [closed EXCEPT ![c] = IF tracked[c] = None THEN @ ELSE @ + 1]
      /\ opened' = opened
  BY <1>1 DEF Deleted
<1>3. /\ tracked' \in [Conns -> Entry \cup {None}] /\ tracked'[c] = None
      /\ closed' \in [Conns -> Nat]
      /\ closed'[c] = IF tracked[c] = None THEN closed[c] ELSE closed[c] + 1
      /\ phase' \in [Conns -> Phases] /\ phase'[c] = p
      /\ \A d \in Conns \ {c} : /\ tracked'[d] = tracked[d] /\ closed'[d] = closed[d]
                                /\ phase'[d] = phase[d]
  <2>1. p \in Phases
    BY DEF Phases
  <2> QED BY <1>0, <1>1, <1>2, <2>1 DEF Types, Goto
<1>4. /\ client' \in [Conns -> Client \cup {None}]
      /\ peeked' \in [Conns -> {"none", "bad", "tls", "h1", "h2", "late"}]
      /\ wrapped' \in [Conns -> BOOLEAN]
      /\ backend' \in [Conns -> 0..Len(site.backends)]
      /\ p = "gone" => ~wrapped'[c] /\ peeked'[c] = "none"
      /\ \A d \in Conns \ {c} : /\ client'[d] = client[d] /\ peeked'[d] = peeked[d]
                                /\ wrapped'[d] = wrapped[d] /\ backend'[d] = backend[d]
  <2>1. CASE p = "dropInner"
    BY <1>0, <1>1, <2>1 DEF Types
  <2>2. CASE p = "gone"
    <3>1. 0 \in 0..Len(site.backends)
      BY <1>0, GatewayAssumption DEF Types, GatewayAssumption, Site
    <3>2. /\ client' = [client EXCEPT ![c] = None] /\ peeked' = [peeked EXCEPT ![c] = "none"]
          /\ wrapped' = [wrapped EXCEPT ![c] = FALSE] /\ backend' = [backend EXCEPT ![c] = 0]
      BY <1>1, <2>2 DEF Forget
    <3>3. /\ backend' \in [Conns -> 0..Len(site.backends)]
          /\ \A d \in Conns \ {c} : backend'[d] = backend[d]
      BY <1>0, <3>1, <3>2 DEF Types
    <3>4. /\ client' \in [Conns -> Client \cup {None}]
          /\ \A d \in Conns \ {c} : client'[d] = client[d]
      BY <1>0, <3>2 DEF Types
    <3> QED BY <1>0, <3>2, <3>3, <3>4 DEF Types
  <2> QED BY <2>1, <2>2
<1>5. Types'
  BY <1>0, <1>1, <1>2, <1>3, <1>4 DEF Types
<1>6. ConnInv(c)'
  <2>1. /\ Known(c)' /\ WrappedTls(c)' /\ TlsIsSeen(c)' /\ MayTunnel(c)' /\ MayAsk(c)'
    BY <1>0, <1>1, <1>3, <1>4
       DEF ConnInv, Known, WrappedTls, TlsIsSeen, MayTunnel, MayAsk, ToTunnel
  <2>2. HasBackend(c)' /\ TunnelFits(c)' /\ ServedIsReadable(c)' /\ EntryTells(c)'
    BY <1>3 DEF HasBackend, TunnelFits, ServedIsReadable, EntryTells, Served
  <2>3. Tracked(c)'
    BY <1>0, <1>1, <1>2, <1>3 DEF ConnInv, Tracked, Types
  <2> QED BY <2>1, <2>2, <2>3 DEF ConnInv
<1>7. ASSUME NEW d \in Conns \ {c} PROVE ConnInv(d)'
  BY <1>0, <1>1, <1>2, <1>3, <1>4, <1>7, OthersKeep DEF GateInv
<1> QED BY <1>5, <1>6, <1>7 DEF GateInv

LEMMA ArriveKeeps ==
  ASSUME GateInv, NEW c \in Conns, NEW k \in Arrivals[c], Arrive(c, k)
  PROVE  GateInv'
<1>0. GateInv /\ Types /\ ConnInv(c) /\ k \in Client
  BY GatewayAssumption DEF GateInv, GatewayAssumption
<1>1. /\ phase[c] = "out" /\ phase'[c] = "peek" /\ client'[c] = k
      /\ phase' \in [Conns -> Phases] /\ client' \in [Conns -> Client \cup {None}]
      /\ UNCHANGED <<site, peeked, wrapped, backend, tracked, opened, closed>>
      /\ \A d \in Conns \ {c} : phase'[d] = phase[d] /\ client'[d] = client[d]
  <2>1. "peek" \in Phases
    BY DEF Phases, Peeking
  <2> QED BY <1>0, <2>1 DEF Arrive, Goto, Types, siteVars, trackVars
<1>2. Types'
  BY <1>0, <1>1 DEF Types
<1>3. ConnInv(c)'
  <2>1. /\ Known(c)' /\ WrappedTls(c)' /\ TlsIsSeen(c)' /\ MayTunnel(c)' /\ MayAsk(c)'
        /\ Tracked(c)'
    BY <1>0, <1>1
       DEF ConnInv, Known, WrappedTls, TlsIsSeen, MayTunnel, MayAsk, Tracked, ToTunnel
  <2>2. HasBackend(c)' /\ TunnelFits(c)' /\ ServedIsReadable(c)' /\ EntryTells(c)'
    BY <1>0, <1>1
       DEF ConnInv, Tracked, HasBackend, TunnelFits, ServedIsReadable, EntryTells, Served
  <2> QED BY <2>1, <2>2 DEF ConnInv
<1>4. ASSUME NEW d \in Conns \ {c} PROVE ConnInv(d)'
  BY <1>0, <1>1, <1>4, OthersKeep DEF GateInv
<1> QED BY <1>2, <1>3, <1>4 DEF GateInv

LEMMA GateStep == GateInv /\ [Next]_vars => GateInv'
<1> SUFFICES ASSUME GateInv, [Next]_vars PROVE GateInv'
  OBVIOUS
<1>0. GateInv
  OBVIOUS
<1>1. ASSUME NEW c \in Conns, NEW k \in Arrivals[c], Arrive(c, k) PROVE GateInv'
  BY <1>0, <1>1, ArriveKeeps
<1>2. ASSUME NEW c \in Conns, NEW n \in 1..Len(Pieces), Sends(c, n) PROVE GateInv'
  BY <1>0, <1>2, GateFrame DEF Sends, siteVars, trackVars
<1>3. ASSUME NEW c \in Conns,
             \/ OwnStep(c) \/ Permit(c) \/ Accept(c) \/ UpgradeWebsocket(c) \/ Request(c)
             \/ Respond(c) \/ Leaves(c) \/ PeekClosed(c)
      PROVE  GateInv'
  BY <1>0, <1>3, PollKeeps, RouteKeeps, HandshakeKeeps, TunnelKeeps, ServeKeeps, DropKeeps
     DEF OwnStep
<1>4. CASE ProcUp \/ ProcStopped \/ UNCHANGED vars
  BY <1>0, <1>4, GateFrame DEF ProcUp, ProcStopped, vars, siteVars, trackVars
<1> QED BY <1>1, <1>2, <1>3, <1>4 DEF Next

LEMMA GateCorrect == Spec => []GateInv
<1>1. GateInv /\ [Next]_vars => GateInv'
  BY GateStep
<1> QED BY GateInit, <1>1, PTL DEF Spec

-----------------------------------------------------------------------------
(***************************************************************************)
(* The rest of the types: of the peek loop, of the site, of the clients,   *)
(* and the permits that are held.                                          *)
(***************************************************************************)
PeekTypes ==
  /\ seen \in [Conns -> 1..Len(Pieces)] /\ tries \in [Conns -> 0..MaxTries]
  /\ obs \in [Conns -> {"fresh", "half", "fed", "garbled"}]

SiteTypes == proc \in {"unstarted", "stopped", "starting", "running"} /\ count \in 0..Wrap - 1

Somebody(c) == client[c] \in Arrivals[c] \cup {None} /\ (client[c] = None <=> phase[c] \in {"out", "gone"})

Clients == \A c \in Conns : Somebody(c)

Held == Cardinality(InFlight) <= Permits

RestInv == PeekTypes /\ SiteTypes /\ Clients /\ Held

LEMMA FourPieces == Len(Pieces) = 4
  BY DEF Pieces

LEMMA RestInit == Init => RestInv
<1> SUFFICES ASSUME Init PROVE RestInv
  OBVIOUS
<1>1. PeekTypes
  BY GatewayAssumption, FourPieces DEF Init, PeekTypes, GatewayAssumption
<1>2. SiteTypes
  BY GatewayAssumption DEF Init, SiteTypes, GatewayAssumption
<1>3. Clients
  BY DEF Init, Clients, Somebody
<1>4. Held
  <2>1. InFlight = {}
    BY DEF Init, InFlight
  <2> QED BY <2>1, FS_EmptySet, GatewayAssumption DEF Held, GatewayAssumption
<1> QED BY <1>1, <1>2, <1>3, <1>4 DEF RestInv

\* No result of a poll is counted beyond the attempts.
LEMMA PeekTypesStep == PeekTypes /\ [Next]_vars => PeekTypes'
<1> SUFFICES ASSUME PeekTypes, [Next]_vars PROVE PeekTypes'
  OBVIOUS
<1> USE DEF PeekTypes
<1>1. ASSUME NEW c \in Conns, NEW n \in 1..Len(Pieces), Sends(c, n) PROVE PeekTypes'
  BY <1>1 DEF Sends
<1>2. ASSUME NEW c \in Conns, Again(c) PROVE PeekTypes'
  <2>1. \/ UNCHANGED obs
        \/ \E piece \in {"sliver", "part", "whole"} :
             obs' = [obs EXCEPT ![c] = Refed(@, piece)]
    <3>1. Has(c) \in {"nothing", "sliver", "part", "whole"}
      BY FourPieces DEF Has, Pieces
    <3> QED BY <1>2, <3>1 DEF Again
  <2>2. \A o, piece : Refed(o, piece) \in {"fresh", "half", "fed", "garbled"}
    BY DEF Refed
  <2>3. obs' \in [Conns -> {"fresh", "half", "fed", "garbled"}]
    BY <2>1, <2>2
  <2>4. tries' \in [Conns -> 0..MaxTries] /\ seen' = seen
    BY <1>2, GatewayAssumption DEF Again, GatewayAssumption
  <2> QED BY <2>3, <2>4
<1>3. ASSUME NEW c \in Conns, FreshPeek(c) PROVE PeekTypes'
  BY <1>3, FourPieces, GatewayAssumption DEF FreshPeek, GatewayAssumption
<1>4. ASSUME NEW c \in Conns, Found(c) \/ Broken(c) \/ GiveUp(c) \/ PeekClosed(c)
      PROVE  PeekTypes'
  BY <1>3, <1>4 DEF Found, Broken, GiveUp, PeekClosed, PeekEnds
<1>5. CASE UNCHANGED peekVars
  BY <1>5 DEF peekVars
<1>6. ASSUME NEW c \in Conns,
             \/ Route(c) \/ Fallback(c) \/ AcceptFails(c) \/ Pick(c) \/ Connect(c)
             \/ ConnectFails(c) \/ Unservable(c) \/ Woke(c) \/ TooLate(c) \/ Drop(c)
             \/ DropInner(c) \/ Permit(c) \/ Accept(c) \/ UpgradeWebsocket(c) \/ Request(c)
             \/ Respond(c) \/ Leaves(c) \/ \E k \in Arrivals[c] : Arrive(c, k)
      PROVE  UNCHANGED peekVars
  BY <1>6 DEF Route, Fallback, AcceptFails, Pick, Connect, ConnectFails, Unservable, Woke,
              TooLate, Drop, DropInner, Permit, Accept, UpgradeWebsocket, Request, Respond,
              Leaves, Arrive
<1>7. CASE ProcUp \/ ProcStopped \/ UNCHANGED vars
  BY <1>7 DEF ProcUp, ProcStopped, vars, peekVars
<1> QED BY <1>1, <1>2, <1>4, <1>5, <1>6, <1>7 DEF Next, OwnStep, Poll

LEMMA SiteTypesStep == SiteTypes /\ [Next]_vars => SiteTypes'
<1> SUFFICES ASSUME SiteTypes, [Next]_vars PROVE SiteTypes'
  OBVIOUS
<1> USE DEF SiteTypes
<1>0. Counted \in 0..Wrap - 1
  BY GatewayAssumption DEF Counted, GatewayAssumption
<1>1. ASSUME NEW c \in Conns, Route(c) \/ Connect(c) \/ Request(c) PROVE SiteTypes'
  BY <1>0, <1>1 DEF Route, Woken, Connect, Request, siteVars
<1>2. CASE ProcUp \/ ProcStopped
  BY <1>2 DEF ProcUp, ProcStopped
<1>3. CASE UNCHANGED siteVars
  BY <1>3 DEF siteVars
<1>4. ASSUME NEW c \in Conns,
             \/ Poll(c) \/ Fallback(c) \/ AcceptFails(c) \/ Pick(c)
             \/ ConnectFails(c) \/ Unservable(c) \/ Woke(c) \/ TooLate(c) \/ Drop(c)
             \/ DropInner(c) \/ Permit(c) \/ Accept(c) \/ UpgradeWebsocket(c)
             \/ Respond(c) \/ Leaves(c) \/ PeekClosed(c)
             \/ \E k \in Arrivals[c] : Arrive(c, k)
             \/ \E n \in 1..Len(Pieces) : Sends(c, n)
      PROVE  UNCHANGED siteVars
  BY <1>4 DEF Poll, Found, Broken, Again, GiveUp, PeekClosed, PeekEnds, Fallback, AcceptFails,
              Pick, ConnectFails, Unservable, Woke, TooLate, Drop, DropInner, Permit, Accept,
              UpgradeWebsocket, Respond, Leaves, Arrive, Sends
<1>5. CASE UNCHANGED vars
  BY <1>5 DEF vars, siteVars
<1> QED BY <1>1, <1>2, <1>3, <1>4, <1>5 DEF Next, OwnStep

\* Where a step takes a connection: along, in, or out; and to a backend with a permit.
Along(c) == \E p \in Phases \ {"out", "gone"} :
              /\ Goto(c, p) /\ client' = client /\ phase[c] \notin {"out", "gone"}
              /\ p = "response" => Cardinality(InFlight) < Permits
In(c)    == \E k \in Arrivals[c] : Goto(c, "peek") /\ client' = [client EXCEPT ![c] = k]
Out(c)   == Goto(c, "gone") /\ client' = [client EXCEPT ![c] = None]

LEMMA Ways ==
  ASSUME [Next]_vars
  PROVE  UNCHANGED <<phase, client>> \/ \E c \in Conns : Along(c) \/ In(c) \/ Out(c)
<1>1. ASSUME NEW c \in Conns, NEW r \in {"bad", "tls", "h1", "h2", "late"},
             phase[c] \in Peeking, PeekEnds(c, r)
      PROVE  Along(c)
  <2>1. \E p \in {"route", "drop", "pick", "serve"} : Goto(c, p)
    BY <1>1 DEF PeekEnds
  <2> QED BY <1>1, <2>1 DEF Along, Phases, Peeking, PeekEnds
<1>2. ASSUME NEW c \in Conns, Found(c) \/ Broken(c) \/ GiveUp(c) \/ PeekClosed(c)
      PROVE  Along(c)
  BY <1>1, <1>2 DEF Found, Broken, GiveUp, PeekClosed
<1>3. ASSUME NEW c \in Conns, Route(c) \/ Fallback(c) \/ AcceptFails(c) \/ Accept(c)
      PROVE  Along(c)
  <2>1. RouteTo(c) \in {"drop", "fallback", "acceptApi", "pick", "acceptTunnel"}
    BY DEF RouteTo
  <2>2. \E p \in {"drop", "fallback", "acceptApi", "pick", "acceptTunnel", "acceptServe", "serve",
                  "api", "peekTunnel", "peekServe"} : Goto(c, p)
    BY <1>3, <2>1 DEF Route, Fallback, AcceptFails, Accept
  <2> QED BY <1>3, <2>2 DEF Along, Phases, Peeking, Route, Fallback, AcceptFails, Accept
<1>4. ASSUME NEW c \in Conns, Pick(c) \/ Connect(c) \/ ConnectFails(c)
      PROVE  Along(c)
  <2>1. \E p \in {"fallback", "connect", "tunnel", "drop"} : Goto(c, p)
    BY <1>4 DEF Pick, Connect, ConnectFails
  <2> QED BY <1>4, <2>1 DEF Along, Phases, Pick, Connect, ConnectFails
<1>5. ASSUME NEW c \in Conns, Unservable(c) \/ UpgradeWebsocket(c) \/ Woke(c) \/ TooLate(c)
                              \/ Respond(c) \/ Leaves(c)
      PROVE  Along(c)
  <2>1. \E p \in {"drop", "websocket", "permit", "serve"} : Goto(c, p)
    BY <1>5 DEF Unservable, UpgradeWebsocket, Woke, TooLate, Respond, Leaves
  <2> QED BY <1>5, <2>1
          DEF Along, Phases, Unservable, UpgradeWebsocket, Woke, TooLate, Respond, Leaves
<1>6. ASSUME NEW c \in Conns, Request(c)
      PROVE  UNCHANGED <<phase, client>> \/ Along(c)
  <2>1. client' = client /\ phase[c] = "serve"
    BY <1>6 DEF Request
  <2>2. UNCHANGED phase \/ \E p \in {"wake", "permit"} : Goto(c, p)
    BY <1>6 DEF Request
  <2> QED BY <2>1, <2>2 DEF Along, Phases
<1>7. ASSUME NEW c \in Conns, Permit(c)
      PROVE  Along(c)
  BY <1>7 DEF Permit, Along, Phases
<1>8. ASSUME NEW c \in Conns, Drop(c) \/ DropInner(c)
      PROVE  Along(c) \/ Out(c)
  BY <1>8 DEF Drop, DropInner, Along, Out, Forget, Phases
<1>9. ASSUME NEW c \in Conns, NEW k \in Arrivals[c], Arrive(c, k)
      PROVE  In(c)
  BY <1>9 DEF Arrive, In
<1>10. ASSUME NEW c \in Conns, Again(c) \/ \E n \in 1..Len(Pieces) : Sends(c, n)
       PROVE  UNCHANGED <<phase, client>>
  BY <1>10 DEF Again, Sends
<1>11. CASE ProcUp \/ ProcStopped \/ UNCHANGED vars
  BY <1>11 DEF ProcUp, ProcStopped, vars
<1> QED BY <1>2, <1>3, <1>4, <1>5, <1>6, <1>7, <1>8, <1>9, <1>10, <1>11 DEF Next, OwnStep, Poll

\* A connection that is on its way has a client of those that may arrive there.
LEMMA ClientsStep == Types /\ Clients /\ [Next]_vars => Clients'
<1> SUFFICES ASSUME Types, Clients, [Next]_vars, NEW d \in Conns PROVE Somebody(d)'
  BY DEF Clients
<1>1. Somebody(d) /\ phase \in [Conns -> Phases] /\ client \in [Conns -> Client \cup {None}]
  BY DEF Types, Clients
<1>2. CASE UNCHANGED <<phase, client>>
  BY <1>1, <1>2 DEF Somebody
<1>3. ASSUME NEW c \in Conns, Along(c) PROVE Somebody(d)'
  BY <1>1, <1>3 DEF Somebody, Along, Goto
<1>4. ASSUME NEW c \in Conns, In(c) PROVE Somebody(d)'
  <2>1. PICK k \in Arrivals[c] : Goto(c, "peek") /\ client' = [client EXCEPT ![c] = k]
    BY <1>4 DEF In
  <2>2. k # None
    BY GatewayAssumption, NoneIsNothing DEF GatewayAssumption
  <2> QED BY <1>1, <2>1, <2>2 DEF Somebody, Goto
<1>5. ASSUME NEW c \in Conns, Out(c) PROVE Somebody(d)'
  BY <1>1, <1>5 DEF Somebody, Out, Goto
<1> QED BY <1>2, <1>3, <1>4, <1>5, Ways

\* Only who finds a permit goes to a backend.
LEMMA HeldStep == Types /\ Held /\ [Next]_vars => Held'
<1> SUFFICES ASSUME Types, Held, [Next]_vars PROVE Held'
  OBVIOUS
<1>1. /\ IsFiniteSet(InFlight) /\ Cardinality(InFlight) \in Nat
      /\ \A S : S \subseteq InFlight => Cardinality(S) <= Cardinality(InFlight)
  <2>1. IsFiniteSet(InFlight)
    BY FS_Subset, GatewayAssumption DEF InFlight, GatewayAssumption
  <2>2. ASSUME NEW S, S \subseteq InFlight PROVE Cardinality(S) <= Cardinality(InFlight)
    BY <2>1, <2>2, FS_Subset
  <2> QED BY <2>1, <2>2, FS_CardinalityType
<1>2. phase \in [Conns -> Phases] /\ Permits \in Nat /\ Cardinality(InFlight) <= Permits
  BY GatewayAssumption DEF Types, GatewayAssumption, Held
<1>3. CASE InFlight' \subseteq InFlight
  <2>1. Cardinality(InFlight') \in Nat /\ Cardinality(InFlight') <= Cardinality(InFlight)
    BY <1>1, <1>3, FS_Subset, FS_CardinalityType
  <2> QED BY <1>1, <1>2, <2>1 DEF Held
<1>4. CASE \E c \in Conns : InFlight' \subseteq InFlight \cup {c} /\ Cardinality(InFlight) < Permits
  <2>1. PICK c \in Conns : InFlight' \subseteq InFlight \cup {c} /\ Cardinality(InFlight) < Permits
    BY <1>4
  <2>2. /\ IsFiniteSet(InFlight \cup {c})
        /\ Cardinality(InFlight \cup {c}) <= Cardinality(InFlight) + 1
        /\ Cardinality(InFlight \cup {c}) \in Nat
    <3>1. /\ IsFiniteSet(InFlight \cup {c})
          /\ Cardinality(InFlight \cup {c}) = IF c \in InFlight THEN Cardinality(InFlight)
                                            ELSE Cardinality(InFlight) + 1
      BY <1>1, FS_AddElement
    <3> HIDE DEF InFlight
    <3> QED BY <1>1, <3>1
  <2>3. Cardinality(InFlight') \in Nat /\ Cardinality(InFlight') <= Cardinality(InFlight \cup {c})
    BY <2>1, <2>2, FS_Subset, FS_CardinalityType
  <2> QED BY <1>1, <1>2, <2>1, <2>2, <2>3 DEF Held
<1>5. CASE UNCHANGED <<phase, client>>
  BY <1>3, <1>5 DEF InFlight
<1>6. ASSUME NEW c \in Conns, Along(c) PROVE Held'
  <2>1. PICK p \in Phases : Goto(c, p) /\ (p = "response" => Cardinality(InFlight) < Permits)
    BY <1>6 DEF Along
  <2>2. CASE p = "response"
    <3>1. InFlight' \subseteq InFlight \cup {c}
      BY <1>2, <2>1 DEF InFlight, Goto
    <3> QED BY <1>4, <2>1, <2>2, <3>1
  <2>3. CASE p # "response"
    <3>1. InFlight' \subseteq InFlight
      BY <1>2, <2>1, <2>3 DEF InFlight, Goto
    <3> QED BY <1>3, <3>1
  <2> QED BY <2>2, <2>3
<1>7. ASSUME NEW c \in Conns, In(c) \/ Out(c) PROVE Held'
  <2>1. InFlight' \subseteq InFlight
    BY <1>2, <1>7 DEF InFlight, In, Out, Goto
  <2> QED BY <1>3, <2>1
<1> QED BY <1>5, <1>6, <1>7, Ways

-----------------------------------------------------------------------------
\* No path, through the peek, the handshakes, the choice of a backend or the fallbacks,
\* gets round what the site's settings demand.
THEOREM PolicyCorrect == Spec => []PolicyKept
<1>1. GateInv => PolicyKept
  BY DEF GateInv, ConnInv, MayTunnel, MayAsk, ToTunnel, PolicyKept
<1> QED BY <1>1, GateCorrect, PTL

\* Every connection is entered once and removed once, and no late update brings an entry
\* back, for any number of connections in any order.
THEOREM TrackedCorrect == Spec => []TrackedWhileAlive
<1>1. GateInv => TrackedWhileAlive
  BY DEF GateInv, ConnInv, Tracked, TrackedWhileAlive
<1> QED BY <1>1, GateCorrect, PTL

\* Whatever a connection says and wherever it ends up, its backend is spoken to in TLS if it
\* speaks TLS and in a version of HTTP its hints allow, for every set of backends and hints,
\* but for the two exceptions that WssToClear and Http1Anyway name.
THEOREM LanguageCorrect == Spec => []SpeaksItsLanguage
<1>1. GateInv => SpeaksItsLanguage
  <2> SUFFICES ASSUME GateInv, NEW c \in Conns,
                      phase[c] \in {"tunnel", "response", "websocket"},
                      Coherent(site.backends[backend[c]])
               PROVE  Understands(c, site.backends[backend[c]])
    BY DEF SpeaksItsLanguage
  <2> DEFINE b == site.backends[backend[c]]
  <2>1. Types /\ ConnInv(c) /\ b \in Backend
    <3>1. /\ site.backends \in Seq(Backend) /\ backend[c] \in 0..Len(site.backends)
          /\ backend[c] # 0
      BY GatewayAssumption DEF GateInv, Types, GatewayAssumption, Site, ConnInv, HasBackend
    <3> QED BY <3>1 DEF GateInv
  <2>2. client[c] \in Client /\ wrapped[c] \in BOOLEAN /\ (wrapped[c] => client[c].tls)
        /\ peeked[c] \in {"none", "bad", "tls", "h1", "h2", "late"}
    BY <2>1 DEF Types, ConnInv, Known, WrappedTls
  <2>3. /\ Coherent(b)
        /\ b.https \in BOOLEAN /\ b.hints \in SUBSET {"H1", "H2", "H2C", "H2CPK"}
        /\ client[c].tls \in BOOLEAN
    BY <2>1, <2>2 DEF Backend, Hints, Client
  <2> SUFFICES Understands(c, b)
    OBVIOUS
  <2> HIDE DEF b
  <2>4. CASE phase[c] = "tunnel"
    <3>1. CASE peeked[c] = "tls"
      <4>1. Suits(c, b)
        BY <2>1, <2>4 DEF ConnInv, TunnelFits, b
      <4>2. b.https
        BY <3>1, <4>1 DEF Suits
      <4>3. WireTls(c, b)
        BY <2>4, <3>1 DEF WireTls
      <4>4. WireHttp(c, b) = "alpn"
        BY <2>4, <3>1 DEF WireHttp
      <4> QED BY <4>2, <4>3, <4>4 DEF Understands
    <3>2. CASE peeked[c] # "tls"
      <4>1. Suits(c, b)
        BY <2>1, <2>4 DEF ConnInv, TunnelFits, b
      <4>2. WireTls(c, b) <=> b.https
        BY <2>4, <3>2 DEF WireTls
      <4>3. WireHttp(c, b) = peeked[c]
        BY <2>4, <3>2 DEF WireHttp
      <4>4. peeked[c] = "h2" => IF b.https THEN "H2" \in b.hints ELSE "H2CPK" \in b.hints
        <5>1. CASE peeked[c] = "h2" /\ wrapped[c]
          <6>1. b.hints \cap {"H2", "H2CPK"} # {}
            BY <4>1, <5>1 DEF Suits
          <6> QED BY <2>3, <6>1 DEF Coherent
        <5>2. CASE peeked[c] = "h2" /\ ~wrapped[c]
          <6>1. "H2CPK" \in b.hints
            BY <4>1, <5>2 DEF Suits
          <6> QED BY <2>3, <6>1 DEF Coherent
        <5> QED BY <5>1, <5>2
      <4>5. peeked[c] = "h1" => TakesHttp1(c, b)
        BY <4>1 DEF Suits, TakesHttp1
      <4> QED BY <2>3, <4>2, <4>3, <4>4, <4>5 DEF Understands
    <3> QED BY <3>1, <3>2
  <2>5. CASE phase[c] = "response"
    <3>1. WireTls(c, b) <=> b.https
      BY <2>5 DEF WireTls
    <3>2. UsesH2cPrior(c, b) => "H2CPK" \in b.hints /\ ~b.https
      BY <2>3 DEF UsesH2cPrior, Coherent
    <3>3. WireHttp(c, b) = IF UsesH2cPrior(c, b) THEN "h2" ELSE IF b.https THEN "alpn" ELSE "h1"
      BY <2>5 DEF WireHttp
    <3>4. ~UsesH2cPrior(c, b) /\ ~b.https => TakesHttp1(c, b) \/ Http1Anyway(c, b)
      <4> SUFFICES ASSUME ~UsesH2cPrior(c, b), ~b.https, b.hints # {}, "H1" \notin b.hints
                   PROVE  b.hints = {"H2C"}
        BY <2>5 DEF TakesHttp1, Http1Anyway
      <4>1. "H2CPK" \notin b.hints
        BY DEF UsesH2cPrior
      <4>2. "H2" \notin b.hints
        BY <2>3 DEF Coherent
      <4> QED BY <2>3, <4>1, <4>2
    <3> QED BY <2>3, <2>5, <3>1, <3>2, <3>3, <3>4 DEF Understands
  <2>6. CASE phase[c] = "websocket"
    <3>1. WireHttp(c, b) = "h1"
      BY <2>6 DEF WireHttp
    <3>2. WireTls(c, b) <=> b.https \/ wrapped[c]
      BY <2>6 DEF WireTls
    <3>3. TakesHttp1(c, b) \/ Http1Anyway(c, b)
      BY <2>6 DEF TakesHttp1, Http1Anyway
    <3> QED BY <2>2, <2>3, <2>6, <3>1, <3>2, <3>3 DEF Understands, WssToClear
  <2> QED BY <2>4, <2>5, <2>6
<1> QED BY <1>1, GateCorrect, PTL


\* What the list of connections shows of one that has settled is what it is, but for the
\* two kinds that are always shown as invalid.
THEOREM KindCorrect == Spec => []KindIsReal
<1>1. GateInv => KindIsReal
  <2> SUFFICES ASSUME GateInv, NEW c \in Conns,
                      phase[c] \in {"tunnel"} \cup Served \cup {"serve", "api"}
               PROVE  IF RealKind(c) = "TlsPassthru" \/ (phase[c] = "serve" /\ ~Readable(c))
                      THEN Kind(tracked[c]) = "Invalid"
                      ELSE Kind(tracked[c]) = RealKind(c)
    BY DEF KindIsReal, Served
  <2> DEFINE tls == client[c].tls
             https == site.backends[backend[c]].https
             tun == IF https THEN "tls" ELSE "raw"
  <2>1. Types /\ ConnInv(c)
    BY DEF GateInv
  <2>2. /\ tls \in BOOLEAN /\ wrapped[c] \in BOOLEAN /\ (wrapped[c] => tls)
        /\ phase[c] # "serve" => phase[c] = "tunnel" \/ ~tls \/ wrapped[c]
    BY <2>1 DEF Types, ConnInv, Known, WrappedTls, Client, ServedIsReadable, Served, EntryTells,
                Readable
  <2>3. CASE phase[c] = "tunnel"
    <3>1. /\ site.backends \in Seq(Backend) /\ backend[c] \in 0..Len(site.backends)
          /\ backend[c] # 0
      BY <2>1, <2>3, GatewayAssumption DEF Types, GatewayAssumption, Site, ConnInv, HasBackend
    <3>2. https \in BOOLEAN
      <4>1. site.backends[backend[c]] \in Backend
        BY <3>1
      <4> QED BY <4>1 DEF Backend
    <3>3. /\ tracked[c].new = FALSE /\ tracked[c].tls = tls /\ tracked[c].tlsTerm = wrapped[c]
          /\ tracked[c].httpTerm = FALSE /\ tracked[c].tunnel = tun
      BY <2>1, <2>3 DEF ConnInv, EntryTells
    <3>4. tls /\ ~wrapped[c] => https
      <4>1. tls /\ ~wrapped[c] => peeked[c] = "tls" /\ Suits(c, site.backends[backend[c]])
        BY <2>1, <2>3 DEF ConnInv, TunnelFits
      <4> QED BY <4>1 DEF Suits
    <3>5. RealKind(c) = IF ~tls THEN IF https THEN "HttpWithOutgoingTLS" ELSE "HttpPassthru"
                        ELSE IF wrapped[c] THEN IF https THEN "TlsTerminatedWithOutgoingTLS"
                                                ELSE "TlsTerminatedWithOutgoingClearText"
                        ELSE "TlsPassthru"
      BY <2>3 DEF RealKind
    <3> HIDE DEF tls, https
    <3>6. Kind(tracked[c]) =
            IF ~tls THEN IF https THEN "HttpWithOutgoingTLS" ELSE "HttpPassthru"
            ELSE IF wrapped[c] THEN IF https THEN "TlsTerminatedWithOutgoingTLS"
                                    ELSE "TlsTerminatedWithOutgoingClearText"
            ELSE "Invalid"
      <4>1. CASE https
        <5>1. tracked[c].tunnel = "tls"
          BY <3>3, <4>1
        <5> QED BY <2>2, <3>3, <4>1, <5>1 DEF Kind
      <4>2. CASE ~https
        <5>1. tracked[c].tunnel = "raw" /\ (tls => wrapped[c])
          BY <3>3, <3>4, <4>2
        <5> QED BY <2>2, <3>3, <4>2, <5>1 DEF Kind
      <4> QED BY <4>1, <4>2
    <3> QED BY <2>3, <3>5, <3>6
  <2>4. CASE phase[c] # "tunnel"
    <3>1. /\ tracked[c].new = FALSE /\ tracked[c].tls = tls /\ tracked[c].tlsTerm = wrapped[c]
          /\ tracked[c].httpTerm = TRUE /\ tracked[c].tunnel = "none"
      BY <2>1, <2>4 DEF ConnInv, EntryTells
    <3>2. RealKind(c) = IF wrapped[c] THEN "TlsTermination" ELSE "HttpTermination"
      BY <2>4 DEF RealKind
    <3>3. Readable(c) <=> ~tls \/ wrapped[c]
      BY DEF Readable
    <3> HIDE DEF tls
    <3>4. Kind(tracked[c]) = IF wrapped[c] THEN "TlsTermination"
                             ELSE IF tls THEN "Invalid" ELSE "HttpTermination"
      BY <2>2, <3>1 DEF Kind
    <3> QED BY <2>2, <2>4, <3>2, <3>3, <3>4
  <2> QED BY <2>3, <2>4
<1> QED BY <1>1, GateCorrect, PTL

\* Type correctness: the peek loop keeps to its attempts, connections belong to clients,
\* a backend is in mind where it is needed, and requests in flight hold permits.
THEOREM GatewayTypes == Spec => []TypeOK
<1>1. GateInv /\ RestInv /\ [Next]_vars => RestInv'
  BY PeekTypesStep, SiteTypesStep, ClientsStep, HeldStep DEF RestInv, GateInv
<1>2. GateInv /\ RestInv => TypeOK
  <2> SUFFICES ASSUME GateInv, RestInv PROVE TypeOK
    OBVIOUS
  <2>1. ASSUME NEW c \in Conns
        PROVE  /\ wrapped[c] => client[c].tls
               /\ backend[c] \in 0..Len(site.backends)
               /\ phase[c] \in {"connect", "tunnel", "permit", "response", "websocket"}
                    => backend[c] # 0
               /\ client[c] \in Arrivals[c] \cup {None}
               /\ client[c] = None <=> phase[c] \in {"out", "gone"}
    BY DEF GateInv, ConnInv, WrappedTls, HasBackend, Types, RestInv, Clients, Somebody
  <2> QED BY <2>1 DEF TypeOK, GateInv, Types, RestInv, PeekTypes, SiteTypes, Held
<1> QED BY GateCorrect, GateInit, RestInit, <1>1, <1>2, PTL DEF Spec
=============================================================================
