----------------------------- MODULE MCGateway -----------------------------
(* Small instances of Gateway for TLC. *)
EXTENDS Gateway

CONSTANTS c1, c2

TwoConns == {c1, c2}

K(port, tls, sni, ver, upgrade, host) ==
  [port |-> port, tls |-> tls, sni |-> sni, ver |-> ver, upgrade |-> upgrade, host |-> host]

\* c1 is any client, c2 a plain one.
AnyClient ==
  {K("https", TRUE, TRUE, v, "none", "site") : v \in {"h1", "h2"}} \cup
  {K("https", TRUE, TRUE, "h1", u, "site") : u \in {"ws", "h2c"}} \cup
  {K("http", FALSE, FALSE, "h1", u, "site") : u \in {"none", "h2c", "ws"}} \cup
  {K("http", FALSE, FALSE, "h2", "none", "site"),
   K("http", TRUE, TRUE, "h1", "none", "site"),
   K("https", FALSE, FALSE, "h1", "none", "site"),
   K("https", TRUE, FALSE, "h1", "none", "site"),
   K("https", TRUE, TRUE, "h1", "none", "api"),
   K("http", FALSE, FALSE, "h1", "none", "api")}

Clients == [c \in TwoConns |-> IF c = c1 THEN AnyClient
                               ELSE {K("http", FALSE, FALSE, "h1", "none", "site")}]

B(https, hints) == [https |-> https, hints |-> hints]
Plain(kind, bs) == [kind |-> kind, redirect |-> FALSE, termHttp |-> FALSE, termTls |-> FALSE,
                    le |-> FALSE, rewrite |-> FALSE, backends |-> bs]

Mixed == <<B(TRUE, {"H1", "H2"}), B(FALSE, {"H1", "H2C"})>>
Prior == <<B(FALSE, {"H2CPK"}), B(FALSE, {})>>

Sites ==
  {Plain("other", <<>>),
   Plain("remote", Mixed),
   Plain("remote", Prior),
   Plain("remote", <<B(FALSE, {"H2C"})>>),
   [Plain("remote", Mixed) EXCEPT !.termTls = TRUE],
   [Plain("remote", Mixed) EXCEPT !.rewrite = TRUE],
   [Plain("remote", Prior) EXCEPT !.redirect = TRUE],
   Plain("hosted", <<B(FALSE, {})>>),
   [Plain("hosted", <<B(TRUE, {"H2"})>>) EXCEPT !.redirect = TRUE],
   [Plain("hosted", <<B(FALSE, {"H2CPK"})>>) EXCEPT !.le = TRUE],
   [Plain("hosted", <<B(FALSE, {"H1", "H2CPK"})>>) EXCEPT !.termHttp = TRUE]}
=============================================================================
