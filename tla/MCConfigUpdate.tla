--------------------------- MODULE MCConfigUpdate ---------------------------
(* Small instances of ConfigUpdate for TLC. *)
EXTENDS ConfigUpdate, TLC

CONSTANTS h1, h2

TwoHandlers == {h1, h2}

Block(kind, host, port, hints, body, flags) ==
  [kind |-> kind, host |-> host, port |-> port, hints |-> hints, args |-> None,
   ownPort |-> None, body |-> body, flags |-> flags]

Conf(hosted, remote, dir, root, loopback, account) ==
  [hosted |-> hosted, remote |-> remote, dir |-> dir, root_dir |-> root, ip |-> None,
   loopback |-> loopback, alpn |-> TRUE, auto_start |-> TRUE, account |-> account,
   admin |-> "url", settings |-> "s", portVar |-> FALSE]

(* A process with a flag that is lost and one that is not compared, a remote   *)
(* site with a Let's Encrypt certificate, a directory.                         *)
Api   == Block("hosted", "api", 80, {}, "run",
               ("terminate_http" :> TRUE) @@ ("redirect_to_https" :> TRUE)
                 @@ ("auto_start" :> FALSE))
Api2  == [Api EXCEPT !.body = "run2", !.args = "some", !.ownPort = 80,
                     !.flags = ("terminate_tls" :> TRUE)]
Plain == [Api EXCEPT !.flags = ("terminate_http" :> TRUE) @@ ("auto_start" :> FALSE)]
Web   == Block("remote", "web", 443, {"H2"}, "backend",
               ("enable_lets_encrypt" :> TRUE) @@ ("terminate_tls" :> TRUE)
                 @@ ("keep_original_host_header" :> TRUE))
Docs  == Block("dir", "docs", None, {}, "files", ("render_markdown" :> FALSE))
Clash == Block("remote", "api", 80, {}, "backend", <<>>)
Boxed == Block("remote", "box", 80, {}, "backend", <<>>)

V3(c) == [ver |-> "V3", conf |-> c]

(* Silly differs from Full in nothing that is compared; Old has another        *)
(* process and loses its directory when it is upgraded.                        *)
Full  == V3(Conf(<<Api>>, <<Web>>, <<Docs>>, None, FALSE, "mail"))
Silly == V3(Conf(<<Plain>>, <<Web>>, <<Docs>>, None, FALSE, "mail"))
Old   == [ver |-> "V2",
          conf |-> Conf(<<Block("hosted", "api", 81, {}, "run", <<>>)>>,
                        <<Block("remote", "web", 80, {"H2C", "NOH2"}, "backend",
                                ("disable_tcp_tunnel_mode" :> TRUE))>>,
                        <<Docs>>, None, TRUE, "mail")]
Older == [ver |-> "legacy",
          conf |-> [Conf(<<Block("hosted", "api", None, {}, "run",
                                 ("https" :> TRUE) @@ ("disable_tcp_tunnel_mode" :> TRUE))>>,
                         <<Block("remote", "web", None, {}, "backend", ("https" :> TRUE))>>,
                         None, "/srv", TRUE, None)
                    EXCEPT !.auto_start = None, !.admin = None]]

InitialFiles == {Full, Older}
EditedFiles  == {Silly, Old}
Update(host, named, block) == [host |-> host, named |-> named, block |-> block]
SomeUpdates  == {Update("api", TRUE, Api2), Update("api", FALSE, Clash),
                 Update("box", TRUE, Boxed)}
SomeDeletes  == {[host |-> "web"]}
SomeSettings == {("account" :> None) @@ ("root_dir" :> "/srv"), "portVar" :> TRUE}
Shares == (h1 :> SomeUpdates \cup SomeSettings) @@ (h2 :> SomeDeletes)
=============================================================================
