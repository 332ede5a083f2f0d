--------------------------- MODULE Configuration ---------------------------
(***************************************************************************)
(* What a configuration says, what the file says for it, and when two of   *)
(* them count as the same (configuration/mod.rs, v1.rs, v2.rs, v3.rs).     *)
(*                                                                         *)
(* A block is a [[hosted_process]], [[remote_target]] or [[dir_server]]    *)
(* table: its host name, a port (of the one backend for a remote), hints,  *)
(* the arguments (None, "empty" or "some") and the PORT variable of a      *)
(* process, the optional flags it sets, and a body for everything that is  *)
(* printed and compared word for word (bin, dir, addresses ...).  A flag   *)
(* that is not in DOMAIN flags is not set; log_format is a flag that is    *)
(* TRUE for dotnet.  A list of blocks is None where the Vec is None.       *)
(* Of the global fields, admin stands for odd_box_url and                  *)
(* odd_box_password, settings for those that nothing changes on the way.   *)
(***************************************************************************)
EXTENDS Naturals, Sequences, FiniteSets, Functions

CONSTANT None

Kinds == {"hosted", "remote", "dir"}
Lists == {"hosted", "remote", "dir"}   \* the field of a configuration for each kind

Items(list) == IF list = None THEN <<>> ELSE list
Blocks(c)   == UNION {Range(Items(c[k])) : k \in Lists}
Hosts(c)    == {b.host : b \in Blocks(c)}
HostsOf(c, kind) == {b.host : b \in Range(Items(c[kind]))}

(***************************************************************************)
(* The optional flags that a block has in each format (the structs).       *)
(***************************************************************************)
Versions == {"legacy", "V1", "V2", "V3"}

FlagsOfV3(kind) ==
  CASE kind = "hosted" -> {"terminate_tls", "terminate_http", "log_format", "auto_start",
                           "https", "capture_subdomains", "forward_subdomains",
                           "exclude_from_start_all", "enable_lets_encrypt",
                           "redirect_to_https"}
    [] kind = "remote" -> {"https", "capture_subdomains", "terminate_tls",
                           "terminate_http", "forward_subdomains", "enable_lets_encrypt",
                           "keep_original_host_header", "redirect_to_https"}
    [] OTHER           -> {"capture_subdomains", "enable_lets_encrypt",
                           "enable_directory_browsing", "redirect_to_https",
                           "render_markdown"}

\* "disabled" of V1 goes by its later name.
FlagsBeforeV3(ver, kind) ==
  CASE kind = "hosted" -> {"disable_tcp_tunnel_mode", "log_format", "auto_start", "https",
                           "capture_subdomains"}
                          \cup IF ver = "legacy" THEN {}
                              ELSE {"forward_subdomains", "exclude_from_start_all"}
    [] kind = "remote" -> {"disable_tcp_tunnel_mode", "https", "capture_subdomains",
                           "forward_subdomains"}
    [] OTHER           -> {}

FlagsOf(ver, kind) ==
  CASE ver = "V3" -> FlagsOfV3(kind)
    [] ver = "V2" /\ kind = "dir"    -> FlagsOfV3("dir")
    [] ver = "V2" /\ kind = "hosted" -> FlagsBeforeV3(ver, kind) \cup {"enable_lets_encrypt"}
    [] ver = "V2" /\ kind = "remote" -> FlagsBeforeV3(ver, kind)
                        \cup {"enable_lets_encrypt", "keep_original_host_header"}
    [] OTHER -> FlagsBeforeV3(ver, kind)

HintNames == {"H1", "H2", "H3", "H2C", "H2CPK", "NOH2"}

IsTrue(b, flag) == flag \in DOMAIN b.flags /\ b.flags[flag]
Kept(flags, names) == Restrict(flags, names \cap DOMAIN flags)

-----------------------------------------------------------------------------
(***************************************************************************)
(* OddBoxV3Config::to_string and the parse that reads it back.             *)
(***************************************************************************)
\* Flags that are printed whatever they are, and flags printed when TRUE.
PrintedAsIs(kind) == IF kind = "hosted" THEN {"auto_start", "https"} ELSE {}

PrintedIfTrue(kind) ==
  CASE kind = "hosted" -> {"redirect_to_https", "enable_lets_encrypt",
                           "exclude_from_start_all", "capture_subdomains",
                           "terminate_tls"}
    [] kind = "remote" -> {"forward_subdomains", "redirect_to_https",
                           "capture_subdomains", "terminate_tls",
                           "enable_lets_encrypt", "https"}
    [] OTHER           -> {"capture_subdomains", "enable_directory_browsing",
                           "enable_lets_encrypt", "render_markdown",
                           "redirect_to_https"}

Survives(b, flag) ==
  flag \in PrintedAsIs(b.kind) \/ (flag \in PrintedIfTrue(b.kind) /\ b.flags[flag])

\* Arguments that are not given are printed as an empty list.
PrintedArgs(b) == IF b.kind = "hosted" /\ b.args = None THEN "empty" ELSE b.args

PrintBlock(b) ==
  [b EXCEPT !.args  = PrintedArgs(b),
            !.flags = Restrict(@, {f \in DOMAIN @ : Survives(b, f)})]

\* An empty list prints no table, and no table is read back as None.
PrintList(list) ==
  IF Items(list) = <<>> THEN None
  ELSE [i \in DOMAIN list |-> PrintBlock(list[i])]

\* Mutant: to_string forgets the account.
PrintConfig_NoAccount(c) ==
  [c EXCEPT !.account = None, !.loopback = TRUE,
            !.auto_start = IF @ = None THEN FALSE ELSE @,
            !.hosted = PrintList(@), !.remote = PrintList(@), !.dir = PrintList(@)]

PrintConfig(c) ==
  [c EXCEPT !.root_dir = IF @ = None THEN "~" ELSE @,
            !.ip       = IF @ = None THEN "127.0.0.1" ELSE @,
            !.auto_start = IF @ = None THEN FALSE ELSE @,
            !.loopback = TRUE,            \* not printed; read back by default
            !.hosted = PrintList(@), !.remote = PrintList(@), !.dir = PrintList(@)]

Written(c) == [ver |-> "V3", conf |-> PrintConfig(c)]

-----------------------------------------------------------------------------
(***************************************************************************)
(* Equality as the PartialEq implementations have it, and is_valid.        *)
(***************************************************************************)
\* compare_option_bool: not set is the same as FALSE.
LooselyCompared(kind) ==
  CASE kind = "hosted" -> {"terminate_tls", "terminate_http", "log_format",
                           "auto_start", "capture_subdomains",
                           "forward_subdomains", "exclude_from_start_all"}
    [] kind = "remote" -> {"keep_original_host_header", "enable_lets_encrypt",
                           "capture_subdomains", "terminate_tls",
                           "forward_subdomains", "terminate_http"}
    [] OTHER           -> {}

ExactlyCompared(kind) ==
  CASE kind = "hosted" -> {"https"}
    [] kind = "remote" -> {"https"}      \* of its backend
    [] OTHER           -> PrintedIfTrue("dir")

SameBlock(a, b) ==
  /\ a.kind = b.kind /\ a.host = b.host /\ a.port = b.port
  /\ a.hints = b.hints /\ a.args = b.args /\ a.ownPort = b.ownPort /\ a.body = b.body
  /\ \A f \in LooselyCompared(a.kind) : IsTrue(a, f) = IsTrue(b, f)
  /\ Kept(a.flags, ExactlyCompared(a.kind)) = Kept(b.flags, ExactlyCompared(a.kind))

SameItems(a, b) == Len(a) = Len(b) /\ \A i \in DOMAIN a : SameBlock(a[i], b[i])

Global == {"root_dir", "ip", "loopback", "alpn", "auto_start", "account", "admin", "settings",
           "portVar"}

SameGlobals(a, b) == \A g \in Global : a[g] = b[g]

SameConfig(a, b) ==
  /\ SameGlobals(a, b)
  /\ \A k \in Lists : /\ (a[k] = None) = (b[k] = None)
                      /\ SameItems(Items(a[k]), Items(b[k]))

\* The places of a configuration where a block stands.
Places(c) == UNION {{k} \X DOMAIN Items(c[k]) : k \in Lists}
At(c, p)  == c[p[1]][p[2]]

Valid(c) ==
  /\ ~c.portVar
  /\ \A p, q \in Places(c) : p # q =>
       /\ At(c, p).host # At(c, q).host
       /\ p[1] = "hosted" /\ q[1] = "hosted" /\ At(c, p).port # None
            => At(c, p).port # At(c, q).port
  /\ \A b \in Blocks(c) : b.kind # "dir" /\ IsTrue(b, "enable_lets_encrypt")
       => IsTrue(b, "terminate_tls") /\ ~IsTrue(b, "capture_subdomains")
  /\ \A b \in Blocks(c) : b.kind = "hosted" /\ b.port # None /\ b.ownPort # None
       => b.ownPort = b.port

-----------------------------------------------------------------------------
(***************************************************************************)
(* Older files (try_upgrade_to_latest_version).                            *)
(***************************************************************************)
Mapped(list, F(_)) == [i \in DOMAIN Items(list) |-> F(Items(list)[i])]

\* The flags, with those in more set anew.
With(flags, more) == [f \in DOMAIN flags \cup DOMAIN more |->
                        IF f \in DOMAIN more THEN more[f] ELSE flags[f]]

NoCertificate == [f \in {"enable_lets_encrypt"} |-> FALSE]

\* Legacy to V1: the port of a legacy process is not read from the file
\* (serde skip), so it is 0; a list of processes is always there.
FromLegacyBlock(b) ==
  [b EXCEPT !.port  = IF IsTrue(b, "https") THEN 0 ELSE None,
            !.flags = Kept(@, DOMAIN @ \ {"capture_subdomains"})]

FromLegacy(c) == [c EXCEPT !.hosted = Mapped(@, FromLegacyBlock), !.alpn = FALSE]

\* V1 to V2: one target becomes the one backend of a remote site; "disabled"
\* is already called exclude_from_start_all here; no arguments are none given.
FromV1Block(b) ==
  [b EXCEPT
     !.args  = IF @ = "empty" THEN None ELSE @,
     !.port  = IF b.kind = "hosted" \/ @ # None THEN @
               ELSE IF IsTrue(b, "https") THEN 443 ELSE 80,
     !.flags = With(Kept(@, {"disable_tcp_tunnel_mode", "https", "capture_subdomains",
                             "forward_subdomains", "auto_start", "log_format",
                             "exclude_from_start_all"}),
                    NoCertificate)]

FromV1(c) == [c EXCEPT !.hosted = Mapped(@, FromV1Block),
                       !.remote = Mapped(@, FromV1Block),
                       !.dir = None, !.account = None, !.admin = None, !.alpn = FALSE]

\* V2 to V3.  Tunnel mode off means that TLS is terminated, and HTTP too for
\* a remote.
Terminated(b) ==
  IF "disable_tcp_tunnel_mode" \notin DOMAIN b.flags THEN <<>>
  ELSE [f \in {"terminate_tls"} \cup (IF b.kind = "remote" THEN {"terminate_http"} ELSE {})
          |-> b.flags["disable_tcp_tunnel_mode"]]

FromV2Block(b) ==
  [b EXCEPT
     !.hints = IF @ \subseteq {"NOH2"} THEN {} ELSE (@ \ {"NOH2"}) \cup {"H1"},
     !.flags = With(With(Kept(@, {"https", "capture_subdomains", "forward_subdomains",
                                  "auto_start", "log_format", "exclude_from_start_all"}),
                         NoCertificate),
                    Terminated(b))]

FromV2(c) == [c EXCEPT !.hosted = Mapped(@, FromV2Block),
                       !.remote = Mapped(@, FromV2Block),
                       !.dir = None, !.account = None, !.admin = None, !.alpn = FALSE,
                       !.loopback = None]

Upgrade(f) ==
  CASE f.ver = "legacy" -> FromV2(FromV1(FromLegacy(f.conf)))
    [] f.ver = "V1"     -> FromV2(FromV1(f.conf))
    [] f.ver = "V2"     -> FromV2(f.conf)
    [] OTHER            -> f.conf
=============================================================================
