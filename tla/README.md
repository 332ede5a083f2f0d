# odd-box in TLA+

odd-box is a reverse proxy that also starts and supervises the web servers it
proxies to ("hosted processes"), serves directories, follows Docker and obtains
certificates. It is configured by one TOML file, by an admin API that rewrites
that file, and by a terminal UI. This directory models the parts of it where
several tasks share state, checks them with TLC and proves what matters most with
TLAPS. Paths below are relative to the repository; line numbers are in
`PROJECT.json`.

## 1. Inventory

| Component | State it keeps | Operations | Talks to | Hard behaviours | What makes it correct |
|---|---|---|---|---|---|
| Process supervisor: one `host` task per hosted process (`proc_host.rs`) | local `enabled`, the child, a broadcast receiver; its entry of `PROC_THREAD_MAP`; its entry of `site_status_map` | loop: mark check, exit check, drain commands, choose a port, find the binary, spawn, watch, kill, retry | reload (removal mark, live configuration), API/TUI/proxy (commands), Janitor, `main` (shutdown) | every check happens at another moment than the change it looks for; a lagging receiver loses messages; kills block for seconds | one process per site; every live task is registered; disabled sites stop, crashed ones restart; nothing survives `main` |
| Hot reload (`config_file_monitor`, `reload_from_disk`) | active configuration, a queue of file events, the plan of the pass | read, validate, compare, mark, wait, sweep statuses, spawn, swap | `PROC_THREAD_MAP`, status map, the file, every reader of the configuration | long wait in the middle with everything moving; failure after processes were stopped; events during a pass | a pass ends; what runs is what is configured; the last edit wins; new tasks never meet old ones |
| Janitor and shutdown (`main.rs`) | none of their own | drop entries of dead tasks; wait for receivers, then return | map, channel | races with registration; tasks spawned during shutdown | only dead entries are dropped; shutdown completes |
| Site status map | host name to status | written by hosts, TUI, reload, Docker, delete | read by proxies to decide on a wake-up | entries written by tasks on their way out | no stale Running, no stray entry |
| Ports (`configuration/mod.rs`) | `active_port` in the configuration and in the map | `busy_ports`, `set_active_port`, `port_is_free` | hosts, reload, lookup | check-then-use; copies made before a wait and swapped in after it | two sites never share a port; routing uses the port of the running process |
| Site lookup and cache (`main.rs`) | `reverse_tcp_proxy_target_cache` | `try_find_site`, `invalidate_cache` | configuration, map | cached targets outlive what they copied | a cached answer equals a fresh one |
| Configuration updates (`api/controllers`) | the file | copy, change, write, wait for a newer version | file monitor | read-modify-write without a lock; a write in two steps that is validated only later; a bounded wait | an update changes its own site only; success means applied; an unusable file is somebody's |
| Configuration model (`configuration/*`) | three file versions, resolved processes | parse, upgrade, validate, compare, print | all | lossy printing; equality that ignores fields | upgrade and print keep the meaning |
| Listeners (`proxy.rs`) | permits, two listener tasks | bind, accept, cancel and rebind | configuration | permits across cancellation; a bind that fails | permits are conserved; a listener is always there |
| Connection routing (`proxy.rs`, `tcp_proxy`) | peeked bytes, round-robin counters | peek, choose tunnel or terminate, choose a backend | lookup, status map | messages that arrive in pieces; several paths to the same tunnel or service | the backend is spoken to in its language; the site's settings hold on every path |
| Terminating proxy (`http_proxy`) | per-request snapshot of the configuration | redirect, wake the site, wait for its port, take a permit, forward | commands, map | waits without a limit; websockets that go their own way | a request gets an answer; permits come back |
| Let's Encrypt and certificates (`letsencrypt.rs`, `certs.rs`) | challenge maps, certificate caches and files | order, challenge, poll, finalise, renew, resolve | background worker, TLS resolver, HTTP service, the CA | failures half-way, crashes between two writes, two caches | only what belongs together is stored; nothing but a named obstacle keeps a domain from its certificate |
| Connection tracking (`proxy_state.rs`, `connection_type.rs`) | one entry per connection | track, update, delete | streams, TUI, API | updates and drops from several streams of one connection | one entry, one Open, one Close; the kind shown is the kind it is |
| Traffic observer (`observer.rs`, `h1_parser.rs`, `h2_parser.rs`) | decoders and entries per connection | receive an event, decode, reset | a broadcast channel, the inspection switch | lost events, pieces, two directions at once | what is shown was said; no entry outlives its connection |
| Docker discovery (`docker.rs`, `main.rs`) | the containers in the active configuration, statuses | discover, store | configuration, reload | a reload takes its containers away | they come back |
| Directory server, TUI, logging, self update, web UI | see `PROJECT.json` | | | | |

`PROJECT.json` lists every component with its status, and under `hazards` each
place where the code is hard to test.

## 2. What is modelled

**`ProcHost.tla`** is the supervisor. A task `<<s, k>>` is the host spawned for
site `s` by the `k`-th pass over the configuration (0 is start-up). The program
counter names the points between which something else can happen:

| pc | place in `host` |
|---|---|
| `top` | head of the outer loop: the pid is cleared, a removal mark ends the task |
| `check` | exit flag, status Stopped |
| `idleOn`, `idleOff` | drain of the outer loop, entered enabled or not |
| `launch` | port, binary, status Starting |
| `spawn` | `Command::spawn` |
| `run` | head of the inner loop: `try_wait`, exit, replaced, status Running |
| `drain` | drain of the inner loop, then mark and `enabled` |
| `kill`, `killMarked` | the signal ladder, after which the task goes on or returns |
| `after` | behind the inner loop: retry, or leave on exit |

`PROC_THREAD_MAP` is three functions over proc ids: `owner` (whose liveness
pointer the entry holds), `marked`, `hasPid`. A proc id is a UUID minted when a
block is parsed and handed on when the host name is already registered, so it is
named by the pass that minted it. The broadcast channel is a bounded queue per
receiver; overwriting its oldest message sets `lagged`, and the first `try_recv`
afterwards ends the drain, as `while let Ok(..)` does. Commands are the API's, the
`/START` and `/STOP` pages', a request's wake-up, and the TUI's keys and clicks,
which also edit the status map. `Janitor` and `Halt` are the cleanup task and the
shutdown wait of `main`.

**`HotReload.tla`** EXTENDS it with the monitor task and its writers. The pass is
cut where the code awaits or where its errors leave it: `TakeEvent`,
`NothingToDo` (unusable or equal file), `Plan` or `PlanFails`, `Mark`, `Await`,
`SpawnAll` or `SpawnFewer`, `Swap`. A configuration gives every site the version
of its block or `None`; versions are distinct contents, `AutoStart` those that
start by themselves, `Broken` any file that is not valid. The complete
specification and all properties are in this module.

**`SiteSupervisor.tla`** is what both promise together: per site at most one
process, launched only by the newest generation, hand-over only of an empty site,
nothing left when odd-box is down. `HotReload` implements it under the mapping
`Supervisor`.

**`Ports.tla`** follows a port through the four places that remember it, which
change at different moments:

| variable | in the code |
|---|---|
| `port` | `resolved_proc.active_port` of the host task |
| `entry` | `config.active_port` of its `PROC_THREAD_MAP` entry, written after the spawn |
| `recorded` | `active_port` of the block in the active configuration: what `busy_ports` and `try_find_site` read |
| `plan` | `active_port` in the new configuration, copied before the wait for outgoing hosts and swapped in after it |

A host is `idle` (outer loop), `chosen` (between `set_active_port` and the spawn) or
`up`. `Choose` is `set_active_port`, cut into the operators `KeepsPort`,
`Preferred` and `Scanned` in the order of the code; its port is checked with the
kernel and not reserved, so `Bind` comes later and other programs (`ForeignBinds`)
may come first. A pass is `Plan`, `SpawnHosts`, `Swap`, `Flush`; `Lookup` fills the
lookup cache under the configuration's read lock, which is why it is one step. The
history variable `unclaimed` names the sites whose port the active configuration
did not carry, or carried twice, at some time since their host chose it: a choice
of a site that is not swapped in yet, a swap that restores an older port, a port
kept although another site claims it. It is never read by an action.

**`Listeners.tla`** is `listen` with its two listener tasks. `main` is the place in
the restart loop, `at` the await a listener has reached, `taken` a connection it
has accepted and not handed on. `Cancelled` is the `select!` around a listener: its
future is dropped at whatever await it has reached, together with the permit it
has forgotten and the connection it may hold. A connection's own life (`Served`) is
the next component's; here it ends at some time and puts a permit back.

**`Gateway.tla`** is what happens to an accepted connection. A connection's `phase` is
its place on one of the paths:

| phase | in the code |
|---|---|
| `peek`, `peekTunnel`, `peekServe` | the peek loop, on the raw stream and again on a terminated one |
| `route` | `handle_new_tcp_stream` after the peek: API, tunnel, fallback or drop |
| `acceptApi`, `acceptTunnel`, `acceptServe` | a TLS handshake, with who asked for it |
| `pick`, `connect`, `tunnel` | backend filter and round robin, the connection to the backend, the tunnel |
| `fallback` | `use_fallback_mode` |
| `serve`, `wake`, `permit`, `response`, `websocket` | the terminating service and the points where a request waits |
| `api`, `drop`, `dropInner`, `gone` | odd-box's own API; the drops of the outer and the inner stream |

Of a client the peek loop sees nothing, a sliver, a part or the whole of its first
message (`Pieces`); `obs` is the HTTP/2 observer that is handed the whole buffer at
every peek. `tracked` is the entry of `active_connections` with the flags of the
stream, `Kind` the table that turns them into what is shown. A hosted site's process
appears as `proc` only: its life is `ProcHost`'s. Certificates, headers and bodies
stay outside.

**`Configuration.tla`** holds the configuration as data: blocks of three kinds, the
flags the structs of each format have (`FlagsOf`), `Valid`, `SameBlock` and the other
equalities, `Written` (what `to_string` prints) and `Upgrade` from each older version.
The operators keep every field that is lost, changed or compared on the way and no
other. **`ConfigUpdate.tla`** EXTENDS it with everybody who reads or writes it: the
handlers of the API (`Request`, then copy, change, the two halves of `fs::write`, the
comparison after the write, the wait), a person with an editor, the monitor's pass, the
Docker thread, start-up with its upgrade, and crashes. `file` is `Torn` between the two
halves of a write. `mixed` and `alone` are history: another writer filled the file since
this one emptied it; nobody else has touched file or configuration since the handler
copied it. What a pass does to hosts is `HotReload`'s; here it waits, can be given up,
and moves the statuses of sites without a host task. `strayed` is history too: sites
whose status a pass moved before it was given up, or a delete took away.

**`LetsEncrypt.tla`** is the worker (`Wake`, `Begin`, then per domain check, order,
authorize, validate, finalize, download, and the two writes), the answers of the HTTP
service, the TLS resolver with its two caches, the switch that reload moves, and
crashes at any moment. A pair on disk is a certificate file and a key file, which
may be torn or not belong together. The CA is external: it validates what odd-box
answers, remembers a validation for a while and limits the orders. Validity is four
classes.

**`Decoders.tla`** gives the two traffic decoders as operators over conversations cut
into units; **`Observer.tla`** is the rest of traffic inspection: connections that
move units, the lossy channel, the observer task, and the switch, whose test and
reset are two steps. `marked` is `is_http2` of a conversation's stream, which goes
with every event of bytes and chooses the decoder: it is the peek that sets it, when it
has seen the preface, and not what the client speaks.

**`HotReloadProofs`**, **`PortsProofs`**, **`ListenersProofs`**, **`GatewayProofs`**,
**`ConfigUpdateProofs`**, **`LetsEncryptProofs`**, **`DecoderProofs`** and
**`ObserverProofs`** hold the proofs, the **`MC*`** modules the instances. What
modules share besides EXTENDS is an assumption of one that another makes good:
`Ports` takes from the supervisor that a site has one host, `Gateway` takes a
connection over where `Listeners` hands it on and gives it a site whose configuration
does not change while it lasts (the code copies the configuration per connection),
`ConfigUpdate` knows of a pass only that it waits and may fail, which is what
`HotReload` details.

Choices worth knowing:

* `tokio::spawn` of a host and its first insert into the map are one step. The
  insert is the first thing a new task does, and the next reader of the map that
  could miss it is the next pass, which sleeps 1.5 s first.
* Sleeps carry no time: a task may be overtaken at each of them for any length.
* The kill ladder (SIGINT, SIGTERM, SIGKILL) always ends the process.
* Whether a block resolves depends on `root_dir`; `RootCanVanish` lets it stop
  resolving at any time.
* An edit in `HotReload` is one change of the file with one event; the two halves of a
  write are `ConfigUpdate`'s. Editors are taken to write in place: one that replaces
  the file by renaming loses the watch.
* `Gateway`: increment and use of a round-robin counter are one step. Backends whose
  hints contradict their scheme are exempt from `SpeaksItsLanguage` (`Coherent`). The
  property asks of every path, tunnels, requests and websockets alike, that the scheme
  and the version of HTTP are ones the backend understands, with two exceptions, both
  defects listed below: `WssToClear` and `Http1Anyway`.
* `ConfigUpdate`: settings may carry a PORT variable, as `SaveGlobalConfig` may.
  `EventsSoFar` counts requests, troubles and upgrades together: a behaviour has any three
  of them rather than some of each.
* `Observer`: bytes that a decoder gets out of step are unreadable, what is shown then
  is arbitrary, and no property speaks about it.

## 3. Runs

| run | asks | instance |
|---|---|---|
| `reload_safety` | Can passes, process exits, failing passes and exit be interleaved so that a site has two processes, a live task loses its entry, a process is orphaned, something else runs than is configured, or the abstract supervisor is left? | 2 sites, 2 versions and an unusable file, 2 edits, so 3 generations; no commands |
| `reload_liveness` | Do passes end, does shutdown complete, does the last edit win, do disabled sites stop and crashed ones restart; is a status Running ever left behind? | 1 site, 2 edits, 1 command (too few for a queue to overflow) |
| `excluded_start_all` | Does a bulk start skip an excluded process? **No.** | 1 site, 2 commands |
| `failed_pass_revert` | Does odd-box keep the configured binaries running? **Not** after a pass that failed half-way and a file that went back. | 1 site, 2 edits |
| `ports_claims` | Do hosts whose port the active configuration carries ever share one? Does a lookup that overlaps a pass leave an old block in the cache? | 2 sites, 3 ports, each kind of block (automatic, fixed, kernel-chosen, environment), 1 pass, 1 foreign program on the start of the range |
| `ports_shared` | Do two hosts ever select the same port? **Yes.** | 2 automatic sites, 1 pass |
| `ports_fixed` | Does a process run on its fixed port? **Not** after a reload that changes it. | 1 site, 2 fixed ports, 1 pass |
| `connections` | Does any path get round the site's settings or speak to a backend in the wrong protocol; is a connection's entry true, made once and removed once; can a connection be held for ever? | 11 site configurations, a client of any of 13 kinds beside a plain one, 3 attempts, 1 permit |
| `config_updates` | What may a write by the API change, what do its answers mean, who can leave an unusable file, do file, configuration and statuses come to rest together? | 2 handlers, one of 3 updates and 2 settings changes (one that spoils the file) beside a delete; any 3 of: requests, edits (2), failing write or pass, crash, container, upgrade (1 each); a complete V3 file or a legacy one |
| `certificates` | Are challenges accounted for, can anything but a crash spoil the files, is a good pair ever dropped, do rounds end, what can keep a domain from its certificate? | 1 domain, 3 orders, 1 failing request, 1 change, 1 crash |
| `traffic_shown` | Is what is shown what was said, whatever the pieces are and whatever the channel loses? Does an entry outlive its connection? | 10 conversations alone (one with a header block in three frames, one whose preface the peek has missed, one upgraded to h2c), a short and a silent one together; channel of 2, 2 presses of the switch, 1 repeated write, pieces of up to 3 units |
| `listener_permits` | Is every permit accounted for; how many does a change of address cost; do the listeners end up on the configured addresses; are clients answered? | 2 listeners, 2 clients, 2 changes, 6 permits |

Bounds. Two edits give the shortest histories in which a pass replaces a task that
was itself a replacement, in which an edit arrives during a pass, and in which a
site leaves and returns. Two sites are needed for a pass that spawns some of its
hosts and fails; nothing relates three. Three generations are exactly what two
edits can create (`ReloadAssumption` says so, and `MaxGen` therefore never holds a
pass back). Commands only reach `enabled`, which `reload_safety` also moves
through auto-start and so leaves to the other run. There one command fills a queue and
none is overwritten, so a lagging receiver is in the model but not in this run. With
`MaxSends = 2` it is: the same properties hold then (385,582 states, more than
three minutes), which is too slow for a regular run. The two sites of
`reload_safety` are symmetric (only safety is checked there).

In `ports_claims` one pass at any moment from any valid start brings every kind of
block in, out or in another's place; three ports leave one for the search when two
are claimed. Two sites are what exclusion relates. In `listener_permits` two
changes make a change during the restart that answers the first one; two restarts
can lose four permits, and six leave two. With one permit left an idle listener
that waits in `accept` keeps it and the other starves: `ClientsAnswered` fails with
`Limit = 5`. (In the code `Limit` is 200, so this takes about a hundred changes of
the bind address.)

In `connections` the second connection is plain: nothing relates two but the permit,
the counter and the process. Each site is there for a path of its own (mixed and
prior-knowledge backends, one that takes h2c alone, forced TLS termination, forced HTTP
termination by three settings, redirects, hosted processes with each scheme, a site that
is neither hosted nor remote). Three attempts are what an observer with half a preface
needs to recover. In `config_updates` two handlers make every overlap of two writers.
Three events are what the longest of the histories take that are easily overlooked: an
edit that removes a site and changes a process, a pass that is given up after it has
moved the statuses, and an edit that takes it all back, so that no later pass sees a
change. In `certificates` domains are independent but for the order numbers; two domains
with two orders and one fault pass as well. Three orders allow a failure, a success and
a renewal. In `traffic_shown` each conversation shows one thing the decoders must cope
with, and one connection is what they see; the second is needed to lose events of
another.

Fairness. Each host task, the Janitor, the monitor and the shutdown wait are weakly
fair: they are Tokio tasks and threads that are polled for ever and never wait for
one another except where the model says so. Users, the file and the hosted
processes owe nothing; in particular a process may never end by itself.

`Ports` has no fairness (only safety is asked). In `Listeners`, `listen` and both
tasks are weakly fair, taking a permit, accepting a given connection and noticing a
cancelled token strongly fair: Tokio's semaphore and the kernel's backlog are
first-in first-out, so whoever waits there is not overtaken for ever, and a token
that has fired stays so. That a connection ends is an assumption about clients
and backends.

In `Gateway` every connection's own steps are weakly fair, for it has a task, and the
permit strongly fair, for Tokio's semaphore is first-in first-out; clients and backends
owe nothing. In `ConfigUpdate` the monitor, the Docker thread, the upgrade and each
handler are weakly fair (tasks that wait for nobody but by time); nobody has to ask,
edit or restart. In `LetsEncrypt` the worker is weakly fair, its requests time out.
`Observer` has none.

### What the findings show

* `excluded_start_all`: the guard against bulk starts stands in the outer drain
  only. A stop and a start-all that are both read by the inner drain leave an
  excluded process enabled (`docs/src/configuration.md`: "If `true`, `start_all`
  CLI/API skips this process").
* `failed_pass_revert`: `reload_from_disk` stops the changed hosts first and
  resolves their blocks again afterwards. If that fails it returns without
  swapping, and a file that goes back to the old contents equals the active
  configuration, so no pass ever spawns the missing host.
* `ports_shared`: `set_active_port` records its choice in the block of the active
  configuration that has the host's proc id. Hosts of new sites are spawned before
  the configuration that lists them is swapped in, so their choices are recorded
  nowhere and two of them take the same port before either process binds it. The
  comment in front of the call says it is there so that this does not happen.
  `ports_claims` and `PortsDistinctCorrect` show what is left: the choice is
  exclusive among all hosts whose port stays in the active configuration.
* `ports_fixed`: a pass hands a changed process its old port, and
  `set_active_port` keeps a current port that is free before it looks at `port`.

### Worth knowing

Behaviour the models had to follow, beyond the findings:

* A listener that is cancelled after it took a permit never puts it back, up to two
  for each change of the bind addresses (`LossPerChange` is the exact bound).
* Tunnels of undeciphered TLS are always listed as "Invalid": the path sets an
  outgoing tunnel of TLS, the table expects a raw one. `KindIsReal` names this and the
  short-lived TLS on the clear-text port as the only untrue kinds.
* A websocket ignores `redirect_to_https`, the counter and the permits, and one that
  came over TLS is sent on over TLS even to a clear-text backend (`WssToClear`).
* `v3.rs:888` says that HTTP/1 is supported only if it is hinted where there are hints.
  Two paths do not look: websockets, which always go over HTTP/1.1, and requests of a
  terminated connection to a backend that hints at nothing but H2C, which go over
  HTTP/1.1 unless the client itself asked for h2c (`utils.rs:134-153`). `Http1Anyway`
  is exactly these.
* A client that sends half a ClientHello and keeps the connection is polled for ever
  without being counted; a request waits for a permit and for its backend without a
  limit (`ConnectionsEnd` has exactly these two exceptions).
* A client with HTTP/2 prior knowledge whose first segment is the preface with one
  frame is dropped: the next peek feeds the observer the same bytes again.
* API handlers write before anything is validated. A change that makes the
  configuration invalid stays in the file, the handler fails after ten seconds (for
  settings it reports success), and the next start refuses the file. A PORT variable in
  the settings is one such change.
* An update that changes nothing the comparison sees is answered as a null change,
  although the file was rewritten; the flag is never active and the next update reverts
  it. A handler may take another writer's reload for its own.
* `to_string` drops `terminate_http`, `forward_subdomains` and `log_format` of hosted
  sites, `terminate_http` and `keep_original_host_header` of remote ones, and gives an
  unset `root_dir` or `ip` a value; an unset `auto_start` becomes false, though unset
  means true, and arguments that are not given become an empty list, which the comparison
  takes for a change: the next pass restarts such processes whatever was asked for.
* A pass moves the statuses of remote and directory sites before it resolves the last
  processes. Given up there, it leaves them moved, and if the file then goes back to what
  is active no pass sees a change and they stay wrong. A delete removes the status before
  it writes, and does not bring it back if the write fails. `strayed` records both, and
  `StatusesAgree` holds of all other sites.
* A challenge that has failed stays in the map and every later round waits for it; a
  renewal does without a challenge and fails once the CA has forgotten the earlier
  validation; a crash between the two writes leaves a pair that does not fit
  (`Certified` lists the obstacles and shows there is no other).
* The decoder is chosen by a flag that only the peek sets. Where the preface comes later
  than five attempts, or in pieces, the connection is served all the same, and after an
  upgrade to h2c nobody sets it: all HTTP/2 on such a connection goes to the decoder of
  HTTP/1, which cannot read it, and nothing of it is ever shown (`Missed`).
* A websocket that the server refuses leaves the decoder waiting for the switch
  (`UpgradeRequested` never becomes `Http` again): later requests on that connection are
  never shown, only the responses (`Refused`). After one side's close frame the decoder
  is back in HTTP and the other side's frames are not shown either (`Closed`).
* Decoders of closed connections are kept until inspection is switched off; a short
  write broadcasts its buffer twice and puts the decoder out of step; the answer to a
  HEAD request or a chunked body hides what follows it; one table of HTTP/2 streams
  for both directions shows a response that overlaps its request with the data of
  both.
* The HTTP/2 decoder has room for one unfinished header block, whichever way it goes,
  and an event stops behind it whatever lies there. Where both sides cut theirs, one
  may push out the other, whose end is then shown as a frame of its own (`Crossed`);
  behind the second frame of a block things wait for a later event (`Stalled`), and the
  decoder may come to an answer before it has come to the request, which is then shown
  without its stream's entry (`CutTwice`). `ShownIsSent` leaves out exactly what these
  three touch.

## 4. Proofs

All theorems hold for any set of sites and versions, any number of passes, edits
and commands and any channel capacity, any ports and blocks, any number of clients,
connections, domains, handlers and permits; they rest on the `ASSUME`s of the modules
only (naturals for the bounds, a positive capacity, finitely many clients and
connections, `None`, `Broken`, `Torn` and `Foreign` distinct from real values, files
and requests as serde parses them: the fields and flags of their format), and, for what
inspection shows, on the two hypotheses below.

| theorem | establishes |
|---|---|
| `TypeCorrect` | `Spec => []TypeOK` |
| `MappedCorrect` | `Spec => []LiveTaskIsMapped` |
| `OneProcessCorrect` | `Spec => []OneProcessPerSite` |
| `NoOrphanCorrect` | `Spec => []NoOrphan` |
| `SupervisorImplemented` | `Spec => ImplementsSupervisor` |
| `RunningCorrect`, `HostsMatchCorrect`, `NoStrayCorrect` | `Spec => []RunningIsHosted`, `[]HostsMatchConfig`, `[]NoStrayStatus` |
| `PortsTypeCorrect`, `PortsDistinctCorrect`, `CacheCorrect` | `Spec => []TypeOK`, `[]ClaimedPortsDistinct`, `[]CacheFollowsConfig` of `Ports` |
| `ListenersTypeCorrect`, `PermitsConservedCorrect`, `LossPerChangeCorrect` | `Spec => []TypeOK`, `[]PermitsConserved`, `[]LossPerChange` of `Listeners` |
| `GatewayTypes`, `PolicyCorrect`, `LanguageCorrect`, `TrackedCorrect`, `KindCorrect` | `Spec => []TypeOK`, `[]PolicyKept`, `[]SpeaksItsLanguage`, `[]TrackedWhileAlive`, `[]KindIsReal` of `Gateway`: all of its safety |
| `CertTypeCorrect`, `ChallengesAgreeCorrect`, `OnlyCrashesSpoilCorrect`, `ValidCertKeptCorrect` | `Spec => []TypeOK`, `[]ChallengesAgree`, `[]OnlyCrashesSpoil`, `ValidCertKept` of `LetsEncrypt`: all of its safety |
| `UpdateInvariant`, `ConfirmedChangeIsActive` | what a handler may rely on, and `Spec => ConfirmedIsActive` of `ConfigUpdate` |
| `ActiveConfigIsValid`, `UnusableIsBlamedCorrect`, `UpdateTypeCorrect` | `Spec => []ActiveIsValid`, `[]UnusableIsBlamed`, `[]TypeOK` of `ConfigUpdate` |
| `ChangesOnlyItsSiteCorrect`, `AnswersAreTrueCorrect` | `Spec => ChangesOnlyItsSite`, `AnswersAreTrue`: with the above all of its safety |
| `NoGhostsCorrect` | `Spec => []NoGhosts` of `Observer` |
| `UnderstoodIsShown` | what `ShownIsSent` says, with the exceptions that `Hidden` and `Misleading` name, of every connection over HTTP/1, over HTTP/2 with whole header blocks, and over HTTP/2 that the peek has missed, whatever the others speak |
| `ShownIsSentCorrect` | `Spec => []ShownIsSent`, with these exceptions, of `Observer`, if all conversations are of these kinds |

The argument is one inductive invariant, `TaskInv`. None of the safety properties
is inductive: a pass spawns tasks and overwrites map entries, so one has to know
that nothing live is under them. `OutgoingLeave` says what the monitor has
established at each of its points (while it waits, every live task of a site it
will spawn is marked; when it spawns, there is none), `PassOrder` and
`LiveIsNewest` order the generations, `AliveIsHosted` ties a process to the points
of its task, and `HaltedIsQuiet` is what the shutdown wait gives. `Mark` and
`Await` hand the marks over through `LiveTaskIsMapped`, which is why the Janitor's
step matters. The refinement maps `Spawn` to `Launch`, `Killed` and the end of a
process to `End`, `SpawnAll` and `SpawnFewer` to `TakeOver`, `Halt` to `GoDown`
and everything else to a stutter.

For `Ports` the invariant is `ClaimInv`. Exclusion follows from two facts about the
active configuration: a host that is not `unclaimed` finds its own port there
(`ClaimRecorded`) and such entries differ (`RecordedDistinct`, which also covers
sites whose host has left, since their claim still counts). Keeping these through
`Swap` needs to know where the swapped-in ports come from: `PlanHasHolder` says that
a planned port belongs to a site the pass spawns or to a host that stays, and
`EntryHasHolder` that a map entry has a port only when its host has.

For `Listeners` the invariant is `PermitInv`. Conservation needs that no connection is
with two listeners (`TakenOnce`) and counts finite sets. The bound on lost permits
needs the order of a restart: tokens are cancelled one after the other
(`TokensInOrder`), tasks are only started when those before have ended
(`StoppedInOrder`), so that a restart that has stopped one listener has lost at
most one permit (`LossSoFar`), and every restart answers a change of its own
(`RestartPerChange`).

The last part of `HotReloadProofs` continues where `TaskInv` ends. That what runs is
what is configured (`MatchInv`, for passes that are not given up and a program that is
not leaving) rests on what the monitor has at each of its points: marks exist only while
it waits (`MarksAreAwaited`) and an unmarked entry is a live task's, under the id it
knows; between passes `ConfigRuns`; while a pass is under way its sites fall into those
left alone, which run the new version already, and the outgoing, marked while it waits
and gone when it spawns (`PlanIsUnderWay`); and after spawning the plan runs
(`PlanRuns`).

For `Gateway` the invariant is `GateInv`, a conjunction of statements about one
connection, since steps of one leave the others alone (`OthersKeep`). The settings hold
in a tunnel because whoever is on the way to one has passed them (`MayTunnel`) and
undeciphered TLS is recognised as TLS by the first peek wherever the client speaks it
(`TlsIsSeen`). The language of a backend follows from `TunnelFits`, which says what a
pick has established and that later steps keep it, and the kind shown from
`EntryTells`, which says what the entry holds at each point. The permits in flight are
counted over finite sets.

For `LetsEncrypt` the invariant is `CertInv`: types, the two properties, that a domain
being ordered for has no token yet (`TokenIsFresh`), and that a key is written after
its certificate (`PairBegun`). For `ConfigUpdate` it is `UpdateInv`: while nobody else
has touched anything, what stands in the file is what the handler's point says
(`FileIsUntouched`, `FileIsOpen`, `FileIsMine`), and a newer version is its own. That
the active configuration is valid (`ValidInv`) follows from the two places where one is
taken from the file, since putting the list of processes back changes no block. Who
has spoilt the file is `BlameInv`: a request that is confirmed and has been alone had
its file found usable by the pass that took it (`MineIsUsable`), two texts can only mix
when another writer was there (`MixedHasCause`), and what an upgrade writes is usable
because every older form is upgraded block by block and printing keeps the names, ports
and certificate flags that `is_valid` looks at (`UpgradeWellFormed`,
`PrintKeepsValid`).

That a write changes its own site and no other is a statement about lists of any
length. `Retained`, which says what `retain` keeps of the first `i` blocks, is a
recursive function; that its recursion has a solution, and what holds at every `i`
(`RetainedIs`, `RetainedAll`, `RetainedAlike`), is shown by induction over `i` in the
form this prover can take: a set of numbers that has 0 and every successor has them all
(`Inductive`), because a set without one would have a least number outside (`Least`). A
block that is printed and read back is the block but for what is never printed, since
every flag of the struct is printed as it is, printed when true, or in `Lost`
(`FlagsArePrintedOrLost`, which a flag that is added to the struct and forgotten in
`to_string` would break). From both, `RequestUntouches` and `RequestGranted` say of a
single request what the two theorems say of the system, and the flags of a block are
known because every configuration is well-formed (`AllWellFormed`), whichever format
it comes from.

For `Observer` it is `GhostInv`: an entry is excused by the stream, by a Close in the queue
or by one that was overwritten, and an update never comes from a connection that is
out of the table.

That inspection shows what was said is proved for HTTP/1 and websockets, and for HTTP/2
with whole header blocks, in two halves. `ObserverProofs` shows that the bytes of a
connection that is shown from its start reach its decoder in order: the channel holds
what has gone by and has not been heard, each unit once, and nothing of an answer before
the message it answers (`Wire`, `Causal`); and its Close is the last that is heard of it,
so its entry is not lost before (`Told`). `DecoderProofs` shows what the decoders make of
such bytes, however they are cut.

For HTTP/1 the invariant `Follows` relates buffers, mode and the list that is shown to
the number of units heard. Where nobody asks for a websocket, each direction has been
read message by message up to what is complete, or has gone `Astray` behind a head that
announces another length. With a websocket the conversation is in one of four stages:
`NotYet` asked for, `Asked`, `Framed` and `Ended` (refused, and HTTP goes on).
`FollowsHears` is the step, `FollowsShows` what the property needs.

For HTTP/2 it is `Follows2`. Every frame that is complete has been read (`ReadOut`: the
polls of an event go on while anything is there, `ParseKeeps`), each direction's buffer
stands at the next frame, the list shows what is visible of those that were read
(`Listed`), and the table has for each stream what its frames so far make of it
(`EntryIs`). The table is the difficulty: it is one for both directions, so what an item
shows depends on the frames of its stream in either. An entry is the request's until the
response begins and the response's afterwards; a response that is announced not to
overlap comes when the request's entry has been taken out, and so shows its own data
alone, while of one that overlaps only the part that goes its way (`OneWay`) is
determined. `TableTurns` is this for the frames of one stream, `PollStep` one poll,
`Follows2Hears` an event, `Follows2Shows` what the property needs.

HTTP/2 on a stream that is not marked is the simple case: the decoder of HTTP/1 keeps
all of it and reads nothing (`Ignored`), so nothing is shown and all is `Missed`.

The decoders' loops are recursive functions, over the units that are left and over the
size of the buffers; as in `ConfigUpdateProofs`, what they compute is shown by induction
in the form of a set of numbers (`UpTo`, `Least`).

The two theorems have hypotheses on what is said, not on how it is carried. A conversation
over HTTP/1 (`Http1`) has requests one way and responses the other, of any number and
length and pipelined as one likes, with heads that may announce a wrong length (a HEAD
request, a chunked body); or it asks once for a websocket, and then the client waits for
the answer before it goes on, the answer is either the switch or a response, frames
follow the one and requests and responses the other, and heads tell the truth, since a
decoder that is astray would take a switch for something else. One over HTTP/2 (`Http2`)
begins with the client's preface and has any number of frames on any number of streams,
interleaved as one likes; a header block is one frame; a stream carries at most one
request with its body and one response, which begins after the request's head and, where
it is announced not to overlap, after its end; and its stream is marked. One over HTTP/2
that the peek has missed (`Overlooked`) may be any. The conversations of `traffic_shown`
are of these kinds, except `Continued` and `ThreePieces`, whose header blocks are cut, and
`UpgradedToH2c`, which changes its version on the way.
`NoneIsNew` says that the model's `None` is neither a decoder nor an item or a list.

Only model-checked: `ShownIsSent` for conversations that are upgraded to h2c, and for
those over HTTP/2 whose header blocks are cut into several frames, where blocks of the
two directions share one place and push one another out, so that what is shown depends
on how the events fall between the frames; and everything about liveness, which this
prover cannot treat (`ReloadTerminates`, `ShutdownCompletes`, `Converges`,
`StopTakesEffect`, `RestartsUnlessStopped`, `ListenersFollow`, `ClientsAnswered`,
`RoundEnds`, `Certified`, `ConnectionsEnd`, `Settles`). Every other property of the
passing runs is a theorem.

## 5. Not modelled

* The directory server with its file cache: file I/O and rendering behind a time limit;
  no two tasks wait for one another in it.
* Byte formats: TLS records, HTTP heads, HPACK, TOML. A message is there, partly there
  or not.
* Header rewriting and the bodies that are passed on; error pages; the notices for web
  clients.
* Subdomains and wildcards in the lookup: string work on the host name. `Ports` and
  `Gateway` ask for a site under its own name.
* Expansion of `$root_dir` and `$cfg_dir`, the generator of example files.
* Self update, the lookup of a process by port, the GitHub experiment, the web UI:
  single calls or clients without state the proxy depends on.
* Drawing and scrolling of the terminal UI, logging.

## 6. What would come next

An abstract port table (a set of claims, one owner each) that `Ports` implements for
claimed hosts; `HotReload` and `ConfigUpdate` in one specification, the file's two
halves meeting hosts that leave; the lookup of subdomains as operators against a
reference definition.
