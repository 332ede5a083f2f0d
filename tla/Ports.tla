------------------------------- MODULE Ports -------------------------------
(***************************************************************************)
(* Who listens where: the ports of hosted processes.                       *)
(*                                                                         *)
(* A port is remembered in four places that change at different moments:   *)
(* the host task's own resolved configuration (`port`), the entry of       *)
(* PROC_THREAD_MAP (`entry`), the block of the active configuration, which *)
(* is what busy_ports reads (`recorded`), and the targets cached by        *)
(* try_find_site (`cache`).  A configuration pass copies `entry` before it *)
(* waits for changed hosts and swaps the copy in after the wait.           *)
(*                                                                         *)
(* A site has at most one host here (HotReload shows that); passes that    *)
(* fail half-way are HotReload's subject too.  The port scan is assumed to *)
(* end below 65535.                                                        *)
(***************************************************************************)
EXTENDS Naturals, FiniteSets

CONSTANTS
  Sites,       \* host names of hosted processes
  Port,        \* ports that exist
  RangeStart,  \* port_range_start
  Ephemeral,   \* ports the kernel hands out for port 0
  Blocks,      \* possible blocks: [fixed, env], each a port or None (fixed: or 0)
  Squatted,    \* ports other programs of the machine may take
  MaxForeign,  \* how often they do (bound)
  MaxPasses,   \* configuration passes after start-up (bound)
  None, Foreign

ASSUME PortAssumption ==
  /\ Port \subseteq Nat \ {0}
  /\ RangeStart \in Port
  /\ Ephemeral \subseteq Port
  /\ Squatted \subseteq Port
  /\ Blocks \subseteq [fixed : Port \cup {0, None}, env : Port \cup {None}]
  /\ MaxForeign \in Nat
  /\ MaxPasses \in Nat
  /\ None \notin Nat \cup Sites \cup Blocks \cup [port : Port, block : Blocks]
  /\ Foreign \notin Sites \cup {None}

VARIABLES
  (* host tasks *)
  host,       \* "off", "idle" (outer loop), "chosen" (about to spawn), "up"
  port,       \* resolved_proc.active_port
  marked,     \* marked_for_removal
  entry,      \* active_port of its PROC_THREAD_MAP entry
  (* active configuration *)
  block,      \* the site's block, or None
  recorded,   \* active_port of that block
  (* configuration pass *)
  pass,       \* "none", "wait", "swap", "flush"
  plan,       \* the new configuration: block and active_port per site
  touched,    \* sites whose host is spawned by this pass
  passes,
  (* the rest *)
  cache,      \* reverse_tcp_proxy_target_cache
  bound,      \* who listens on a port
  foreign,    \* how often other programs took a port
  unclaimed   \* history: sites whose port the active configuration did not
              \* carry, or carried twice, at some time since a host chose it

hostVars == <<host, port, marked, entry>>
confVars == <<block, recorded>>
passVars == <<pass, plan, touched, passes>>
vars == <<hostVars, confVars, passVars, cache, bound, foreign, unclaimed>>

-----------------------------------------------------------------------------
\* Mutant of Busy: ports in use do not count, only fixed ones.
Busy_ConfiguredOnly(s) ==
  {block[t].fixed : t \in {u \in Sites \ {s} : block[u] # None}} \ {None}

\* busy_ports without the entries of s itself: configured and active ports.
Busy(s) ==
  (UNION {{block[t].fixed, recorded[t]} : t \in {u \in Sites \ {s} : block[u] # None}})
    \ {None}

\* port_is_free: a listener could be bound right now.
Free(p) == bound[p] = None

\* The current port is kept, and nothing is written, if nobody else claims it
\* and it is free.
KeepsPort(s) == port[s] # None /\ port[s] \notin Busy(s) /\ Free(port[s])

\* A port that is claimed by another site is not given up here, only one that
\* is not free.
Fallback(s) == IF port[s] \in Busy(s) THEN port[s] ELSE None

\* What the block asks for, if another site does not claim it; otherwise the
\* fallback.  Port 0 asks the kernel.
Preferred(s, b) ==
  CASE b.fixed = 0 -> LET offers == {p \in Ephemeral : Free(p)}
                      IN  IF offers = {} THEN {None} ELSE offers
    [] b.fixed \in Port -> {IF b.fixed \in Busy(s) THEN Fallback(s) ELSE b.fixed}
    [] b.fixed = None /\ b.env # None ->
         {IF b.env \in Busy(s) THEN Fallback(s) ELSE b.env}
    [] OTHER -> {Fallback(s)}

\* The first port of the range that is neither claimed nor bound.
Scanned(s, p) ==
  /\ p >= RangeStart /\ p \notin Busy(s) /\ Free(p)
  /\ \A q \in Port : RangeStart <= q /\ q < p => q \in Busy(s) \/ ~Free(q)

\* Mutant of Selection: no search when nothing is preferred.
Selection_NoScan(s, b) == Preferred(s, b)

\* The ports set_active_port may answer with for a host of block b.
Selection(s, b) ==
  {p \in Port : p \in Preferred(s, b) \/ (None \in Preferred(s, b) /\ Scanned(s, p))}

-----------------------------------------------------------------------------
\* The block a host was spawned with: the planned one once the pass has spawned
\* it, the active one otherwise.
BlockOf(s) == IF pass = "swap" /\ s \in touched THEN plan[s].block ELSE block[s]

\* set_active_port, under the configuration's write lock.  The removal mark was
\* looked at earlier in the loop.
Choose(s) ==
  /\ host[s] = "idle"
  /\ host' = [host EXCEPT ![s] = "chosen"]
  /\ \/ /\ KeepsPort(s)
        /\ UNCHANGED <<port, recorded, unclaimed>>
     \/ /\ ~KeepsPort(s)
        /\ \E p \in Selection(s, BlockOf(s)) :
             /\ port' = [port EXCEPT ![s] = p]
             /\ recorded' = IF block[s] = None THEN recorded
                            ELSE [recorded EXCEPT ![s] = p]
             /\ unclaimed' = IF block[s] = None \/ p \in Busy(s)
                             THEN unclaimed \cup {s} ELSE unclaimed \ {s}
  /\ UNCHANGED <<marked, entry, block, passVars, cache, bound, foreign>>

\* Command::spawn and the write of the port to the map.
Launch(s) ==
  /\ host[s] = "chosen"
  /\ host' = [host EXCEPT ![s] = "up"]
  /\ entry' = [entry EXCEPT ![s] = port[s]]
  /\ UNCHANGED <<port, marked, confVars, passVars, cache, bound, foreign, unclaimed>>

\* The hosted process listens on the port it was given.
Bind(s) ==
  /\ host[s] = "up" /\ Free(port[s])
  /\ bound' = [bound EXCEPT ![port[s]] = s]
  /\ UNCHANGED <<hostVars, confVars, passVars, cache, foreign, unclaimed>>

Released(s) == [p \in Port |-> IF bound[p] = s THEN None ELSE bound[p]]

\* The process ends: it crashes or is stopped after it bound its port, or gives
\* up because it cannot bind.  The host returns to its outer loop.
ProcessEnds(s) ==
  /\ host[s] = "up" /\ bound[port[s]] # None
  /\ host' = [host EXCEPT ![s] = "idle"]
  /\ bound' = Released(s)
  /\ UNCHANGED <<port, marked, entry, confVars, passVars, cache, foreign, unclaimed>>

\* A marked host kills its process, drops its map entry and returns.
Leave(s) ==
  /\ marked[s] /\ host[s] \in {"idle", "up"}
  /\ host' = [host EXCEPT ![s] = "off"]
  /\ marked' = [marked EXCEPT ![s] = FALSE]
  /\ bound' = Released(s)
  /\ UNCHANGED <<port, entry, confVars, passVars, cache, foreign, unclaimed>>

-----------------------------------------------------------------------------
\* A configuration is_valid accepts: no port is fixed for two sites.
Valid(c) ==
  \A s, t \in Sites : s # t /\ c[s] # None /\ c[t] # None /\ c[s].fixed = c[t].fixed
                      => c[s].fixed = None

\* reload_from_disk up to the marks.  A host is replaced if its block differs;
\* blocks have fields that are not modelled, so others may be replaced too.
Plan(c, new) ==
  /\ pass = "none" /\ passes < MaxPasses
  /\ Valid(c)
  /\ new \subseteq {s \in Sites : c[s] # None}
  /\ \A s \in Sites : c[s] # None /\ (host[s] = "off" \/ c[s] # block[s]) => s \in new
  /\ pass' = "wait"
  /\ passes' = passes + 1
  /\ touched' = new
  /\ plan' = [s \in Sites |->
                [block |-> c[s],
                 port  |-> IF host[s] = "off" \/ c[s] = None THEN None ELSE entry[s]]]
  /\ marked' = [s \in Sites |-> host[s] # "off" /\ (s \in new \/ c[s] = None)]
  /\ UNCHANGED <<host, port, entry, confVars, cache, bound, foreign, unclaimed>>

\* Sites that this pass finds without a host: they get a fresh proc id.
Fresh == {s \in touched : block[s] = None}

\* No entry is marked any more: the new hosts are spawned.  Nothing cached under
\* a proc id that is gone for good is ever found again.
SpawnHosts ==
  /\ pass = "wait"
  /\ \A s \in Sites : ~marked[s]
  /\ pass' = "swap"
  /\ host' = [s \in Sites |-> IF s \in touched THEN "idle" ELSE host[s]]
  /\ port' = [s \in Sites |-> IF s \in touched THEN plan[s].port ELSE port[s]]
  /\ entry' = [s \in Sites |-> IF s \in touched THEN plan[s].port ELSE entry[s]]
  /\ cache' = [s \in Sites |-> IF s \in Fresh THEN None ELSE cache[s]]
  /\ unclaimed' = unclaimed \cup
       {s \in touched : plan[s].port # None /\ plan[s].port # recorded[s]}
  /\ UNCHANGED <<marked, confVars, plan, touched, passes, bound, foreign>>

\* The new configuration replaces the active one, with the ports it copied when
\* it was planned.
Swap ==
  /\ pass = "swap"
  /\ pass' = "flush"
  /\ block' = [s \in Sites |-> plan[s].block]
  /\ recorded' = [s \in Sites |-> plan[s].port]
  /\ unclaimed' = unclaimed \cup
       {s \in Sites : host[s] # "off" /\ port[s] # None /\ port[s] # plan[s].port}
  /\ UNCHANGED <<hostVars, plan, touched, passes, cache, bound, foreign>>

\* Mutant of Flush: the cache is not invalidated.
Flush_KeepsCache ==
  /\ pass = "flush"
  /\ pass' = "none"
  /\ UNCHANGED <<hostVars, confVars, plan, touched, passes, cache, bound, foreign, unclaimed>>

\* invalidate_cache, after the log level and the certificate switches.
Flush ==
  /\ pass = "flush"
  /\ pass' = "none"
  /\ cache' = [s \in Sites |-> None]
  /\ UNCHANGED <<hostVars, confVars, plan, touched, passes, bound, foreign, unclaimed>>

-----------------------------------------------------------------------------
\* A cached target is used while its proc id is in the map.
Hit(s) == cache[s] # None /\ host[s] # "off"

\* try_find_site for a hosted site: a miss is answered from the active
\* configuration and cached, if the block has a port.
Lookup(s) ==
  /\ ~Hit(s)
  /\ block[s] # None /\ recorded[s] # None
  /\ cache' = [cache EXCEPT ![s] = [port |-> recorded[s], block |-> block[s]]]
  /\ UNCHANGED <<hostVars, confVars, passVars, bound, foreign, unclaimed>>

\* Other programs of the machine.
ForeignBinds(p) ==
  /\ Free(p) /\ foreign < MaxForeign
  /\ bound' = [bound EXCEPT ![p] = Foreign]
  /\ foreign' = foreign + 1
  /\ UNCHANGED <<hostVars, confVars, passVars, cache, unclaimed>>

ForeignLeaves(p) ==
  /\ bound[p] = Foreign
  /\ bound' = [bound EXCEPT ![p] = None]
  /\ UNCHANGED <<hostVars, confVars, passVars, cache, foreign, unclaimed>>

-----------------------------------------------------------------------------
\* main spawns a host per block and no block has an active port.
Init ==
  /\ block \in [Sites -> Blocks \cup {None}]
  /\ Valid(block)
  /\ host = [s \in Sites |-> IF block[s] = None THEN "off" ELSE "idle"]
  /\ port = [s \in Sites |-> None]
  /\ marked = [s \in Sites |-> FALSE]
  /\ entry = [s \in Sites |-> None]
  /\ recorded = [s \in Sites |-> None]
  /\ pass = "none"
  /\ plan = [s \in Sites |-> [block |-> None, port |-> None]]
  /\ touched = {}
  /\ passes = 0
  /\ cache = [s \in Sites |-> None]
  /\ bound = [p \in Port |-> None]
  /\ foreign = 0
  /\ unclaimed = {}

HostStep(s) == Choose(s) \/ Launch(s) \/ Leave(s)

PassStep == SpawnHosts \/ Swap \/ Flush

Next ==
  \/ \E s \in Sites : HostStep(s) \/ Bind(s) \/ ProcessEnds(s) \/ Lookup(s)
  \/ \E c \in [Sites -> Blocks \cup {None}], new \in SUBSET Sites : Plan(c, new)
  \/ PassStep
  \/ \E p \in Squatted : ForeignBinds(p) \/ ForeignLeaves(p)

Spec == Init /\ [][Next]_vars

-----------------------------------------------------------------------------
Holds(s) == host[s] # "off" /\ port[s] # None

\* Values stay in their types: what a host, the map, the configuration and the
\* cache remember of a port (main.rs, proc_host.rs, reload.rs).
TypeOK ==
  /\ host \in [Sites -> {"off", "idle", "chosen", "up"}]
  /\ port \in [Sites -> Port \cup {None}]
  /\ \A s \in Sites : host[s] \in {"chosen", "up"} => port[s] \in Port
  /\ marked \in [Sites -> BOOLEAN]
  /\ entry \in [Sites -> Port \cup {None}]
  /\ block \in [Sites -> Blocks \cup {None}]
  /\ recorded \in [Sites -> Port \cup {None}]
  /\ pass \in {"none", "wait", "swap", "flush"}
  /\ plan \in [Sites -> [block : Blocks \cup {None}, port : Port \cup {None}]]
  /\ touched \subseteq Sites
  /\ passes \in 0..MaxPasses
  /\ cache \in [Sites -> [port : Port, block : Blocks] \cup {None}]
  /\ bound \in [Port -> Sites \cup {None, Foreign}]
  /\ foreign \in 0..MaxForeign
  /\ unclaimed \subseteq Sites

\* Two hosts whose ports have been in the active configuration ever since they
\* chose them never have the same one: set_active_port keeps them apart even
\* though it does not reserve anything with the kernel and the processes bind
\* later.  What breaks exclusion is only what `unclaimed` names.
ClaimedPortsDistinct ==
  \A s, t \in Sites :
    s # t /\ Holds(s) /\ Holds(t) /\ s \notin unclaimed /\ t \notin unclaimed
      => port[s] # port[t]

(***************************************************************************)
(* Why it holds.                                                           *)
(***************************************************************************)
\* A port in the active configuration belongs to a block of it.
RecordedIsListed == \A s \in Sites : recorded[s] # None => block[s] # None

\* The claim of a host: the active configuration carries its port.
ClaimRecorded ==
  \A s \in Sites :
    Holds(s) /\ s \notin unclaimed => block[s] # None /\ recorded[s] = port[s]

\* Claims differ, those of sites without a host included.
RecordedDistinct ==
  \A s, t \in Sites :
    s # t /\ s \notin unclaimed /\ t \notin unclaimed
    /\ recorded[s] # None /\ recorded[t] # None
      => recorded[s] # recorded[t]

\* A map entry has a port only when its host has one.
EntryHasHolder == \A s \in Sites : host[s] # "off" /\ entry[s] # None => port[s] # None

\* A pass plans a port for a site it spawns, or for one whose host stays.
PlanHasHolder ==
  pass \in {"wait", "swap"} =>
    \A s \in Sites :
      plan[s].port # None =>
        \/ pass = "wait" /\ s \in touched
        \/ host[s] # "off" /\ port[s] # None /\ ~marked[s]

ListedInPlan == \A s \in Sites : plan[s].port # None => plan[s].block # None

\* Inductive.
ClaimInv ==
  /\ TypeOK
  /\ RecordedIsListed
  /\ ClaimRecorded
  /\ RecordedDistinct
  /\ EntryHasHolder
  /\ PlanHasHolder
  /\ ListedInPlan

\* Between passes a cached target that is still used was built from the block
\* that is now active, however lookups and passes overlapped (invalidate_cache
\* comes after the swap).
CacheFollowsConfig ==
  pass = "none" => \A s \in Sites : Hit(s) => cache[s].block = block[s]

\* The comment in front of set_active_port's call: no two hosts have selected
\* the same port (proc_host.rs).
NoSharedPort ==
  \A s, t \in Sites : s # t /\ Holds(s) /\ Holds(t) => port[s] # port[t]

\* `port` of a hosted process is its fixed port (docs/src/configuration.md): a
\* process that runs with it configured listens there, when nobody else has it.
FixedPortIsUsed ==
  \A s \in Sites :
    (/\ pass = "none" /\ host[s] = "up" /\ block[s].fixed \in Port
     /\ \A t \in Sites \ {s} : block[t] = None)
      => port[s] = block[s].fixed
=============================================================================
